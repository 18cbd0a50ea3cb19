------------------------ MODULE ShardTransactionProofs ------------------------
(***************************************************************************)
(* Proofs about the transactions and cursors of the query path, for any    *)
(* number of handler threads, sessions, connections, Connect RPCs, queries *)
(* and lost backends.                                                      *)
(***************************************************************************)
EXTENDS ShardLinksProofs

\* Most of what follows is first-order: Zenon proves it unless a leaf says SMT.
USE Zenon

\* The transaction a stream began is its own; where a kind of statement is run.
Transactions ==
    /\ \A c \in Conn : opened[c] = NoCreds => pg[c] = Fresh
    /\ \A c \in Conn : pg[c].explicit => pg[c].txn \in {"INTRANS", "INERROR"}
    /\ \A t \in Threads :
          /\ rpc[t] \in {"begin", "declare", "relock"} => sql[t] = "rows"
          /\ rpc[t] = "exec" => sql[t] # "rows"
          /\ started_local_txn_[t] =>
                /\ rpc[t] \in {"declare", "relock", "loop", "closing", "ending"}
                /\ sql[t] = "rows"
                /\ connection_(t) \in dead \cup shared \/ ~pg[connection_(t)].explicit

-----------------------------------------------------------------------------
(***************************************************************************)
(* Transactions and cursors.                                               *)
(***************************************************************************)

TxnInv == LinkedInv /\ Transactions /\ CursorIntact

\* The parts of Transactions and CursorIntact: connections, and thread u.
ConnectionClean(c) ==
    /\ opened[c] = NoCreds => pg[c] = Fresh
    /\ pg[c].explicit => pg[c].txn \in {"INTRANS", "INERROR"}

ThreadClean(u) ==
    /\ rpc[u] \in {"begin", "declare", "relock"} => sql[u] = "rows"
    /\ rpc[u] = "exec" => sql[u] # "rows"
    /\ started_local_txn_[u] =>
          /\ rpc[u] \in {"declare", "relock", "loop", "closing", "ending"}
          /\ sql[u] = "rows"
          /\ connection_(u) \in dead \cup shared \/ ~pg[connection_(u)].explicit
    /\ rpc[u] = "loop" /\ sql[u] = "rows" /\ connection_(u) \notin dead \cup shared
          => u \in pg[connection_(u)].cursors /\ pg[connection_(u)].txn = "INTRANS"

\* The invariant, connection by connection and thread by thread.
LEMMA TxnParts ==
    TxnInv <=> /\ LinkedInv
               /\ \A c \in Conn : ConnectionClean(c)
               /\ \A u \in Threads : ThreadClean(u)
BY DEF TxnInv, Transactions, CursorIntact, ConnectionClean, ThreadClean

\* The same in the next state.
LEMMA TxnPartsPrime ==
    TxnInv' <=> /\ LinkedInv'
                /\ \A c \in Conn : ConnectionClean(c)'
                /\ \A u \in Threads : ThreadClean(u)'
BY DEF TxnInv, Transactions, CursorIntact, ConnectionClean, ThreadClean

\* A thread on a connection that keeps its state keeps what is known of it.
LEMMA ThreadKept ==
    ASSUME NEW u \in Threads, ThreadClean(u),
           rpc'[u] = rpc[u], sql'[u] = sql[u], session_id'[u] = session_id[u],
           conn'[u] = conn[u], sconn'[u] = sconn[u],
           started_local_txn_'[u] = started_local_txn_[u],
           rpc[u] \in Streaming =>
              \/ connection_(u) \in dead' \cup shared'
              \/ /\ pg'[connection_(u)] = pg[connection_(u)]
                 /\ connection_(u) \in dead \cup shared
                       => connection_(u) \in dead' \cup shared'
    PROVE  ThreadClean(u)'
<1>1. connection_(u)' = connection_(u)
      BY DEF connection_, Pooled
<1>2. rpc[u] \in {"declare", "relock", "loop", "closing", "ending"} => rpc[u] \in Streaming
      BY DEF Streaming
<1> QED
    BY <1>1, <1>2 DEF ThreadClean

\* Acquiring and letting go of connections touch no transaction of another stream.
LEMMA QuietTxn ==
    ASSUME TxnInv, NEW t \in Threads, PoolStep(t) \/ StoreStep(t)
    PROVE  /\ \A c \in Conn : ConnectionClean(c)'
           /\ \A u \in Threads : ThreadClean(u)'
<1>0. /\ LinkedInv /\ HandlerInv
      /\ \A c \in Conn : ConnectionClean(c)
      /\ \A u \in Threads : ThreadClean(u)
      BY TxnParts DEF LinkedInv, OwnedInv
<1>1. ASSUME NEW c \in Conn
      PROVE  ConnectionClean(c)'
  <2>1. \/ pg'[c] = pg[c] /\ (opened'[c] = NoCreds => opened[c] = NoCreds)
        \/ pg'[c] = Fresh
        BY <1>0, QuietConnections DEF Reset
  <2>2. ~Fresh.explicit
        BY DEF Fresh
  <2> QED
      BY <1>0, <2>1, <2>2 DEF ConnectionClean
<1>2. ASSUME NEW u \in Threads, u # t
      PROVE  ThreadClean(u)'
  <2>1. /\ rpc'[u] = rpc[u] /\ sql'[u] = sql[u] /\ session_id'[u] = session_id[u]
        /\ conn'[u] = conn[u] /\ sconn'[u] = sconn[u]
        /\ started_local_txn_'[u] = started_local_txn_[u]
        BY <1>0, <1>2, OthersStay DEF Stays
  <2>2. rpc[u] \in Streaming => Untouched(connection_(u))
    <3> SUFFICES ASSUME rpc[u] \in Streaming PROVE Untouched(connection_(u))
        OBVIOUS
    <3>1. connection_(u) \in Conn
          BY <1>0, StreamHasConnection
    <3>2. connection_(u) = conn[u] \/ connection_(u) = sconn[u]
          BY DEF connection_
    <3> QED
        BY <1>0, <1>2, <3>1, <3>2, OthersUntouched
  <2>3. rpc[u] \in Streaming =>
            /\ pg'[connection_(u)] = pg[connection_(u)]
            /\ connection_(u) \in dead \cup shared
                  => connection_(u) \in dead' \cup shared'
        BY <2>2 DEF Untouched
  <2> QED
      BY <1>0, <2>1, <2>3, ThreadKept
<1>3. ThreadClean(t)'
  <2>1. /\ rpc'[t] \in {"idle", "open", "begin", "exec"}
        /\ rpc'[t] = "begin" => sql'[t] = "rows"
        /\ rpc'[t] = "exec" => sql'[t] # "rows"
        /\ \/ ~started_local_txn_'[t]
           \/ /\ rpc[t] \in {"idle", "open"}
              /\ started_local_txn_'[t] = started_local_txn_[t]
        BY <1>0, SelfMoves DEF Outside
  <2>2. ~started_local_txn_'[t]
        BY <1>0, <2>1 DEF ThreadClean
  <2> QED
      BY <2>1, <2>2 DEF ThreadClean
<1> QED
    BY <1>1, <1>2, <1>3

\* The loss of a backend and a stuttering step touch no transaction.
LEMMA LossTxn ==
    ASSUME TxnInv, (\E c \in Conn : BackendLost(c)) \/ UNCHANGED vars
    PROVE  /\ \A c \in Conn : ConnectionClean(c)'
           /\ \A u \in Threads : ThreadClean(u)'
<1>0. /\ \A c \in Conn : ConnectionClean(c)
      /\ \A u \in Threads : ThreadClean(u)
      BY TxnParts
<1>1. UNCHANGED <<poolVars, streamVars, pg, histVars>> /\ dead \subseteq dead'
      BY DEF BackendLost, vars
<1>2. /\ UNCHANGED <<opened, conn, pg, shared>>
      /\ UNCHANGED <<rpc, sql, session_id, sconn, started_local_txn_>>
      BY <1>1 DEF poolVars, streamVars, histVars
<1>3. \A c \in Conn : ConnectionClean(c)'
      BY <1>0, <1>2 DEF ConnectionClean
<1>4. ASSUME NEW u \in Threads
      PROVE  ThreadClean(u)'
      BY <1>0, <1>1, <1>2, ThreadKept
<1> QED
    BY <1>3, <1>4

\* How a step on connection c changes its state, and why an explicit
\* transaction may have ended.
LEMMA StreamStepState ==
    ASSUME TxnInv, NEW t \in Threads, StreamStep(t)
    PROVE  LET c == connection_(t) IN
           /\ pg'[c].explicit => pg'[c].txn \in {"INTRANS", "INERROR"}
           /\ pg[c].explicit /\ ~pg'[c].explicit =>
                 \/ c \in dead \cup shared
                 \/ rpc[t] = "exec" /\ rpc'[t] = "loop" /\ sql[t] = "end"
           /\ ~pg[c].explicit /\ pg'[c].explicit =>
                 rpc[t] = "exec" /\ sql[t] = "begin"
<1> DEFINE c == connection_(t)
<1> DEFINE Goal ==
           /\ pg'[c].explicit => pg'[c].txn \in {"INTRANS", "INERROR"}
           /\ pg[c].explicit /\ ~pg'[c].explicit =>
                 \/ c \in dead \cup shared
                 \/ rpc[t] = "exec" /\ rpc'[t] = "loop" /\ sql[t] = "end"
           /\ ~pg[c].explicit /\ pg'[c].explicit =>
                 rpc[t] = "exec" /\ sql[t] = "begin"
<1> SUFFICES Goal
    OBVIOUS
<1>0. /\ ConnectionClean(c) /\ ThreadClean(t) /\ c \in Conn
      /\ pg \in [Conn -> PgState]
      /\ rpc \in [Threads -> {"idle", "open"} \cup Streaming]
  <2>1. OnConnection(t, c) /\ HandlerInv /\ OwnedInv
        BY StreamStepEffect DEF TxnInv, LinkedInv, OwnedInv
  <2>2. c \in Conn
        BY <2>1, StreamHasConnection DEF OnConnection
  <2> QED
      BY <2>1, <2>2, TxnParts, LinkTypes
<1>p. pg[c] \in PgState /\ (pg[c].explicit => pg[c].txn \in {"INTRANS", "INERROR"})
      BY <1>0 DEF ConnectionClean
<1>s. started_local_txn_[t] => c \in dead \cup shared \/ ~pg[c].explicit
      BY <1>0 DEF ThreadClean
<1> HIDE DEF c
<1>1. ASSUME UNCHANGED pg
      PROVE  Goal
      BY <1>p, <1>1
<1>2. CASE LinkDown(c)
      BY <1>0, <1>2 DEF LinkDown, Gone
<1>3. CASE Rejects(c)
      BY <1>0, <1>p, <1>3 DEF Rejects, PgState
<1>4. ASSUME NEW s \in PgState, Accepts(c, s), s.explicit = pg[c].explicit,
             s.explicit => s.txn \in {"INTRANS", "INERROR"}
      PROVE  Goal
      BY <1>0, <1>4 DEF Accepts
<1>5. CASE BeginIfNeeded(t)
  <2>1. [pg[c] EXCEPT !.txn = "INTRANS"] \in PgState
        BY <1>p DEF PgState
  <2>2. CASE Accepts(c, [pg[c] EXCEPT !.txn = "INTRANS"])
        BY <1>4, <1>p, <2>1, <2>2 DEF PgState
  <2> QED
      BY <1>1, <1>2, <1>5, <2>2 DEF BeginIfNeeded, c
<1>6. CASE DeclareCursor(t)
  <2>1. CASE Accepts(c, [pg[c] EXCEPT !.cursors = @ \cup {t}])
    <3>1. [pg[c] EXCEPT !.cursors = @ \cup {t}] \in PgState
          BY <1>p DEF PgState
    <3> QED
        BY <1>4, <1>p, <2>1, <3>1 DEF PgState
  <2> QED
      BY <1>2, <1>3, <1>6, <2>1 DEF DeclareCursor, c
<1>7. CASE ExecuteImmediate(t)
  <2>1. CASE Accepts(c, AfterSql(sql[t], pg[c])) /\ Goto(t, "loop")
    <3>1. rpc[t] = "exec" /\ rpc'[t] = "loop"
          BY <1>0, <1>7, <2>1 DEF ExecuteImmediate, Goto
    <3>2. pg'[c] = AfterSql(sql[t], pg[c])
          BY <1>0, <2>1 DEF Accepts
    <3>3. CASE sql[t] = "begin"
      <4>1. pg'[c] = [pg[c] EXCEPT !.txn = "INTRANS", !.explicit = TRUE]
            BY <3>2, <3>3 DEF AfterSql
      <4>2. pg'[c].txn = "INTRANS" /\ pg'[c].explicit
            BY <1>p, <4>1 DEF PgState
      <4> QED
          BY <3>1, <3>3, <4>2
    <3>4. CASE sql[t] = "end"
      <4>1. ~pg'[c].explicit
            BY SMTT(30), <3>2, <3>4 DEF AfterSql, Fresh
      <4> QED
          BY <3>1, <3>4, <4>1
    <3>5. CASE sql[t] \notin {"begin", "end"}
      <4>1. pg'[c] = pg[c]
            BY <3>2, <3>5 DEF AfterSql
      <4> QED
          BY <1>p, <4>1
    <3> QED
        BY <3>3, <3>4, <3>5
  <2> QED
      BY <1>2, <1>3, <1>7, <2>1 DEF ExecuteImmediate, c
<1>8. CASE Interrupted(t) \/ FetchImmediate(t)
      BY <1>1, <1>8 DEF Interrupted, FetchImmediate
<1>9. CASE FetchCursor(t)
  <2>1. CASE Accepts(c, pg[c])
        BY <1>4, <1>p, <2>1
  <2> QED
      BY <1>2, <1>3, <1>9, <2>1 DEF FetchCursor, c
<1>10. CASE CloseCursor(t)
  <2>1. CASE Accepts(c, [pg[c] EXCEPT !.cursors = @ \ {t}])
    <3>1. [pg[c] EXCEPT !.cursors = @ \ {t}] \in PgState
          BY <1>p DEF PgState
    <3> QED
        BY <1>4, <1>p, <2>1, <3>1 DEF PgState
  <2> QED
      BY <1>1, <1>2, <1>3, <1>10, <2>1 DEF CloseCursor, c
<1>11. CASE EndTransaction(t)
  <2>1. CASE Accepts(c, Fresh) /\ started_local_txn_[t]
    <3>1. ~pg'[c].explicit
          BY <1>0, <2>1 DEF Accepts, Fresh
    <3> QED
        BY <1>s, <2>1, <3>1
  <2> QED
      BY <1>1, <1>2, <1>11, <2>1 DEF EndTransaction, c
<1> QED
    BY <1>5, <1>6, <1>7, <1>8, <1>9, <1>10, <1>11 DEF StreamStep

\* Where a step takes a stream, and whether it has begun a transaction then.
Moves(t) ==
    /\ rpc'[t] \notin {"begin", "exec"}
    /\ rpc'[t] = "declare" => rpc[t] = "begin"
    /\ rpc'[t] = "relock" => rpc[t] = "declare"
    /\ rpc'[t] = "loop" => rpc[t] = "exec" \/ DeclareCursor(t)
    /\ started_local_txn_'[t] /\ ~started_local_txn_[t] =>
          rpc[t] = "begin" /\ rpc'[t] = "declare" /\ pg[connection_(t)].txn = "IDLE"
    /\ started_local_txn_[t] /\ rpc[t] \notin {"begin", "exec", "ending"} =>
          rpc'[t] \in {"relock", "loop", "closing", "ending"}
    /\ rpc[t] = "ending" => ~started_local_txn_'[t]

\* The places of a stream, action by action.
LEMMA StreamMoves ==
    ASSUME NEW t \in Threads, StreamStep(t),
           rpc \in [Threads -> {"idle", "open"} \cup Streaming],
           started_local_txn_ \in [Threads -> BOOLEAN]
    PROVE  Moves(t)
<1>1. CASE BeginIfNeeded(t)
      BY <1>1 DEF BeginIfNeeded, Goto, Moves
<1>2. CASE DeclareCursor(t)
      BY <1>2 DEF DeclareCursor, Goto, Moves
<1>3. CASE ExecuteImmediate(t)
      BY <1>3 DEF ExecuteImmediate, Goto, Moves
<1>4. CASE Interrupted(t) \/ FetchCursor(t) \/ FetchImmediate(t)
      BY <1>4 DEF Interrupted, FetchCursor, FetchImmediate, Leave, Moves
<1>5. CASE CloseCursor(t)
      BY <1>5 DEF CloseCursor, Moves
<1>6. CASE EndTransaction(t)
      BY <1>6 DEF EndTransaction, Moves
<1> QED
    BY <1>1, <1>2, <1>3, <1>4, <1>5, <1>6 DEF StreamStep

\* What a stream knows of its own transaction and cursor after its step.
LEMMA StreamStepSelf ==
    ASSUME TxnInv, NEW t \in Threads, StreamStep(t)
    PROVE  ThreadClean(t)'
<1> DEFINE c == connection_(t)
<1>0. /\ ConnectionClean(c) /\ ThreadClean(t) /\ c \in Conn
      /\ pg \in [Conn -> PgState]
      /\ rpc \in [Threads -> {"idle", "open"} \cup Streaming]
      /\ started_local_txn_ \in [Threads -> BOOLEAN]
      /\ OnConnection(t, c)
  <2>1. OnConnection(t, c) /\ HandlerInv /\ OwnedInv
        BY StreamStepEffect DEF TxnInv, LinkedInv, OwnedInv
  <2>2. c \in Conn
        BY <2>1, StreamHasConnection DEF OnConnection
  <2>3. started_local_txn_ \in [Threads -> BOOLEAN]
        BY <2>1 DEF HandlerInv, ShardTypeOK
  <2> QED
      BY <2>1, <2>2, <2>3, TxnParts, LinkTypes
<1>1. /\ connection_(t)' = c /\ dead' = dead /\ shared' = shared
      /\ sql'[t] = sql[t]
  <2>1. UNCHANGED <<sql, session_id, sconn, conn, dead, shared>>
        BY <1>0 DEF OnConnection, StreamFrame, poolSlots, histVars
  <2> QED
      BY <2>1 DEF connection_, Pooled
<1>2. ~pg[c].explicit /\ pg'[c].explicit => rpc[t] = "exec" /\ sql[t] = "begin"
      BY StreamStepState
<1>3. Moves(t)
      BY <1>0, StreamMoves
<1>4. rpc'[t] \in {"begin", "declare", "relock"} => sql[t] = "rows"
      BY <1>0, <1>3 DEF Moves, ThreadClean
<1>5. started_local_txn_'[t] /\ started_local_txn_[t] =>
          rpc'[t] \in {"declare", "relock", "loop", "closing", "ending"}
      BY <1>0, <1>3 DEF Moves, ThreadClean
<1>6. started_local_txn_'[t] =>
          /\ rpc'[t] \in {"declare", "relock", "loop", "closing", "ending"}
          /\ sql[t] = "rows"
          /\ c \in dead \cup shared \/ ~pg'[c].explicit
  <2>1. CASE started_local_txn_[t]
    <3>1. sql[t] = "rows" /\ (c \in dead \cup shared \/ ~pg[c].explicit)
          BY <1>0, <2>1 DEF ThreadClean
    <3> QED
        BY <1>2, <1>5, <2>1, <3>1
  <2>2. ASSUME ~started_local_txn_[t], started_local_txn_'[t]
        PROVE  /\ rpc'[t] \in {"declare", "relock", "loop", "closing", "ending"}
               /\ sql[t] = "rows"
               /\ c \in dead \cup shared \/ ~pg'[c].explicit
    <3>1. rpc[t] = "begin" /\ rpc'[t] = "declare" /\ pg[c].txn = "IDLE"
          BY <1>3, <2>2 DEF Moves
    <3>2. sql[t] = "rows" /\ ~pg[c].explicit
          BY <1>0, <3>1 DEF ThreadClean, ConnectionClean
    <3> QED
        BY <1>2, <3>1, <3>2
  <2> QED
      BY <2>1, <2>2
<1>7. rpc'[t] = "loop" /\ sql[t] = "rows" /\ c \notin dead \cup shared
         => t \in pg'[c].cursors /\ pg'[c].txn = "INTRANS"
  <2> SUFFICES ASSUME rpc'[t] = "loop", sql[t] = "rows"
               PROVE  t \in pg'[c].cursors /\ pg'[c].txn = "INTRANS"
      OBVIOUS
  <2>1. rpc[t] # "exec"
        BY <1>0 DEF ThreadClean
  <2>2. DeclareCursor(t)
        BY <1>3, <2>1 DEF Moves
  <2>3. pg[c].txn = "INTRANS" /\ Accepts(c, [pg[c] EXCEPT !.cursors = @ \cup {t}])
        BY <1>0, <2>2 DEF DeclareCursor, Goto
  <2> QED
      BY <1>0, <2>3 DEF Accepts, PgState
<1>8. rpc'[t] # "exec"
      BY <1>3 DEF Moves
<1> QED
    BY <1>1, <1>4, <1>6, <1>7, <1>8 DEF ThreadClean

\* The steps of a stream keep what is known of transactions and cursors.
LEMMA StreamTxn ==
    ASSUME TxnInv, NEW t \in Threads, StreamStep(t)
    PROVE  /\ \A d \in Conn : ConnectionClean(d)'
           /\ \A u \in Threads : ThreadClean(u)'
<1> DEFINE c == connection_(t)
<1>0. /\ \A d \in Conn : ConnectionClean(d)
      /\ \A u \in Threads : ThreadClean(u)
      /\ pg \in [Conn -> PgState] /\ c \in Conn
      /\ rpc \in [Threads -> {"idle", "open"} \cup Streaming]
      /\ OnConnection(t, c) /\ LinkedInv /\ Apart /\ HandlerInv
  <2>1. OnConnection(t, c) /\ HandlerInv /\ OwnedInv
        BY StreamStepEffect DEF TxnInv, LinkedInv, OwnedInv
  <2>2. c \in Conn
        BY <2>1, StreamHasConnection DEF OnConnection
  <2> QED
      BY <2>1, <2>2, TxnParts, LinkTypes
<1>1. /\ UNCHANGED <<opened, sql, session_id, conn, sconn, dead, shared>>
      /\ rpc[t] \in Streaming
      /\ \A d \in Conn : d # c => pg'[d] = pg[d]
      BY <1>0 DEF OnConnection, StreamFrame, poolSlots, histVars
<1>2. ASSUME NEW d \in Conn
      PROVE  ConnectionClean(d)'
  <2>1. CASE d # c
        BY <1>0, <1>1, <2>1 DEF ConnectionClean
  <2>2. CASE d = c
    <3>1. pg'[c].explicit => pg'[c].txn \in {"INTRANS", "INERROR"}
          BY StreamStepState
    <3>2. opened[c] # NoCreds
          BY <1>0, <1>1 DEF Apart, connection_
    <3> QED
        BY <1>1, <2>2, <3>1, <3>2 DEF ConnectionClean
  <2> QED
      BY <2>1, <2>2
<1>3. ASSUME NEW u \in Threads, u # t
      PROVE  ThreadClean(u)'
  <2>1. rpc'[u] = rpc[u] /\ started_local_txn_'[u] = started_local_txn_[u]
    <3>1. started_local_txn_ \in [Threads -> BOOLEAN]
          BY <1>0 DEF HandlerInv, ShardTypeOK
    <3> QED
        BY <1>0, <1>3, <3>1 DEF OnConnection
  <2>2. rpc[u] \in Streaming =>
           \/ connection_(u) \in dead' \cup shared'
           \/ /\ pg'[connection_(u)] = pg[connection_(u)]
              /\ connection_(u) \in dead \cup shared
                    => connection_(u) \in dead' \cup shared'
    <3> SUFFICES ASSUME rpc[u] \in Streaming
                 PROVE  connection_(u) \in shared \/ pg'[connection_(u)] = pg[connection_(u)]
        BY <1>1
    <3>1. connection_(u) \in Conn
          BY <1>0, StreamHasConnection
    <3>2. CASE connection_(u) = c
          BY <1>0, <1>1, <1>3, <3>2, Alone
    <3>3. CASE connection_(u) # c
          BY <1>1, <3>1, <3>3
    <3> QED
        BY <3>2, <3>3
  <2> QED
      BY <1>0, <1>1, <2>1, <2>2, ThreadKept
<1> QED
    BY <1>2, <1>3, StreamStepSelf

\* Every step keeps what is known of transactions and cursors.
LEMMA TxnNext == TxnInv /\ [ShardNext]_vars => TxnInv'
<1> SUFFICES ASSUME TxnInv, [ShardNext]_vars
             PROVE  TxnInv'
    OBVIOUS
<1>1. LinkedInv'
      BY LinksNext DEF TxnInv
<1>2. /\ \A c \in Conn : ConnectionClean(c)'
      /\ \A u \in Threads : ThreadClean(u)'
      BY StepKinds, QuietTxn, StreamTxn, LossTxn
<1> QED
    BY <1>1, <1>2, TxnPartsPrime

\* The transaction BeginIfNeeded starts is the stream's own, never the one the
\* client began, until EndTransaction ends it.
THEOREM TransactionsKept == ShardSpec => []TxnInv
<1>1. ASSUME ShardInit
      PROVE  Transactions
  <2>1. \A c \in Conn : pg[c] = Fresh /\ ~pg[c].explicit
        BY <1>1 DEF ShardInit, Fresh
  <2>2. \A t \in Threads : rpc[t] = "idle" /\ ~started_local_txn_[t]
        BY <1>1 DEF ShardInit
  <2> QED
      BY <2>1, <2>2 DEF Transactions
<1>2. ShardInit => CursorIntact
      BY DEF ShardInit, CursorIntact
<1> QED
    BY <1>1, <1>2, LinksKnown, TxnNext, PTL DEF TxnInv, ShardSpec

\* No other handler can fail the next FETCH of a stream in its loop: the cursor
\* is there, in a live transaction, unless the backend is gone or two streams
\* used the connection at once.
THEOREM CursorsIntact == ShardSpec => []CursorIntact
BY TransactionsKept, PTL DEF TxnInv

-----------------------------------------------------------------------------
(***************************************************************************)
(* Pooled connections, when BEGIN is sent with a session_id only.          *)
(***************************************************************************)

\* A pooled connection is clean when a stream gets it and when it goes back.
PooledClean ==
    \A t \in Threads : Pooled(t) /\ rpc[t] # "idle" =>
        /\ sql[t] # "begin"
        /\ rpc[t] \in Streaming =>
              LET c == conn[t] IN
              /\ ~pg[c].explicit
              /\ rpc[t] \in {"begin", "exec"} => pg[c] = Fresh
              /\ rpc[t] \in {"declare", "relock"} => started_local_txn_[t]
              /\ rpc[t] \in {"loop", "closing", "ending"} =>
                    started_local_txn_[t] \/ pg[c] = Fresh \/ c \notin healthy
              /\ rpc[t] = "releasing" /\ commit[t] => pg[c] = Fresh \/ c \notin healthy

CleanInv == TxnInv /\ PooledClean /\ IdleClean

\* PooledClean for thread u.
PooledThread(u) ==
    Pooled(u) /\ rpc[u] # "idle" =>
        /\ sql[u] # "begin"
        /\ rpc[u] \in Streaming =>
              /\ ~pg[conn[u]].explicit
              /\ rpc[u] \in {"begin", "exec"} => pg[conn[u]] = Fresh
              /\ rpc[u] \in {"declare", "relock"} => started_local_txn_[u]
              /\ rpc[u] \in {"loop", "closing", "ending"} =>
                    started_local_txn_[u] \/ pg[conn[u]] = Fresh \/ conn[u] \notin healthy
              /\ rpc[u] = "releasing" /\ commit[u] =>
                    pg[conn[u]] = Fresh \/ conn[u] \notin healthy

\* The invariant, thread by thread.
LEMMA CleanParts ==
    CleanInv <=> TxnInv /\ (\A u \in Threads : PooledThread(u)) /\ IdleClean
BY DEF CleanInv, PooledClean, PooledThread

\* The same in the next state.
LEMMA CleanPartsPrime ==
    CleanInv' <=> TxnInv' /\ (\A u \in Threads : PooledThread(u)') /\ IdleClean'
BY DEF CleanInv, PooledClean, PooledThread

\* A thread whose connection is left alone keeps it as clean as it was.
LEMMA PooledKept ==
    ASSUME NEW u \in Threads, PooledThread(u),
           rpc'[u] = rpc[u], sql'[u] = sql[u], session_id'[u] = session_id[u],
           conn'[u] = conn[u],
           started_local_txn_'[u] = started_local_txn_[u], commit'[u] = commit[u],
           Pooled(u) /\ rpc[u] \in Streaming =>
              /\ pg'[conn[u]] = pg[conn[u]]
              /\ conn[u] \in healthy' <=> conn[u] \in healthy
    PROVE  PooledThread(u)'
BY DEF PooledThread, Pooled

\* The connection a pooled stream begins with is clean.
LEMMA QuietSelf ==
    ASSUME "begin" \notin PooledSql, CleanInv, NEW t \in Threads,
           PoolStep(t) \/ StoreStep(t)
    PROVE  PooledThread(t)'
<1>0. /\ HandlerInv /\ PooledThread(t) /\ IdleClean /\ Places /\ LinkedInv
      /\ rpc \in [Threads -> {"idle", "open"} \cup Streaming]
      /\ sql \in [Threads -> SqlKinds]
      /\ session_id \in [Threads -> Sessions \cup {NoSession}]
      /\ conn \in [Threads -> Conn \cup {NoConn}]
      /\ pg \in [Conn -> PgState] /\ idle_ \in Seq(Conn)
      BY CleanParts, OwnerTypes
      DEF TxnInv, LinkedInv, OwnedInv, HandlerInv, ShardTypeOK, TypeOK, PgState
<1>f. ~Fresh.explicit
      BY DEF Fresh
<1>1. CASE Return(t)
  <2>1. rpc'[t] = "idle"
        BY <1>0, <1>1 DEF Return
  <2> QED
      BY <2>1 DEF PooledThread
<1>2. CASE (\E p \in ClientCreds : ConnectRpc(t, p)) \/ \E c \in Unused : ConnectWarmed(t, c)
  <2>1. rpc'[t] = "idle"
    <3>1. CASE \E p \in ClientCreds : ConnectRpc(t, p)
          BY <3>1 DEF ConnectRpc, streamVars
    <3>2. CASE \E c \in Unused : ConnectWarmed(t, c)
          BY <1>0, <3>2 DEF ConnectWarmed, WarmOk, Places, streamVars
    <3> QED
        BY <1>2, <3>1, <3>2
  <2> QED
      BY <2>1 DEF PooledThread
<1>3. ASSUME NEW k \in SqlKinds, NEW s \in Sessions \cup {NoSession}, QueryStream(t, k, s)
      PROVE  PooledThread(t)'
  <2>1. /\ rpc'[t] = "open" /\ sql'[t] = k /\ session_id'[t] = s
        /\ s = NoSession => k \in PooledSql
        BY <1>0, <1>3 DEF QueryStream
  <2>2. "open" \notin Streaming
        BY DEF Streaming
  <2> QED
      BY <2>1, <2>2 DEF PooledThread, Pooled
<1>4. CASE AcquireSpurious(t) \/ AcquirePending(t)
  <2>1. rpc[t] = "open" /\ UNCHANGED streamVars
        BY <1>4 DEF AcquireSpurious, AcquirePending
  <2>2. "open" \notin Streaming
        BY DEF Streaming
  <2> QED
      BY <1>0, <2>1, <2>2 DEF PooledThread, Pooled, streamVars
<1>5. CASE AcquireIdle(t) \/ \E c \in Unused : AcquireCreated(t, c)
  <2>1. /\ rpc[t] = "open" /\ Pooled(t)
        /\ rpc'[t] \in {"begin", "exec"} /\ sql'[t] = sql[t]
        BY <1>0, <1>5 DEF AcquireIdle, AcquireCreated, Goto, AfterAcquire
  <2>2. pg'[conn'[t]] = Fresh
    <3>1. CASE AcquireIdle(t)
      <4>1. idle_ # <<>> /\ conn'[t] = Head(idle_) /\ pg' = pg
            BY <1>0, <3>1 DEF AcquireIdle, TakeIdle
      <4>2. Head(idle_) \in Range(idle_)
        <5>1. 1 \in DOMAIN idle_ /\ Head(idle_) = idle_[1]
              BY SMTT(30), <1>0, <4>1
        <5> QED
            BY <5>1 DEF Range
      <4> QED
          BY <1>0, <4>1, <4>2 DEF IdleClean
    <3>2. ASSUME NEW c \in Unused, AcquireCreated(t, c)
          PROVE  pg'[conn'[t]] = Fresh
      <4>1. c \in Conn
            BY <1>0, UnusedUnowned
      <4>2. conn'[t] = c /\ pg'[c] = Fresh
            BY <1>0, <3>2, <4>1 DEF AcquireCreated, CreateOk, NewBackend
      <4> QED
          BY <4>2
    <3> QED
        BY <1>5, <3>1, <3>2
  <2>3. sql[t] # "begin"
        BY <1>0, <2>1 DEF PooledThread
  <2> QED
      BY <1>f, <2>1, <2>2, <2>3 DEF PooledThread
<1>6. CASE SessionFound(t) \/ \E c \in Unused : SessionCreated(t, c)
  <2>1. ~Pooled(t) /\ session_id' = session_id
        BY <1>6 DEF SessionFound, SessionCreated
  <2> QED
      BY <2>1 DEF PooledThread, Pooled
<1> QED
    BY <1>1, <1>2, <1>3, <1>4, <1>5, <1>6
    DEF PoolStep, StoreStep, AcquireFailed, ReleasePooled, SessionRefused, ReleasePinned,
        DropPooled

\* Which steps change the idle connections.
LEMMA IdleKept ==
    ASSUME NEW t \in Threads, PoolStep(t) \/ StoreStep(t)
    PROVE  \/ idle_' = idle_
           \/ \E c \in Unused : ConnectWarmed(t, c)
           \/ ReleasePooled(t)
           \/ AcquireIdle(t)
<1>1. ASSUME NEW p \in ClientCreds, ConnectRpc(t, p)
      PROVE  idle_' = idle_
      BY <1>1 DEF ConnectRpc, Configure, WarmFail, StoreParams
<1>2. ASSUME NEW k \in SqlKinds, NEW s \in Sessions \cup {NoSession}, QueryStream(t, k, s)
      PROVE  idle_' = idle_
      BY <1>2, ShardAssumption DEF QueryStream, BeginAcquire
<1>3. AcquireSpurious(t) \/ AcquirePending(t) \/ AcquireFailed(t) => idle_' = idle_
      BY DEF AcquireSpurious, AcquirePending, SpuriousWakeup, Sleep, Reserve,
             AcquireFailed, CreateFail
<1>4. ASSUME NEW c \in Unused, AcquireCreated(t, c) \/ SessionCreated(t, c)
      PROVE  idle_' = idle_
      BY <1>4 DEF AcquireCreated, CreateOk, SessionCreated, StoreConnections
<1>5. SessionFound(t) \/ SessionRefused(t) => idle_' = idle_
      BY DEF SessionFound, SessionRefused, StoreConnections, poolVars
<1>6. ReleasePinned(t) \/ DropPooled(t) => idle_' = idle_
      BY DEF ReleasePinned, DropPooled
<1> QED
    BY <1>1, <1>2, <1>3, <1>4, <1>5, <1>6 DEF PoolStep, StoreStep

\* What goes into the pool is clean.
LEMMA QuietIdle ==
    ASSUME CleanInv, NEW t \in Threads, PoolStep(t) \/ StoreStep(t)
    PROVE  IdleClean'
<1>0. /\ HandlerInv /\ PooledThread(t) /\ IdleClean /\ LinkedInv
      /\ Owners /\ pg \in [Conn -> PgState] /\ idle_ \in Seq(Conn)
      BY CleanParts, OwnerTypes
      DEF TxnInv, LinkedInv, OwnedInv, HandlerInv, ShardTypeOK, TypeOK, PgState
<1>1. \A d \in Range(idle_) : pg'[d] = Fresh
  <2>1. \A d \in Range(idle_) : d \in Conn
        BY SMT, <1>0 DEF Range
  <2>2. \A d \in Conn : pg'[d] \in {pg[d], Fresh}
        BY <1>0, QuietConnections DEF Reset
  <2> QED
      BY <1>0, <2>1, <2>2 DEF IdleClean
<1>2. ASSUME Range(idle_') \subseteq Range(idle_)
      PROVE  IdleClean'
      BY <1>1, <1>2 DEF IdleClean
<1>3. ASSUME NEW c \in Conn, idle_' = Append(idle_, c), pg'[c] = Fresh
      PROVE  IdleClean'
  <2>1. Range(Append(idle_, c)) = Range(idle_) \cup {c}
        BY SMTT(30), <1>0, PushInjective
  <2>2. \A d \in Range(idle_') : pg'[d] = Fresh
        BY <1>1, <1>3, <2>1
  <2> QED
      BY <2>2 DEF IdleClean
<1>4. ASSUME NEW c \in Unused, ConnectWarmed(t, c)
      PROVE  IdleClean'
  <2>1. c \in Conn
        BY <1>0, UnusedUnowned
  <2> QED
      BY <1>0, <1>3, <1>4, <2>1 DEF ConnectWarmed, WarmOk, NewBackend
<1>5. CASE ReleasePooled(t)
  <2>1. CASE idle_' = idle_
        BY <1>2, <2>1
  <2>2. CASE idle_' # idle_
    <3>1. /\ conn[t] \in Conn /\ pg' = pg /\ idle_' = Append(idle_, conn[t])
          /\ commit[t] /\ conn[t] \in healthy
          BY <1>0, <1>5, <2>2, ReleaseEffect
    <3>2. rpc[t] = "releasing" /\ Pooled(t) /\ "releasing" \in Streaming
          BY <1>5 DEF ReleasePooled, Streaming
    <3>3. pg[conn[t]] = Fresh
          BY <1>0, <3>1, <3>2 DEF PooledThread
    <3> QED
        BY <1>3, <3>1, <3>3
  <2> QED
      BY <2>1, <2>2
<1>6. CASE AcquireIdle(t)
  <2>1. Range(idle_') = Range(idle_) \ {Head(idle_)}
        BY <1>0, <1>6, PopInjective DEF AcquireIdle, TakeIdle, Owners
  <2> QED
      BY <1>2, <2>1
<1>7. CASE idle_' = idle_
      BY <1>2, <1>7
<1> QED
    BY <1>4, <1>5, <1>6, <1>7, IdleKept

\* A rejected statement leaves a connection without a transaction as it was.
LEMMA RejectsFresh ==
    ASSUME NEW c \in Conn, pg \in [Conn -> PgState], pg[c] = Fresh, Rejects(c)
    PROVE  pg'[c] = Fresh
BY SMT DEF Rejects, Fresh

\* What a pooled stream knows of its connection after its step.
LEMMA PooledStream ==
    ASSUME CleanInv, NEW t \in Threads, StreamStep(t)
    PROVE  PooledThread(t)'
<1>0. /\ TxnInv /\ PooledThread(t) /\ OnConnection(t, connection_(t))
      /\ connection_(t) \in Conn
      /\ pg \in [Conn -> PgState]
      /\ rpc \in [Threads -> {"idle", "open"} \cup Streaming]
      /\ started_local_txn_ \in [Threads -> BOOLEAN]
      /\ commit \in [Threads -> BOOLEAN]
      /\ rpc[t] \in Streaming
  <2>1. TxnInv /\ HandlerInv /\ OwnedInv /\ PooledThread(t)
        BY CleanParts DEF TxnInv, LinkedInv, OwnedInv
  <2>2. OnConnection(t, connection_(t))
        BY <2>1, StreamStepEffect
  <2>3. rpc[t] \in Streaming
        BY <2>2 DEF OnConnection
  <2> QED
      BY <2>1, <2>2, <2>3, StreamHasConnection DEF HandlerInv, ShardTypeOK, PgState
<1>1. UNCHANGED <<sql, session_id, conn>>
      BY <1>0 DEF OnConnection, StreamFrame, poolSlots
<1>2. CASE ~Pooled(t)
      BY <1>1, <1>2 DEF PooledThread, Pooled
<1> DEFINE c == conn[t]
<1> SUFFICES ASSUME Pooled(t)
             PROVE  PooledThread(t)'
    BY <1>2
<1>3. c = connection_(t) /\ c \in Conn
      BY <1>0 DEF connection_
<1>4. /\ sql[t] # "begin" /\ ~pg[c].explicit
      /\ rpc[t] \in {"begin", "exec"} => pg[c] = Fresh
      /\ rpc[t] \in {"declare", "relock"} => started_local_txn_[t]
      /\ rpc[t] \in {"loop", "closing", "ending"} =>
            started_local_txn_[t] \/ pg[c] = Fresh \/ c \notin healthy
  <2>1. rpc[t] # "idle"
        BY <1>0 DEF Streaming
  <2> QED
      BY <1>0, <2>1 DEF PooledThread
<1>5. ~pg'[c].explicit
      BY <1>0, <1>3, <1>4, StreamStepState
<1>6. LinkDown(c) => c \notin healthy'
      BY DEF LinkDown
<1>7. pg[c] = Fresh /\ Rejects(c) => pg'[c] = Fresh
      BY <1>0, <1>3, RejectsFresh
<1> DEFINE Good == started_local_txn_'[t] \/ pg'[c] = Fresh \/ c \notin healthy'
<1>8. CASE BeginIfNeeded(t)
  <2>1. rpc'[t] = "drop" \/ (rpc'[t] = "declare" /\ started_local_txn_'[t])
    <3>1. pg[c].txn = "IDLE"
          BY SMTT(30), <1>4, <1>8 DEF BeginIfNeeded, Fresh
    <3> QED
        BY <1>0, <1>3, <1>8, <3>1 DEF BeginIfNeeded, Goto
  <2> QED
      BY <1>1, <1>4, <1>5, <2>1 DEF PooledThread
<1>9. CASE DeclareCursor(t)
  <2>1. started_local_txn_'[t] /\ rpc'[t] \in {"loop", "relock"}
        BY <1>0, <1>4, <1>9 DEF DeclareCursor, Goto
  <2> QED
      BY <1>1, <1>4, <1>5, <2>1 DEF PooledThread
<1>10. CASE ExecuteImmediate(t)
  <2>1. rpc'[t] \in {"loop", "releasing"}
        BY <1>0, <1>10 DEF ExecuteImmediate, Goto
  <2>2. pg[c] = Fresh
        BY <1>4, <1>10 DEF ExecuteImmediate
  <2>3. pg'[c] = Fresh \/ c \notin healthy'
    <3>1. Accepts(c, AfterSql(sql[t], pg[c])) \/ LinkDown(c) \/ Rejects(c)
          BY <1>3, <1>10 DEF ExecuteImmediate
    <3>2. AfterSql(sql[t], pg[c]) = Fresh
          BY <1>4, <2>2 DEF AfterSql
    <3>3. Accepts(c, Fresh) => pg'[c] = Fresh
          BY <1>0, <1>3 DEF Accepts
    <3> QED
        BY <1>6, <1>7, <2>2, <3>1, <3>2, <3>3
  <2> QED
      BY <1>1, <1>4, <1>5, <2>1, <2>3 DEF PooledThread
<1>11. CASE Interrupted(t) \/ FetchImmediate(t)
  <2>1. rpc'[t] = "closing" /\ UNCHANGED <<pg, healthy, started_local_txn_>>
        BY <1>0, <1>11 DEF Interrupted, FetchImmediate, Leave
  <2>2. rpc[t] = "loop"
        BY <1>11 DEF Interrupted, FetchImmediate
  <2>3. Good
        BY <1>4, <2>1, <2>2
  <2> QED
      BY <1>1, <1>4, <1>5, <2>1, <2>3 DEF PooledThread
<1>12. CASE FetchCursor(t)
  <2>1. /\ rpc[t] = "loop" /\ rpc'[t] = "closing"
        /\ started_local_txn_' = started_local_txn_
        /\ \/ t \in pg[c].cursors /\ pg'= [pg EXCEPT ![c] = pg[c]] /\ healthy' = healthy
           \/ LinkDown(c)
           \/ Rejects(c)
        BY <1>0, <1>3, <1>12 DEF FetchCursor, Leave, Accepts
  <2>2. Rejects(c) => healthy' = healthy
        BY DEF Rejects
  <2>3. Good
        BY <1>0, <1>3, <1>4, <1>6, <1>7, <2>1, <2>2
  <2> QED
      BY <1>1, <1>4, <1>5, <2>1, <2>3 DEF PooledThread
<1>13. CASE CloseCursor(t)
  <2>1. /\ rpc[t] = "closing" /\ rpc'[t] = "ending"
        /\ started_local_txn_' = started_local_txn_
        /\ \/ UNCHANGED <<pg, healthy>>
           \/ t \in pg[c].cursors /\ healthy' = healthy
           \/ LinkDown(c)
           \/ Rejects(c)
        BY <1>0, <1>3, <1>13 DEF CloseCursor, Accepts
  <2>2. Rejects(c) => healthy' = healthy
        BY DEF Rejects
  <2>3. pg[c] = Fresh => t \notin pg[c].cursors
        BY SMT DEF Fresh
  <2>4. Good
        BY <1>4, <1>6, <1>7, <2>1, <2>2, <2>3
  <2> QED
      BY <1>1, <1>4, <1>5, <2>1, <2>4 DEF PooledThread
<1>14. CASE EndTransaction(t)
  <2>1. /\ rpc[t] = "ending" /\ rpc'[t] = "releasing"
        /\ \/ ~started_local_txn_[t] /\ UNCHANGED <<pg, healthy>>
           \/ Accepts(c, Fresh)
           \/ LinkDown(c)
        BY <1>0, <1>3, <1>14 DEF EndTransaction
  <2>2. Accepts(c, Fresh) => pg'[c] = Fresh
        BY <1>0, <1>3 DEF Accepts
  <2>3. pg'[c] = Fresh \/ c \notin healthy'
        BY <1>4, <1>6, <2>1, <2>2
  <2> QED
      BY <1>1, <1>4, <1>5, <2>1, <2>3 DEF PooledThread
<1> QED
    BY <1>8, <1>9, <1>10, <1>11, <1>12, <1>13, <1>14 DEF StreamStep

\* The streams other than the one that moves, and the idle connections.
LEMMA CleanElsewhere ==
    ASSUME CleanInv, NEW t \in Threads, StreamStep(t)
    PROVE  /\ \A u \in Threads \ {t} : PooledThread(u)'
           /\ IdleClean'
<1> DEFINE c == connection_(t)
<1>0. /\ \A u \in Threads : PooledThread(u)
      /\ IdleClean /\ LinkedInv /\ HandlerInv /\ Apart
      /\ OnConnection(t, c)
      /\ pg \in [Conn -> PgState] /\ idle_ \in Seq(Conn)
      /\ rpc \in [Threads -> {"idle", "open"} \cup Streaming]
      /\ started_local_txn_ \in [Threads -> BOOLEAN]
      /\ commit \in [Threads -> BOOLEAN]
      /\ NoConn \notin Conn
  <2>1. TxnInv /\ LinkedInv /\ HandlerInv /\ OwnedInv /\ IdleClean
        BY CleanParts DEF TxnInv, LinkedInv, OwnedInv
  <2>2. OnConnection(t, c)
        BY <2>1, StreamStepEffect
  <2>3. /\ started_local_txn_ \in [Threads -> BOOLEAN]
        /\ commit \in [Threads -> BOOLEAN]
        BY <2>1 DEF HandlerInv, ShardTypeOK
  <2> QED
      BY <2>1, <2>2, <2>3, CleanParts, LinkTypes, OwnerTypes
<1>a. Apart /\ NoConn \notin Conn
      BY <1>0
<1>i. idle_ \in Seq(Conn)
      BY <1>0
<1>1. /\ UNCHANGED <<sql, session_id, conn, idle_>>
      /\ rpc[t] \in Streaming
      /\ \A d \in Conn : d # c => pg'[d] = pg[d] /\ (d \in healthy' <=> d \in healthy)
      BY <1>0 DEF OnConnection, StreamFrame, poolSlots
<1>2. c \in Conn
      BY <1>0, <1>1, StreamHasConnection
<1>3. c \notin Range(idle_)
      BY <1>a, <1>2 DEF Apart, connection_
<1>4. \A d \in Range(idle_) : d \in Conn
      BY SMT, <1>i DEF Range
<1>5. IdleClean'
      BY <1>0, <1>1, <1>3, <1>4 DEF IdleClean
<1>6. ASSUME NEW u \in Threads \ {t}
      PROVE  PooledThread(u)'
  <2>1. /\ rpc'[u] = rpc[u]
        /\ started_local_txn_'[u] = started_local_txn_[u]
        /\ commit'[u] = commit[u]
        BY <1>0 DEF OnConnection
  <2>2. ASSUME Pooled(u), rpc[u] \in Streaming
        PROVE  conn[u] \in Conn /\ conn[u] # c
    <3>1. conn[u] \in Conn
          BY <1>0, <2>2, StreamHasConnection DEF connection_
    <3> QED
        BY SMTT(30), <1>a, <1>2, <3>1 DEF Apart, connection_
  <2> QED
      BY <1>0, <1>1, <2>1, <2>2, PooledKept
<1> QED
    BY <1>5, <1>6

\* Every step keeps pooled connections clean.
LEMMA CleanNext ==
    ASSUME "begin" \notin PooledSql, CleanInv, [ShardNext]_vars
    PROVE  CleanInv'
<1>0. TxnInv /\ LinkedInv /\ IdleClean /\ \A u \in Threads : PooledThread(u)
      BY CleanParts DEF TxnInv
<1>1. TxnInv'
      BY <1>0, TxnNext
<1>2. ASSUME NEW t \in Threads, PoolStep(t) \/ StoreStep(t)
      PROVE  CleanInv'
  <2>1. ASSUME NEW u \in Threads, u # t
        PROVE  PooledThread(u)'
    <3>1. ASSUME Pooled(u), rpc[u] \in Streaming
          PROVE  /\ pg'[conn[u]] = pg[conn[u]]
                 /\ conn[u] \in healthy' <=> conn[u] \in healthy
      <4>1. conn[u] \in Conn
            BY <1>0, <3>1, StreamHasConnection DEF LinkedInv, OwnedInv, connection_
      <4>2. Untouched(conn[u])
            BY <1>0, <1>2, <2>1, <4>1, OthersUntouched
      <4> QED
          BY <4>2 DEF Untouched
    <3>2. /\ rpc'[u] = rpc[u] /\ sql'[u] = sql[u] /\ session_id'[u] = session_id[u]
          /\ conn'[u] = conn[u]
          /\ started_local_txn_'[u] = started_local_txn_[u]
          /\ commit'[u] = commit[u]
          BY <1>0, <1>2, <2>1, OthersStay DEF Stays
    <3> QED
        BY <1>0, <3>1, <3>2, PooledKept
  <2>2. PooledThread(t)' /\ IdleClean'
        BY <1>2, QuietSelf, QuietIdle
  <2> QED
      BY <1>1, <2>1, <2>2, CleanPartsPrime
<1>3. ASSUME NEW t \in Threads, StreamStep(t)
      PROVE  CleanInv'
  <2>1. \A u \in Threads : PooledThread(u)'
        BY <1>3, PooledStream, CleanElsewhere
  <2> QED
      BY <1>1, <1>3, <2>1, CleanElsewhere, CleanPartsPrime
<1>4. ASSUME UNCHANGED <<poolVars, streamVars, pg>>
      PROVE  CleanInv'
  <2>1. \A u \in Threads : PooledThread(u)'
        BY <1>0, <1>4, PooledKept DEF poolVars, streamVars
  <2>2. IdleClean'
        BY <1>0, <1>4 DEF IdleClean, poolVars
  <2> QED
      BY <1>1, <2>1, <2>2, CleanPartsPrime
<1>5. CASE \E c \in Conn : BackendLost(c)
      BY <1>4, <1>5 DEF BackendLost
<1>6. CASE UNCHANGED vars
      BY <1>4, <1>6 DEF vars
<1> QED
    BY <1>2, <1>3, <1>5, <1>6, StepKinds

\* No step ends the transaction a client began, but for the client's own COMMIT
\* or ROLLBACK, the loss of the backend and two streams in one session.
LEMMA ClientTxnStep ==
    ASSUME CleanInv, [ShardNext]_vars, NEW c \in Conn,
           pg[c].explicit, ~pg'[c].explicit
    PROVE  \/ c \in dead \cup shared
           \/ \E t \in Threads : /\ rpc[t] = "exec" /\ rpc'[t] = "loop"
                                 /\ sql[t] = "end" /\ connection_(t) = c
<1>0. /\ TxnInv /\ LinkedInv /\ HandlerInv /\ Transactions
      /\ \A u \in Threads : PooledThread(u)
      /\ pg \in [Conn -> PgState]
  <2>1. TxnInv /\ LinkedInv /\ HandlerInv /\ OwnedInv
        BY CleanParts DEF TxnInv, LinkedInv, OwnedInv
  <2> QED
      BY <2>1, CleanParts, LinkTypes DEF TxnInv
<1>1. ASSUME NEW t \in Threads, PoolStep(t) \/ StoreStep(t)
      PROVE  c \in dead
  <2>1. Lost(c)
        BY <1>0, <1>1, QuietConnections DEF Reset, Fresh
  <2>2. opened[c] # NoCreds
    <3>1. opened[c] = NoCreds => pg[c] = Fresh
          BY <1>0 DEF Transactions
    <3> QED
        BY SMT, <3>1 DEF Fresh
  <2>3. ASSUME NEW u \in Threads, rpc[u] \in Streaming, Pooled(u), c = conn[u]
        PROVE  FALSE
        BY <1>0, <2>3 DEF PooledThread, Streaming
  <2> QED
      BY <2>1, <2>2, <2>3 DEF Lost
<1>2. ASSUME NEW t \in Threads, StreamStep(t)
      PROVE  \/ c \in dead \cup shared
             \/ rpc[t] = "exec" /\ rpc'[t] = "loop" /\ sql[t] = "end" /\ connection_(t) = c
  <2>1. OnConnection(t, connection_(t))
        BY <1>0, <1>2, StreamStepEffect
  <2>2. connection_(t) = c
        BY <1>0, <2>1 DEF OnConnection
  <2> QED
      BY <1>0, <1>2, <2>2, StreamStepState
<1>3. CASE (\E d \in Conn : BackendLost(d)) \/ UNCHANGED vars
      BY <1>3 DEF BackendLost, vars
<1> QED
    BY <1>1, <1>2, <1>3, StepKinds

\* No connection is in use when the service starts.
LEMMA CleanInit == ShardInit => PooledClean /\ IdleClean
<1>1. ASSUME ShardInit
      PROVE  IdleClean
  <2>1. idle_ = <<>>
        BY <1>1 DEF ShardInit, PoolInit
  <2> QED
      BY SMTT(30), <2>1 DEF IdleClean, Range
<1> QED
    BY SMT, <1>1 DEF ShardInit, PooledClean

\* A pooled connection has no transaction when a stream gets it from Acquire and,
\* if it is still healthy, none when Close gives it back with Release.
THEOREM ConnectionsKeptClean ==
    ASSUME "begin" \notin PooledSql
    PROVE  ShardSpec => []CleanInv
<1>1. CleanInv /\ [ShardNext]_vars => CleanInv'
      BY CleanNext
<1>2. ShardInit => PooledClean /\ IdleClean
      BY CleanInit
<1>3. ShardSpec => []TxnInv
      BY TransactionsKept
<1> QED
    BY <1>1, <1>2, <1>3, PTL DEF CleanInv, ShardSpec

\* What the pool lends out is clean, when BEGIN is sent with a session_id only:
\* no transaction or cursor of the stream that used a connection before is left.
THEOREM PoolLendsClean ==
    ASSUME "begin" \notin PooledSql
    PROVE  ShardSpec => []IdleClean
<1>1. ShardSpec => []CleanInv
      BY ConnectionsKeptClean
<1>2. CleanInv => IdleClean
      BY DEF CleanInv
<1> QED
    BY <1>1, <1>2, PTL

\* The COMMIT or ROLLBACK of EndTransaction never ends the transaction a client
\* began in its session, when BEGIN is sent with a session_id only.
THEOREM ClientTransactionsPreserved ==
    ASSUME "begin" \notin PooledSql
    PROVE  ShardSpec => ClientTxnPreserved
<1>1. ShardSpec => []CleanInv
      BY ConnectionsKeptClean
<1>2. CleanInv /\ [ShardNext]_vars =>
         [\A c \in Conn :
            pg[c].explicit /\ ~pg'[c].explicit
              => \/ c \in dead \cup shared
                 \/ \E t \in Threads : /\ rpc[t] = "exec" /\ rpc'[t] = "loop"
                                       /\ sql[t] = "end" /\ connection_(t) = c]_vars
      BY ClientTxnStep
<1> QED
    BY <1>1, <1>2, PTL DEF ShardSpec, ClientTxnPreserved

-----------------------------------------------------------------------------
(***************************************************************************)
(* What a failed Open costs.                                               *)
(***************************************************************************)

\* Thread u, between BeginIfNeeded and the end of OpenCursor: the transaction it
\* began is there, and DECLARE failed for a reason.
ThreadBegun(u) ==
    LET c == connection_(u) IN
    /\ rpc[u] = "declare" /\ started_local_txn_[u] =>
          c \in dead \cup shared \/ pg[c].txn = "INTRANS"
    /\ rpc[u] = "relock" => "declare" \in SqlErrors \/ c \in dead \cup shared

BegunInv == TxnInv /\ \A u \in Threads : ThreadBegun(u)

\* A thread on a connection that keeps its state keeps what is known of it.
LEMMA BegunKept ==
    ASSUME NEW u \in Threads, ThreadBegun(u),
           rpc'[u] = rpc[u], session_id'[u] = session_id[u],
           conn'[u] = conn[u], sconn'[u] = sconn[u],
           started_local_txn_'[u] = started_local_txn_[u],
           rpc[u] \in Streaming =>
              \/ connection_(u) \in dead' \cup shared'
              \/ /\ pg'[connection_(u)] = pg[connection_(u)]
                 /\ connection_(u) \in dead \cup shared
                       => connection_(u) \in dead' \cup shared'
    PROVE  ThreadBegun(u)'
<1>1. connection_(u)' = connection_(u)
      BY DEF connection_, Pooled
<1>2. rpc[u] \in {"declare", "relock"} => rpc[u] \in Streaming
      BY DEF Streaming
<1> QED
    BY <1>1, <1>2 DEF ThreadBegun

\* Acquiring and letting go of connections.
LEMMA QuietBegun ==
    ASSUME BegunInv, NEW t \in Threads, PoolStep(t) \/ StoreStep(t), NEW u \in Threads
    PROVE  ThreadBegun(u)'
<1>0. LinkedInv /\ HandlerInv /\ ThreadBegun(u)
      BY DEF BegunInv, TxnInv, LinkedInv, OwnedInv
<1>1. CASE u # t
  <2>1. Stays(u)
        BY <1>0, <1>1, OthersStay
  <2>2. ASSUME rpc[u] \in Streaming
        PROVE  Untouched(connection_(u))
    <3>1. connection_(u) \in Conn
          BY <1>0, <2>2, StreamHasConnection
    <3>2. connection_(u) = conn[u] \/ connection_(u) = sconn[u]
          BY DEF connection_
    <3> QED
        BY <1>0, <1>1, <3>1, <3>2, OthersUntouched
  <2> QED
      BY <1>0, <2>1, <2>2, BegunKept DEF Stays, Untouched
<1>2. CASE u = t
  <2>1. rpc'[t] \in {"idle", "open", "begin", "exec"}
        BY <1>0, SelfMoves DEF Outside
  <2> QED
      BY <1>2, <2>1 DEF ThreadBegun
<1> QED
    BY <1>1, <1>2

\* The steps of a stream: BEGIN leaves a transaction behind, and DECLARE in one
\* fails only if PostgreSQL rejects it or the backend is gone.
LEMMA StreamBegun ==
    ASSUME BegunInv, NEW t \in Threads, StreamStep(t), NEW u \in Threads
    PROVE  ThreadBegun(u)'
<1> DEFINE c == connection_(t)
<1>0. /\ LinkedInv /\ HandlerInv /\ ThreadBegun(u) /\ ThreadBegun(t) /\ ThreadClean(t)
      /\ OnConnection(t, c) /\ c \in Conn
      /\ pg \in [Conn -> PgState]
      /\ rpc \in [Threads -> {"idle", "open"} \cup Streaming]
      /\ started_local_txn_ \in [Threads -> BOOLEAN]
  <2>1. TxnInv /\ LinkedInv /\ OwnedInv /\ HandlerInv
        BY DEF BegunInv, TxnInv, LinkedInv, OwnedInv
  <2>2. OnConnection(t, c)
        BY <2>1, StreamStepEffect
  <2>3. c \in Conn
        BY <2>1, <2>2, StreamHasConnection DEF OnConnection
  <2>4. started_local_txn_ \in [Threads -> BOOLEAN]
        BY <2>1 DEF HandlerInv, ShardTypeOK
  <2> QED
      BY <2>1, <2>2, <2>3, <2>4, LinkTypes, TxnParts DEF BegunInv
<1>1. /\ UNCHANGED <<session_id, conn, sconn, dead, shared>>
      /\ rpc[t] \in Streaming
      /\ \A d \in Conn : d # c => pg'[d] = pg[d]
      BY <1>0 DEF OnConnection, StreamFrame, poolSlots, histVars
<1>2. CASE u # t
  <2>1. rpc'[u] = rpc[u] /\ started_local_txn_'[u] = started_local_txn_[u]
        BY <1>0, <1>2 DEF OnConnection
  <2>2. ASSUME rpc[u] \in Streaming
        PROVE  connection_(u) \in shared \/ pg'[connection_(u)] = pg[connection_(u)]
    <3>1. connection_(u) \in Conn
          BY <1>0, <2>2, StreamHasConnection
    <3>2. CASE connection_(u) = c
          BY <1>0, <1>1, <1>2, <2>2, <3>2, Alone
    <3>3. CASE connection_(u) # c
          BY <1>1, <3>1, <3>3
    <3> QED
        BY <3>2, <3>3
  <2> QED
      BY <1>0, <1>1, <2>1, <2>2, BegunKept
<1>3. CASE u = t
  <2>0. connection_(t)' = c
        BY <1>1 DEF connection_, Pooled
  <2>1. Moves(t)
        BY <1>0, StreamMoves
  <2>2. ASSUME rpc'[t] = "declare", started_local_txn_'[t]
        PROVE  pg'[c].txn = "INTRANS"
    <3>1. rpc[t] = "begin" /\ ~started_local_txn_[t]
          BY <1>0, <2>1, <2>2 DEF Moves, ThreadClean
    <3>2. BeginIfNeeded(t)
          BY <3>1
          DEF StreamStep, DeclareCursor, ExecuteImmediate, Interrupted, FetchCursor,
              FetchImmediate, CloseCursor, EndTransaction
    <3>3. Accepts(c, [pg[c] EXCEPT !.txn = "INTRANS"])
          BY <1>0, <2>2, <3>1, <3>2 DEF BeginIfNeeded, Goto
    <3> QED
        BY <1>0, <3>3 DEF Accepts, PgState
  <2>3. ASSUME rpc'[t] = "relock"
        PROVE  "declare" \in SqlErrors \/ c \in dead \cup shared
    <3>1. rpc[t] = "declare"
          BY <2>1, <2>3 DEF Moves
    <3>2. DeclareCursor(t)
          BY <3>1
          DEF StreamStep, BeginIfNeeded, ExecuteImmediate, Interrupted, FetchCursor,
              FetchImmediate, CloseCursor, EndTransaction
    <3>3. /\ started_local_txn_[t]
          /\ LinkDown(c) \/ pg[c].txn # "INTRANS" \/ "declare" \in SqlErrors
          BY <1>0, <2>3, <3>2 DEF DeclareCursor, Goto
    <3> QED
        BY <1>0, <3>1, <3>3 DEF ThreadBegun, LinkDown
  <2> QED
      BY <1>1, <1>3, <2>0, <2>2, <2>3 DEF ThreadBegun
<1> QED
    BY <1>2, <1>3

\* Every step keeps the reason of a failed DECLARE.
LEMMA BegunNext == BegunInv /\ [ShardNext]_vars => BegunInv'
<1> SUFFICES ASSUME BegunInv, [ShardNext]_vars
             PROVE  BegunInv'
    OBVIOUS
<1>1. TxnInv'
      BY TxnNext DEF BegunInv
<1>2. ASSUME (\E c \in Conn : BackendLost(c)) \/ UNCHANGED vars, NEW u \in Threads
      PROVE  ThreadBegun(u)'
  <2>1. UNCHANGED <<poolVars, streamVars, pg, histVars>> /\ dead \subseteq dead'
        BY <1>2 DEF BackendLost, vars
  <2>2. /\ UNCHANGED <<conn, pg, shared>>
        /\ UNCHANGED <<rpc, session_id, sconn, started_local_txn_>>
        BY <2>1 DEF poolVars, streamVars, histVars
  <2> QED
      BY <2>1, <2>2, BegunKept DEF BegunInv
<1>3. \A u \in Threads : ThreadBegun(u)'
      BY <1>2, QuietBegun, StreamBegun, StepKinds
<1> QED
    BY <1>1, <1>3 DEF BegunInv

\* Lost backends, those that cost the pool a slot among them.
Drops ==
    /\ IsFiniteSet(dead)
    /\ leaked + Cardinality(dead) <= losses
    /\ \A t \in Threads : rpc[t] = "drop" /\ Pooled(t) => conn[t] \in dead

\* Only DropPooled loses a slot; no handler brings a lost backend back.
LEMMA QuietDead ==
    ASSUME LinkedInv, NEW t \in Threads, PoolStep(t) \/ StoreStep(t)
    PROVE  /\ dead' \subseteq dead
           /\ losses' = losses
           /\ leaked' = leaked \/ DropPooled(t)
<1>1. QuietKind(t)
      BY PoolKind, StoreKind
<1>2. dead' \subseteq dead
      BY <1>1 DEF QuietKind, NewBackend, EndBackend, Storing, StoreConnections
<1>3. PoolStep(t) => leaked' = leaked /\ losses' = losses
      BY DEF PoolStep, ConnectRpc, ConnectWarmed, QueryStream, AcquireSpurious,
             AcquirePending, AcquireIdle, AcquireCreated, AcquireFailed, SessionFound,
             ReleasePooled, histVars
<1>4. StoreStep(t) => (leaked' = leaked \/ DropPooled(t)) /\ losses' = losses
      BY DEF StoreStep, QueryStream, SessionCreated, SessionRefused, StoreConnections,
             ReleasePinned, DropPooled, histVars
<1> QED
    BY <1>2, <1>3, <1>4

\* A pooled stream that drops its connection found its backend gone at BEGIN.
LEMMA StreamDrops ==
    ASSUME CleanInv, NEW t \in Threads, StreamStep(t), rpc'[t] = "drop", Pooled(t)
    PROVE  conn[t] \in dead
<1>0. /\ PooledThread(t) /\ rpc[t] \in Streaming
      /\ rpc \in [Threads -> {"idle", "open"} \cup Streaming]
      /\ connection_(t) = conn[t]
  <2>1. HandlerInv /\ OwnedInv /\ PooledThread(t)
        BY CleanParts DEF TxnInv, LinkedInv, OwnedInv
  <2> QED
      BY <2>1, StreamStepEffect, LinkTypes DEF OnConnection, connection_
<1>1. rpc[t] # "idle"
      BY <1>0 DEF Streaming
<1>2. CASE BeginIfNeeded(t)
  <2>1. pg[conn[t]].txn = "IDLE"
        BY SMTT(30), <1>0, <1>1, <1>2 DEF BeginIfNeeded, PooledThread, Fresh
  <2>2. LinkDown(conn[t])
        BY <1>0, <1>2, <2>1 DEF BeginIfNeeded
  <2> QED
      BY <2>2 DEF LinkDown
<1>3. CASE DeclareCursor(t)
  <2>1. started_local_txn_[t]
        BY <1>0, <1>1, <1>3 DEF DeclareCursor, PooledThread
  <2> QED
      BY <1>0, <1>3, <2>1 DEF DeclareCursor, Goto
<1>4. CASE ExecuteImmediate(t)
      BY <1>0, <1>4 DEF ExecuteImmediate, Goto
<1>5. CASE Interrupted(t) \/ FetchCursor(t) \/ FetchImmediate(t)
      BY <1>0, <1>5 DEF Interrupted, FetchCursor, FetchImmediate, Leave
<1>6. CASE CloseCursor(t) \/ EndTransaction(t)
      BY <1>0, <1>6 DEF CloseCursor, EndTransaction
<1> QED
    BY <1>2, <1>3, <1>4, <1>5, <1>6 DEF StreamStep

\* Every step keeps the account of lost backends.
LEMMA DropsNext ==
    ASSUME CleanInv, Drops, [ShardNext]_vars
    PROVE  Drops'
<1>0. /\ LinkedInv /\ HandlerInv /\ Places
      /\ leaked \in Nat /\ losses \in Nat
      /\ rpc \in [Threads -> {"idle", "open"} \cup Streaming]
      BY CleanParts DEF TxnInv, LinkedInv, OwnedInv, HandlerInv, ShardTypeOK
<1>1. /\ IsFiniteSet(dead) /\ Cardinality(dead) \in Nat
      /\ leaked + Cardinality(dead) <= losses
      BY FS_CardinalityType DEF Drops
<1>2. ASSUME NEW t \in Threads, PoolStep(t) \/ StoreStep(t)
      PROVE  Drops'
  <2>1. dead' \subseteq dead /\ losses' = losses /\ (leaked' = leaked \/ DropPooled(t))
        BY <1>0, <1>2, QuietDead
  <2>2. /\ IsFiniteSet(dead') /\ Cardinality(dead') \in Nat
        /\ Cardinality(dead') <= Cardinality(dead)
        BY <1>1, <2>1, FS_Subset, FS_CardinalityType
  <2>3. leaked' + Cardinality(dead') <= losses'
    <3>1. CASE leaked' = leaked
          BY SMTT(30), <1>0, <1>1, <2>1, <2>2, <3>1
    <3>2. CASE DropPooled(t)
      <4>1. /\ leaked' = leaked + 1 /\ dead' = dead \ {conn[t]}
            /\ conn[t] \in dead
            BY <3>2 DEF DropPooled, EndBackend, Drops
      <4>2. Cardinality(dead') = Cardinality(dead) - 1
            BY <1>1, <4>1, FS_RemoveElement
      <4> QED
          BY SMTT(30), <1>0, <1>1, <2>1, <4>1, <4>2
    <3> QED
        BY ZenonT(30), <2>1, <3>1, <3>2
  <2>4. ASSUME NEW u \in Threads, rpc'[u] = "drop", Pooled(u)'
        PROVE  conn'[u] \in dead'
    <3>1. u # t
          BY <1>0, <1>2, <2>4, SelfMoves DEF Outside
    <3>2. Stays(u)
          BY <1>0, <1>2, <3>1, OthersStay
    <3>3. rpc[u] = "drop" /\ Pooled(u) /\ conn'[u] = conn[u]
          BY <2>4, <3>2 DEF Stays, Pooled
    <3>4. conn[u] \in Conn
          BY <1>0, <3>3, StreamHasConnection DEF connection_, Streaming
    <3>5. Untouched(conn[u])
          BY <1>0, <1>2, <3>1, <3>4, OthersUntouched
    <3> QED
        BY <3>3, <3>5 DEF Untouched, Drops
  <2> QED
      BY <2>2, <2>3, <2>4 DEF Drops
<1>3. ASSUME NEW t \in Threads, StreamStep(t)
      PROVE  Drops'
  <2>1. OnConnection(t, connection_(t))
        BY <1>0, <1>3, StreamStepEffect
  <2>2. UNCHANGED <<session_id, conn, dead, losses, leaked>>
        BY <2>1 DEF OnConnection, StreamFrame, poolSlots, histVars
  <2>3. \A u \in Threads : u # t => rpc'[u] = rpc[u]
        BY <1>0, <2>1 DEF OnConnection
  <2>4. ASSUME NEW u \in Threads, rpc'[u] = "drop", Pooled(u)'
        PROVE  conn'[u] \in dead'
        BY <1>3, <2>2, <2>3, <2>4, StreamDrops DEF Pooled, Drops
  <2> QED
      BY ZenonT(30), <1>1, <2>2, <2>4 DEF Drops
<1>4. ASSUME NEW c \in Conn, BackendLost(c)
      PROVE  Drops'
  <2>1. /\ dead' = dead \cup {c} /\ c \notin dead /\ losses' = losses + 1
        /\ UNCHANGED <<poolVars, streamVars, histVars>>
        BY <1>4 DEF BackendLost
  <2>2. UNCHANGED <<rpc, session_id, conn, leaked>>
        BY <2>1 DEF poolVars, streamVars, histVars
  <2>3. IsFiniteSet(dead') /\ Cardinality(dead') = Cardinality(dead) + 1
        BY <1>1, <2>1, FS_AddElement
  <2>4. leaked' + Cardinality(dead') <= losses'
        BY SMTT(30), <1>0, <1>1, <2>1, <2>2, <2>3
  <2> QED
      BY <2>1, <2>2, <2>3, <2>4 DEF Drops, Pooled
<1>5. CASE UNCHANGED vars
      BY <1>5 DEF vars, poolVars, streamVars, histVars, Drops, Pooled
<1> QED
    BY <1>2, <1>3, <1>4, <1>5, StepKinds

\* What a failed Open costs, when BEGIN is sent with a session_id only: a lost
\* backend takes at most one slot from the pool, nothing else takes one, and a
\* handler locks its connection's mutex twice in OpenCursor only if PostgreSQL
\* rejected the SELECT, the backend is gone or two streams shared the session.
THEOREM DamageOfFailedOpens ==
    ASSUME "begin" \notin PooledSql
    PROVE  ShardSpec => []DamageBounded
<1>1. ShardSpec => []CleanInv
      BY ConnectionsKeptClean
<1>2. CleanInv /\ Drops /\ [ShardNext]_vars => Drops'
      BY DropsNext
<1>3. ASSUME ShardInit
      PROVE  Drops /\ \A u \in Threads : ThreadBegun(u)
  <2>1. /\ dead = {} /\ leaked = 0 /\ losses = 0
        /\ \A u \in Threads : rpc[u] = "idle"
        BY <1>3 DEF ShardInit
  <2>2. IsFiniteSet(dead) /\ leaked + Cardinality(dead) <= losses
        BY SMTT(30), <2>1, FS_EmptySet
  <2> QED
      BY <2>1, <2>2 DEF Drops, ThreadBegun
<1>4. ASSUME CleanInv, Drops, SlotsOwnedOrLeaked, \A u \in Threads : ThreadBegun(u)
      PROVE  DamageBounded
  <2>1. leaked \in Nat /\ losses \in Nat
        BY <1>4 DEF CleanInv, TxnInv, LinkedInv, OwnedInv, HandlerInv, ShardTypeOK
  <2>2. leaked + Cardinality(dead) <= losses /\ Cardinality(dead) \in Nat
        BY <1>4, FS_CardinalityType DEF Drops
  <2>3. leaked <= losses
        BY SMTT(30), <2>1, <2>2
  <2> QED
      BY <1>4, <2>3 DEF DamageBounded, ThreadBegun
<1>5. ShardSpec => []TxnInv
      BY TransactionsKept
<1>6. ShardSpec => []BegunInv
      BY <1>3, <1>5, BegunNext, PTL DEF BegunInv, ShardSpec
<1>7. BegunInv => \A u \in Threads : ThreadBegun(u)
      BY DEF BegunInv
<1> QED
    BY <1>1, <1>2, <1>3, <1>4, <1>6, <1>7, SlotsOwned, PTL DEF ShardSpec
=============================================================================
