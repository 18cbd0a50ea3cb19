-------------------------- MODULE ShardServiceProofs --------------------------
(***************************************************************************)
(* Proofs about the query path, for any number of handler threads,         *)
(* sessions, connections, Connect RPCs and queries.                        *)
(***************************************************************************)
EXTENDS ShardService, ConnectionManagerProofs

\* Most of what follows is first-order: Zenon proves it unless a leaf says SMT.
USE Zenon

-----------------------------------------------------------------------------
(***************************************************************************)
(* What is true of a handler at each place of its code.                    *)
(***************************************************************************)

\* Where a handler is in the pool's code, and what it holds.
Places ==
    \A t \in Threads :
        /\ rpc[t] = "idle" => pc[t] \in {"out", "warming", "storing"}
        /\ rpc[t] = "open" =>
              /\ session_defaults_[t] # NoCreds
              /\ Pooled(t) => pc[t] \in {"acquire", "waiting", "woken", "creating"}
              /\ ~Pooled(t) => pc[t] = "out"
        /\ rpc[t] \in Streaming => pc[t] = IF Pooled(t) THEN "holding" ELSE "out"
        /\ conn[t] # NoConn <=> pc[t] = "holding"
        /\ sconn[t] # NoConn <=> rpc[t] \in Streaming /\ ~Pooled(t)

HandlerInv == ShardTypeOK /\ CallOrder /\ Places

\* Every connection has one owner: the pool, a pooled stream, or a session.
Owners ==
    /\ IsInjective(idle_)
    /\ \A t, u \in Threads : conn[t] = conn[u] /\ conn[t] # NoConn => t = u
    /\ \A t \in Threads : conn[t] \notin Range(idle_)
    /\ PinnedApart

-----------------------------------------------------------------------------
(***************************************************************************)
(* What the steps on a connection have in common.                          *)
(***************************************************************************)

PgState == [txn : {"IDLE", "INTRANS", "INERROR", "UNKNOWN"},
            cursors : SUBSET Threads, explicit : BOOLEAN]

\* The steps of a stream between AcquireConnection and ReleaseConnection.
StreamStep(t) ==
    \/ BeginIfNeeded(t)
    \/ DeclareCursor(t)
    \/ ExecuteImmediate(t)
    \/ Interrupted(t)
    \/ FetchCursor(t)
    \/ FetchImmediate(t)
    \/ CloseCursor(t)
    \/ EndTransaction(t)

\* A step of thread t on connection c, as the rest of the system sees it.
OnConnection(t, c) ==
    /\ StreamFrame
    /\ UNCHANGED <<sql, session_id, session_defaults_, sconn>>
    /\ rpc[t] \in Streaming
    /\ \E l \in Streaming : rpc' = [rpc EXCEPT ![t] = l]
    /\ \E b \in BOOLEAN : started_local_txn_' = [started_local_txn_ EXCEPT ![t] = b]
    /\ \E b \in BOOLEAN : cursor_open_' = [cursor_open_ EXCEPT ![t] = b]
    /\ \E b \in BOOLEAN : commit' = [commit EXCEPT ![t] = b]
    /\ \E s \in PgState : pg' = [pg EXCEPT ![c] = s]
    /\ healthy' = healthy \/ (c \in dead /\ healthy' = healthy \ {c})

\* A handler that streams has a connection.
LEMMA StreamHasConnection ==
    ASSUME HandlerInv, NEW t \in Threads, rpc[t] \in Streaming
    PROVE  connection_(t) \in Conn
BY ZenonT(30) DEF HandlerInv, ShardTypeOK, TypeOK, Places, connection_

\* Restarting from the value a function has at a point.
LEMMA ExceptSame ==
    ASSUME NEW S, NEW T, NEW f \in [S -> T], NEW x \in S
    PROVE  f = [f EXCEPT ![x] = f[x]] /\ f[x] \in T
OBVIOUS

\* PostgreSQL's answer to a statement changes the state of that connection only.
LEMMA AnswerEffect ==
    ASSUME ShardTypeOK, NEW c \in Conn, NEW s \in PgState,
           \/ Accepts(c, s)
           \/ Rejects(c)
           \/ LinkDown(c)
           \/ UNCHANGED <<pg, healthy>>
    PROVE  /\ \E r \in PgState : pg' = [pg EXCEPT ![c] = r]
           /\ healthy' = healthy \/ (c \in dead /\ healthy' = healthy \ {c})
<1>0. pg \in [Conn -> PgState]
      BY DEF ShardTypeOK, PgState
<1>1. CASE Accepts(c, s)
      BY <1>1 DEF Accepts
<1>2. CASE Rejects(c)
  <2> DEFINE r == [pg[c] EXCEPT !.txn = IF @ = "INTRANS" THEN "INERROR" ELSE @]
  <2>1. r \in PgState
        BY <1>0 DEF PgState
  <2>2. pg' = [pg EXCEPT ![c] = r] /\ healthy' = healthy
        BY <1>2, <1>0 DEF Rejects
  <2> HIDE DEF r
  <2> QED
      BY <2>1, <2>2
<1>3. CASE LinkDown(c)
  <2>1. Gone \in PgState
        BY DEF Gone, PgState
  <2> QED
      BY <1>3, <2>1 DEF LinkDown
<1>4. CASE UNCHANGED <<pg, healthy>>
      BY SMT, <1>0, <1>4, ExceptSame
<1> QED
    BY <1>1, <1>2, <1>3, <1>4

\* A flag that is set, cleared or left alone.
LEMMA FlagChange ==
    ASSUME NEW f \in [Threads -> BOOLEAN], NEW t \in Threads, NEW g,
           \/ g = f
           \/ g = [f EXCEPT ![t] = TRUE]
           \/ g = [f EXCEPT ![t] = FALSE]
    PROVE  \E b \in BOOLEAN : g = [f EXCEPT ![t] = b]
<1>1. CASE g = f
  <2>1. f = [f EXCEPT ![t] = f[t]] /\ f[t] \in BOOLEAN
        BY ExceptSame
  <2> QED
      BY <1>1, <2>1
<1>2. CASE g = [f EXCEPT ![t] = TRUE]
      BY <1>2
<1>3. CASE g = [f EXCEPT ![t] = FALSE]
      BY <1>3
<1> QED
    BY <1>1, <1>2, <1>3

\* Every step of a stream stays on the connection of the stream.
LEMMA StreamStepEffect ==
    ASSUME HandlerInv, NEW t \in Threads, StreamStep(t)
    PROVE  OnConnection(t, connection_(t))
<1> DEFINE c == connection_(t)
<1>0. /\ ShardTypeOK
      /\ pg \in [Conn -> PgState]
      /\ started_local_txn_ \in [Threads -> BOOLEAN]
      /\ cursor_open_ \in [Threads -> BOOLEAN]
      /\ commit \in [Threads -> BOOLEAN]
      BY DEF HandlerInv, ShardTypeOK, PgState
<1>1. rpc[t] \in Streaming
      BY DEF StreamStep, BeginIfNeeded, DeclareCursor, ExecuteImmediate, Interrupted,
             FetchCursor, FetchImmediate, CloseCursor, EndTransaction, Streaming
<1>2. c \in Conn
      BY <1>1, StreamHasConnection
<1>3. StreamFrame
      BY DEF StreamStep, BeginIfNeeded, DeclareCursor, ExecuteImmediate, Interrupted,
             FetchCursor, FetchImmediate, CloseCursor, EndTransaction
<1>4. UNCHANGED <<sql, session_id, session_defaults_, sconn>>
      BY DEF StreamStep, BeginIfNeeded, DeclareCursor, ExecuteImmediate, Interrupted,
             FetchCursor, FetchImmediate, CloseCursor, EndTransaction, Goto, Leave
<1>5. \E l \in Streaming : rpc' = [rpc EXCEPT ![t] = l]
      BY DEF StreamStep, BeginIfNeeded, DeclareCursor, ExecuteImmediate, Interrupted,
             FetchCursor, FetchImmediate, CloseCursor, EndTransaction, Goto, Leave,
             Streaming
<1>6. \E b \in BOOLEAN : started_local_txn_' = [started_local_txn_ EXCEPT ![t] = b]
  <2>1. \/ started_local_txn_' = started_local_txn_
        \/ started_local_txn_' = [started_local_txn_ EXCEPT ![t] = TRUE]
        \/ started_local_txn_' = [started_local_txn_ EXCEPT ![t] = FALSE]
        BY DEF StreamStep, BeginIfNeeded, DeclareCursor, ExecuteImmediate, Interrupted,
               FetchCursor, FetchImmediate, CloseCursor, EndTransaction, Goto, Leave
  <2> QED
      BY <1>0, <2>1, FlagChange
<1>7. \E b \in BOOLEAN : cursor_open_' = [cursor_open_ EXCEPT ![t] = b]
  <2>1. \/ cursor_open_' = cursor_open_
        \/ cursor_open_' = [cursor_open_ EXCEPT ![t] = TRUE]
        \/ cursor_open_' = [cursor_open_ EXCEPT ![t] = FALSE]
        BY DEF StreamStep, BeginIfNeeded, DeclareCursor, ExecuteImmediate, Interrupted,
               FetchCursor, FetchImmediate, CloseCursor, EndTransaction, Goto, Leave
  <2> QED
      BY <1>0, <2>1, FlagChange
<1>8. \E b \in BOOLEAN : commit' = [commit EXCEPT ![t] = b]
  <2>1. \/ commit' = commit
        \/ commit' = [commit EXCEPT ![t] = TRUE]
        \/ commit' = [commit EXCEPT ![t] = FALSE]
        BY DEF StreamStep, BeginIfNeeded, DeclareCursor, ExecuteImmediate, Interrupted,
               FetchCursor, FetchImmediate, CloseCursor, EndTransaction, Goto, Leave
  <2> QED
      BY <1>0, <2>1, FlagChange
<1>9. /\ \E s \in PgState : pg' = [pg EXCEPT ![c] = s]
      /\ healthy' = healthy \/ (c \in dead /\ healthy' = healthy \ {c})
  <2>1. /\ Fresh \in PgState
        /\ [pg[c] EXCEPT !.txn = "INTRANS"] \in PgState
        /\ [pg[c] EXCEPT !.cursors = @ \cup {t}] \in PgState
        /\ [pg[c] EXCEPT !.cursors = @ \ {t}] \in PgState
        /\ pg[c] \in PgState
        BY <1>0, <1>2 DEF PgState, Fresh
  <2>2. AfterSql(sql[t], pg[c]) \in PgState
    <3>1. [pg[c] EXCEPT !.txn = "INTRANS", !.explicit = TRUE] \in PgState
          BY <1>0, <1>2 DEF PgState
    <3> QED
        BY <2>1, <3>1 DEF AfterSql
  <2>3. \E s \in PgState : \/ Accepts(c, s) \/ Rejects(c) \/ LinkDown(c)
                           \/ UNCHANGED <<pg, healthy>>
    <3>1. CASE BeginIfNeeded(t)
          BY <3>1, <2>1 DEF BeginIfNeeded
    <3>2. CASE DeclareCursor(t)
          BY <3>2, <2>1 DEF DeclareCursor
    <3>3. CASE ExecuteImmediate(t)
          BY <3>3, <2>1, <2>2 DEF ExecuteImmediate
    <3>4. CASE Interrupted(t) \/ FetchImmediate(t)
          BY <3>4, <2>1 DEF Interrupted, FetchImmediate
    <3>5. CASE FetchCursor(t)
          BY <3>5, <2>1 DEF FetchCursor
    <3>6. CASE CloseCursor(t)
          BY <3>6, <2>1 DEF CloseCursor
    <3>7. CASE EndTransaction(t)
          BY <3>7, <2>1 DEF EndTransaction
    <3> QED
        BY <3>1, <3>2, <3>3, <3>4, <3>5, <3>6, <3>7 DEF StreamStep
  <2> QED
      BY <1>0, <1>2, <2>3, AnswerEffect
<1> QED
    BY <1>1, <1>3, <1>4, <1>5, <1>6, <1>7, <1>8, <1>9 DEF OnConnection

-----------------------------------------------------------------------------
(***************************************************************************)
(* Type correctness.  It rests on the places of the handlers.              *)
(***************************************************************************)

\* ShardTypeOK without the types of the pool: of the streams, of the rest.
StreamTypes ==
    /\ rpc \in [Threads -> {"idle", "open"} \cup Streaming]
    /\ sql \in [Threads -> SqlKinds]
    /\ session_id \in [Threads -> Sessions \cup {NoSession}]
    /\ session_defaults_ \in [Threads -> Creds \cup {NoCreds}]
    /\ sconn \in [Threads -> Conn \cup {NoConn}]
    /\ started_local_txn_ \in [Threads -> BOOLEAN]
    /\ cursor_open_ \in [Threads -> BOOLEAN]
    /\ commit \in [Threads -> BOOLEAN]

StoreTypes ==
    /\ sessions_ \in [Sessions -> Conn \cup {NoConn}]
    /\ pg \in [Conn -> PgState]
    /\ dead \in SUBSET Conn
    /\ losses \in Nat
    /\ leaked \in Nat
    /\ shared \in SUBSET Conn

\* The parts of the invariant of the handlers.
LEMMA HandlerInvParts ==
    HandlerInv <=> TypeInv /\ StreamTypes /\ StoreTypes /\ Places
BY DEF HandlerInv, ShardTypeOK, TypeInv, StreamTypes, StoreTypes, PgState

\* The same parts after a step.
LEMMA HandlerInvPartsPrime ==
    HandlerInv' <=> TypeInv' /\ StreamTypes' /\ StoreTypes' /\ Places'
BY DEF HandlerInv, ShardTypeOK, TypeInv, StreamTypes, StoreTypes, PgState

\* The steps that are steps of the pool for ConnectionManager, too.
PoolStep(t) ==
    \/ \E p \in ClientCreds : ConnectRpc(t, p)
    \/ \E c \in Unused : ConnectWarmed(t, c)
    \/ \E k \in SqlKinds : QueryStream(t, k, NoSession)
    \/ AcquireSpurious(t)
    \/ AcquirePending(t)
    \/ AcquireIdle(t)
    \/ \E c \in Unused : AcquireCreated(t, c)
    \/ AcquireFailed(t)
    \/ SessionFound(t)
    \/ ReleasePooled(t)

\* A connection nobody refers to is one the pool may open.
LEMMA UnusedIsClosed == Unused \subseteq Closed
BY DEF Unused, Closed, InUse

\* What the pool sees of those steps is what the pool's specification allows.
LEMMA PoolStepIsNext ==
    ASSUME NEW t \in Threads, PoolStep(t), StreamTypes
    PROVE  [Next]_poolVars
<1>1. CASE \E p \in ClientCreds : ConnectRpc(t, p)
      BY <1>1 DEF ConnectRpc, Next, ConnectStep
<1>2. CASE \E c \in Unused : ConnectWarmed(t, c)
      BY <1>2, UnusedIsClosed DEF ConnectWarmed, Next, ConnectStep
<1>3. CASE \E k \in SqlKinds : QueryStream(t, k, NoSession)
      BY <1>3 DEF QueryStream, Next
<1>4. CASE AcquireSpurious(t)
      BY <1>4 DEF AcquireSpurious, Next
<1>5. CASE AcquirePending(t)
      BY <1>5 DEF AcquirePending, Next, AcquireStep
<1>6. CASE AcquireIdle(t)
      BY <1>6 DEF AcquireIdle, Next, AcquireStep
<1>7. CASE \E c \in Unused : AcquireCreated(t, c)
      BY <1>7, UnusedIsClosed DEF AcquireCreated, Next, AcquireStep
<1>8. CASE AcquireFailed(t)
      BY <1>8 DEF AcquireFailed, Next, AcquireStep
<1>9. CASE SessionFound(t)
      BY <1>9 DEF SessionFound
<1>10. CASE ReleasePooled(t)
  <2>1. (~commit[t]) \in BOOLEAN
        BY DEF StreamTypes
  <2>2. Release(t, ~commit[t])
        BY <1>10 DEF ReleasePooled
  <2>3. \E broken \in BOOLEAN : Release(t, broken)
        BY <2>1, <2>2
  <2> QED
      BY <2>3 DEF Next
<1> QED
    BY <1>1, <1>2, <1>3, <1>4, <1>5, <1>6, <1>7, <1>8, <1>9, <1>10 DEF PoolStep

\* A step that opens or closes connections and at most takes thread t out of
\* the pool's code keeps the types of the pool and the order of its calls.
LEMMA PoolFrame ==
    ASSUME TypeInv, NEW t \in Threads,
           UNCHANGED <<connectVars, idle_, in_use_, seen>>,
           acquires' \in Nat,
           opened' \in [Conn -> Creds \cup {NoCreds}],
           healthy' \in SUBSET Conn,
           \/ UNCHANGED <<pc, conn>>
           \/ /\ pc' = [pc EXCEPT ![t] = "out"]
              /\ conn' = [conn EXCEPT ![t] = NoConn]
    PROVE  TypeInv'
<1>1. pc' \in [Threads -> PoolPC] /\ conn' \in [Threads -> Conn \cup {NoConn}]
      BY DEF TypeInv, TypeOK, PoolPC
<1>2. TypeOK'
      BY <1>1 DEF TypeInv, TypeOK, connectVars
<1>3. CallOrder'
  <2>1. \A u \in Threads : pc'[u] = pc[u] \/ pc'[u] = "out"
        BY DEF TypeInv, TypeOK
  <2> QED
      BY <2>1 DEF TypeInv, CallOrder, connectVars
<1> QED
    BY <1>2, <1>3 DEF TypeInv

\* What opening and erasing sessions does to the types.
LEMMA StoreConnectionsTypes ==
    ASSUME TypeInv, StreamTypes, StoreTypes, NEW t \in Threads, NEW s \in Sessions,
           NEW c \in Conn \cup {NoConn}, StoreConnections(t, s, c)
    PROVE  /\ TypeInv'
           /\ pg' \in [Conn -> PgState]
           /\ dead' \in SUBSET Conn /\ shared' \in SUBSET Conn
<1> DEFINE old == IF Erased(s) # sessions_ /\ ~HeldByOther(t, sessions_[s])
                  THEN {sessions_[s]} ELSE {}
<1>1. /\ opened' = [d \in Conn |-> IF d = c THEN session_defaults_[t]
                                   ELSE IF d \in old THEN NoCreds ELSE opened[d]]
      /\ healthy' = (healthy \ old) \cup ({c} \cap Conn)
      /\ pg' = [d \in Conn |-> IF d = c \/ d \in old THEN Fresh ELSE pg[d]]
      /\ dead' = dead \ old
      /\ shared' = shared \ old
      /\ UNCHANGED <<connectVars, idle_, in_use_, pc, conn, seen, acquires>>
      BY DEF StoreConnections
<1> HIDE DEF old
<1>2. Fresh \in PgState
      BY DEF Fresh, PgState
<1>3. pg' \in [Conn -> PgState]
      BY <1>1, <1>2 DEF StoreTypes
<1>4. opened' \in [Conn -> Creds \cup {NoCreds}] /\ healthy' \in SUBSET Conn
      BY <1>1 DEF StreamTypes, TypeInv, TypeOK
<1>5. acquires' \in Nat
      BY <1>1 DEF TypeInv, TypeOK
<1>6. TypeInv'
      BY <1>1, <1>4, <1>5, PoolFrame
<1> QED
    BY <1>1, <1>3, <1>6 DEF StoreTypes

\* A handler that returns, or goes to another label, keeps the types.
LEMMA ReturnTypes ==
    ASSUME StreamTypes, NEW t \in Threads, Return(t)
    PROVE  StreamTypes'
<1>1. /\ rpc' \in [Threads -> {"idle", "open"} \cup Streaming]
      /\ sql' \in [Threads -> SqlKinds]
      /\ session_id' \in [Threads -> Sessions \cup {NoSession}]
      /\ session_defaults_' \in [Threads -> Creds \cup {NoCreds}]
      /\ sconn' \in [Threads -> Conn \cup {NoConn}]
      BY DEF StreamTypes, Return, SqlKinds
<1>2. /\ started_local_txn_' \in [Threads -> BOOLEAN]
      /\ cursor_open_' \in [Threads -> BOOLEAN]
      /\ commit' \in [Threads -> BOOLEAN]
      BY DEF StreamTypes, Return
<1> QED
    BY <1>1, <1>2 DEF StreamTypes

\* A step that only moves a thread to another label keeps the types.
LEMMA GotoTypes ==
    ASSUME StreamTypes, NEW t \in Threads, NEW l \in {"idle", "open"} \cup Streaming,
           Goto(t, l)
    PROVE  StreamTypes'
BY DEF StreamTypes, Goto

\* notify_one on the way out moves nobody else except from asleep to woken.
LEMMA NotifiedPlaces ==
    ASSUME pc \in [Threads -> PoolPC], NEW t \in Threads,
           pc' \in NotifyOne([pc EXCEPT ![t] = "out"])
    PROVE  /\ pc'[t] = "out"
           /\ \A u \in Threads \ {t} : \/ pc'[u] = pc[u]
                                       \/ pc[u] = "waiting" /\ pc'[u] = "woken"
<1> DEFINE f == [pc EXCEPT ![t] = "out"]
<1>1. f \in [Threads -> PoolPC] /\ pc' \in NotifyOne(f)
      BY DEF PoolPC
<1>2. \/ pc' = f
      \/ \E u \in Threads : f[u] = "waiting" /\ pc' = [f EXCEPT ![u] = "woken"]
  <2> HIDE DEF f
  <2> QED
      BY <1>1, NotifyOneEffect
<1>3. CASE pc' = f
      BY <1>3
<1>4. ASSUME NEW u \in Threads, f[u] = "waiting", pc' = [f EXCEPT ![u] = "woken"]
      PROVE  /\ pc'[t] = "out"
             /\ \A v \in Threads \ {t} : \/ pc'[v] = pc[v]
                                         \/ pc[v] = "waiting" /\ pc'[v] = "woken"
  <2>1. u # t /\ pc[u] = "waiting"
        BY <1>4
  <2> QED
      BY <1>4, <2>1
<1> QED
    BY <1>2, <1>3, <1>4

\* The steps of the pool keep types and places.
LEMMA PoolStepHandler ==
    ASSUME HandlerInv, NEW t \in Threads, PoolStep(t)
    PROVE  HandlerInv'
<1>0. TypeInv /\ StreamTypes /\ StoreTypes /\ Places
      BY HandlerInvParts
<1>1. TypeInv'
      BY <1>0, PoolStepIsNext, TypeInvNext
<1>2. /\ pc \in [Threads -> PoolPC] /\ conn \in [Threads -> Conn \cup {NoConn}]
      /\ connect_params_ \in Creds \cup {NoCreds}
      BY <1>0 DEF TypeInv, TypeOK
<1>3. CASE \E p \in ClientCreds : ConnectRpc(t, p)
  <2>1. StreamTypes' /\ StoreTypes'
        BY <1>0, <1>3 DEF ConnectRpc, StreamTypes, StoreTypes, streamVars, histVars
  <2>2. Places'
        BY SMT, <1>0, <1>2, <1>3
        DEF ConnectRpc, Configure, WarmFail, StoreParams, Places, Pooled, streamVars,
            Streaming
  <2> QED
      BY <1>1, <2>1, <2>2, HandlerInvPartsPrime
<1>4. CASE \E c \in Unused : ConnectWarmed(t, c)
  <2>1. StreamTypes' /\ StoreTypes'
    <3>1. Fresh \in PgState
          BY DEF Fresh, PgState
    <3> QED
        BY <1>0, <1>4, <3>1
        DEF ConnectWarmed, NewBackend, StreamTypes, StoreTypes, streamVars, histVars
  <2>2. Places'
        BY ZenonT(30), <1>0, <1>2, <1>4
        DEF ConnectWarmed, WarmOk, Places, Pooled, streamVars, StreamTypes
  <2> QED
      BY <1>1, <2>1, <2>2, HandlerInvPartsPrime
<1>5. ASSUME NEW k \in SqlKinds, QueryStream(t, k, NoSession)
      PROVE  HandlerInv'
  <2>1. StreamTypes' /\ StoreTypes'
        BY <1>0, <1>2, <1>5 DEF QueryStream, StreamTypes, StoreTypes, histVars
  <2>2. Places'
    <3>1. /\ pc' = [pc EXCEPT ![t] = "acquire"] /\ conn' = conn /\ sconn' = sconn
          /\ rpc' = [rpc EXCEPT ![t] = "open"]
          /\ session_id' = [session_id EXCEPT ![t] = NoSession]
          /\ session_defaults_' = [session_defaults_ EXCEPT ![t] = connect_params_]
          /\ connect_params_ # NoCreds /\ pc[t] = "out" /\ rpc[t] = "idle"
          BY <1>5 DEF QueryStream, BeginAcquire
    <3> QED
        BY <1>0, <1>2, <3>1 DEF Places, Pooled, StreamTypes, Streaming
  <2> QED
      BY <1>1, <2>1, <2>2, HandlerInvPartsPrime
<1>6. CASE AcquireSpurious(t) \/ AcquirePending(t)
  <2>1. StreamTypes' /\ StoreTypes'
        BY <1>0, <1>6
        DEF AcquireSpurious, AcquirePending, StreamTypes, StoreTypes, streamVars, histVars
  <2>2. Places'
    <3>1. /\ rpc[t] = "open" /\ pc[t] \in {"acquire", "waiting", "woken"}
          /\ \E l \in {"waiting", "woken", "creating"} : pc' = [pc EXCEPT ![t] = l]
          /\ conn' = conn /\ UNCHANGED streamVars
          BY <1>6 DEF AcquireSpurious, AcquirePending, SpuriousWakeup, Sleep, Reserve
    <3> QED
        BY SMT, <1>0, <1>2, <3>1 DEF Places, Pooled, streamVars, StreamTypes, Streaming
  <2> QED
      BY <1>1, <2>1, <2>2, HandlerInvPartsPrime
<1>7. CASE AcquireIdle(t) \/ \E c \in Unused : AcquireCreated(t, c)
  <2>1. AfterAcquire(t) \in {"begin", "exec"}
        BY DEF AfterAcquire
  <2>2. Goto(t, AfterAcquire(t)) /\ rpc[t] = "open" /\ Pooled(t)
        BY <1>7 DEF AcquireIdle, AcquireCreated
  <2>3. StreamTypes'
        BY <1>0, <2>1, <2>2, GotoTypes DEF Streaming
  <2>4. StoreTypes'
    <3>1. Fresh \in PgState
          BY DEF Fresh, PgState
    <3> QED
        BY <1>0, <1>7, <3>1
        DEF AcquireIdle, AcquireCreated, NewBackend, StoreTypes, histVars
  <2>5. PICK c \in Conn : pc' = [pc EXCEPT ![t] = "holding"] /\ conn' = [conn EXCEPT ![t] = c]
    <3>1. CASE AcquireIdle(t)
      <4>1. Head(idle_) \in Conn
            BY SMT, <1>0, <3>1 DEF AcquireIdle, TakeIdle, TypeInv, TypeOK
      <4> QED
          BY <3>1, <4>1 DEF AcquireIdle, TakeIdle
    <3>2. CASE \E c \in Unused : AcquireCreated(t, c)
          BY <3>2 DEF AcquireCreated, CreateOk, Unused
    <3> QED
        BY <1>7, <3>1, <3>2
  <2>6. Places'
        BY <1>0, <1>2, <2>1, <2>2, <2>5, ConstantsAssumption
        DEF Places, Pooled, Goto, StreamTypes, Streaming
  <2> QED
      BY <1>1, <2>3, <2>4, <2>6, HandlerInvPartsPrime
<1>8. CASE AcquireFailed(t) \/ ReleasePooled(t)
  <2>1. /\ Return(t) /\ Pooled(t) /\ rpc[t] # "idle"
        /\ pc' \in NotifyOne([pc EXCEPT ![t] = "out"])
        /\ UNCHANGED <<sessions_, losses, histVars>>
        BY <1>8 DEF AcquireFailed, ReleasePooled, CreateFail, Release
  <2>2. conn' = [conn EXCEPT ![t] = NoConn]
    <3>1. CASE AcquireFailed(t)
      <4>1. conn[t] = NoConn /\ conn' = conn
            BY <1>0, <3>1 DEF AcquireFailed, CreateFail, Places
      <4> QED
          BY <1>2, <4>1
    <3>2. CASE ReleasePooled(t)
          BY <3>2 DEF ReleasePooled, Release
    <3> QED
        BY <1>8, <3>1, <3>2
  <2>3. pg' \in [Conn -> PgState] /\ dead' \in SUBSET Conn
    <3>1. Fresh \in PgState
          BY DEF Fresh, PgState
    <3> QED
        BY <1>0, <1>8, <3>1 DEF AcquireFailed, ReleasePooled, EndBackend, StoreTypes
  <2>4. StreamTypes' /\ StoreTypes'
        BY <1>0, <2>1, <2>3, ReturnTypes DEF StoreTypes, histVars
  <2>5. /\ pc'[t] = "out"
        /\ \A u \in Threads \ {t} : \/ pc'[u] = pc[u]
                                    \/ pc[u] = "waiting" /\ pc'[u] = "woken"
        BY <1>2, <2>1, NotifiedPlaces
  <2>6. Places'
        BY SMTT(30), <1>0, <1>2, <2>1, <2>2, <2>5 DEF Places, Pooled, Return, StreamTypes, Streaming
  <2> QED
      BY <1>1, <2>4, <2>6, HandlerInvPartsPrime
<1>9. CASE SessionFound(t)
  <2>1. /\ rpc[t] = "open" /\ ~Pooled(t) /\ sessions_[session_id[t]] \in Conn
        BY <1>0, <1>9 DEF SessionFound, TypeInv, TypeOK
  <2>2. AfterAcquire(t) \in {"begin", "exec"}
        BY DEF AfterAcquire
  <2>3. StreamTypes' /\ StoreTypes'
        BY <1>0, <1>9, <2>1, <2>2
        DEF SessionFound, StreamTypes, StoreTypes, Streaming
  <2>4. UNCHANGED <<pc, conn>>
        BY <1>9 DEF SessionFound, poolVars
  <2>5. Places'
        BY ZenonT(30), <1>0, <1>2, <1>9, <2>1, <2>2, <2>4, ConstantsAssumption
        DEF SessionFound, Places, Pooled, StreamTypes, Streaming
  <2> QED
      BY <1>1, <2>3, <2>5, HandlerInvPartsPrime
<1> QED
    BY <1>3, <1>4, <1>5, <1>6, <1>7, <1>8, <1>9 DEF PoolStep

\* So do the steps on a connection.
LEMMA StreamStepHandler ==
    ASSUME HandlerInv, NEW t \in Threads, StreamStep(t)
    PROVE  HandlerInv'
<1>0. TypeInv /\ StreamTypes /\ StoreTypes /\ Places
      BY HandlerInvParts
<1> DEFINE c == connection_(t)
<1>1. OnConnection(t, c)
      BY StreamStepEffect
<1> HIDE DEF c
<1>2. TypeInv'
  <2>1. UNCHANGED <<connectVars, idle_, in_use_, seen, pc, conn, opened, acquires>>
        BY <1>1 DEF OnConnection, StreamFrame, poolSlots
  <2>2. /\ healthy' \in SUBSET Conn /\ acquires' \in Nat
        /\ opened' \in [Conn -> Creds \cup {NoCreds}]
        BY <1>0, <1>1, <2>1 DEF OnConnection, TypeInv, TypeOK
  <2> QED
      BY <1>0, <2>1, <2>2, PoolFrame
<1>3. StreamTypes'
  <2>1. /\ rpc' \in [Threads -> {"idle", "open"} \cup Streaming]
        /\ UNCHANGED <<sql, session_id, session_defaults_, sconn>>
        BY SMT, <1>0, <1>1 DEF OnConnection, StreamTypes
  <2>2. /\ started_local_txn_' \in [Threads -> BOOLEAN]
        /\ cursor_open_' \in [Threads -> BOOLEAN]
        /\ commit' \in [Threads -> BOOLEAN]
        BY <1>0, <1>1 DEF OnConnection, StreamTypes
  <2> QED
      BY <1>0, <2>1, <2>2 DEF StreamTypes
<1>4. StoreTypes'
      BY ZenonT(30), <1>0, <1>1 DEF OnConnection, StreamFrame, StoreTypes, histVars
<1>5. Places'
  <2>1. /\ UNCHANGED <<pc, conn, sconn, session_id, session_defaults_>>
        /\ rpc[t] \in Streaming
        /\ \E l \in Streaming : rpc' = [rpc EXCEPT ![t] = l]
        BY <1>1 DEF OnConnection, StreamFrame, poolSlots
  <2>2. PICK l \in Streaming : rpc' = [rpc EXCEPT ![t] = l]
        BY <2>1
  <2>3. \A u \in Threads : \/ rpc'[u] = rpc[u]
                           \/ rpc[u] \in Streaming /\ rpc'[u] \in Streaming
        BY <1>0, <2>1, <2>2 DEF StreamTypes
  <2>4. \A l2 \in Streaming : l2 # "idle" /\ l2 # "open"
        BY DEF Streaming
  <2> QED
      BY <1>0, <2>1, <2>3, <2>4 DEF Places, Pooled
<1> QED
    BY <1>2, <1>3, <1>4, <1>5, HandlerInvPartsPrime

\* The steps of the session store, of a stream that lets go of its connection
\* outside the pool, and of PostgreSQL.
StoreStep(t) ==
    \/ \E k \in SqlKinds, s \in Sessions : QueryStream(t, k, s)
    \/ \E c \in Unused : SessionCreated(t, c)
    \/ SessionRefused(t)
    \/ ReleasePinned(t)
    \/ DropPooled(t)

\* The session store and ReleaseConnection keep the invariant of the handlers.
LEMMA StoreStepHandler ==
    ASSUME HandlerInv, NEW t \in Threads, StoreStep(t)
    PROVE  HandlerInv'
<1>0. TypeInv /\ StreamTypes /\ StoreTypes /\ Places
      BY HandlerInvParts
<1>2. /\ pc \in [Threads -> PoolPC] /\ conn \in [Threads -> Conn \cup {NoConn}]
      /\ opened \in [Conn -> Creds \cup {NoCreds}] /\ healthy \in SUBSET Conn
      /\ acquires \in Nat
      /\ connect_params_ \in Creds \cup {NoCreds}
      BY <1>0 DEF TypeInv, TypeOK
<1>f. Fresh \in PgState
      BY DEF Fresh, PgState
<1>3. ASSUME NEW k \in SqlKinds, NEW s \in Sessions, QueryStream(t, k, s)
      PROVE  HandlerInv'
  <2>1. s # NoSession
        BY ShardAssumption
  <2>2. UNCHANGED <<connectVars, idle_, in_use_, pc, conn, seen, opened, healthy>>
        BY <1>3, <2>1 DEF QueryStream
  <2>3. acquires' \in Nat
        BY SMT, <1>2, <1>3, <2>1 DEF QueryStream
  <2>4. TypeInv'
        BY <1>0, <1>2, <2>2, <2>3, PoolFrame
  <2>5. StreamTypes' /\ StoreTypes'
        BY <1>0, <1>2, <1>3 DEF QueryStream, StreamTypes, StoreTypes, histVars
  <2>6. Places'
    <3>1. /\ pc' = pc /\ conn' = conn /\ sconn' = sconn
          /\ rpc' = [rpc EXCEPT ![t] = "open"]
          /\ session_id' = [session_id EXCEPT ![t] = s]
          /\ session_defaults_' = [session_defaults_ EXCEPT ![t] = connect_params_]
          /\ connect_params_ # NoCreds /\ pc[t] = "out" /\ rpc[t] = "idle"
          BY <1>3, <2>2 DEF QueryStream
    <3> QED
        BY SMT, <1>0, <1>2, <2>1, <3>1 DEF Places, Pooled, StreamTypes, Streaming
  <2> QED
      BY <2>4, <2>5, <2>6, HandlerInvPartsPrime
<1>4. ASSUME NEW c \in Unused, SessionCreated(t, c)
      PROVE  HandlerInv'
  <2>1. /\ c \in Conn /\ session_id[t] \in Sessions
        /\ rpc[t] = "open" /\ ~Pooled(t)
        BY <1>0, <1>4 DEF Unused, SessionCreated, Pooled, StreamTypes
  <2>2. StoreConnections(t, session_id[t], c)
        BY <1>4 DEF SessionCreated
  <2>3. /\ TypeInv' /\ pg' \in [Conn -> PgState]
        /\ dead' \in SUBSET Conn /\ shared' \in SUBSET Conn
        BY <1>0, <2>1, <2>2, StoreConnectionsTypes
  <2>4. UNCHANGED <<pc, conn, losses, leaked>>
        BY <2>2 DEF StoreConnections
  <2>5. AfterAcquire(t) \in {"begin", "exec"}
        BY DEF AfterAcquire
  <2>6. /\ sessions_' = [sessions_ EXCEPT ![session_id[t]] = c]
        /\ rpc' = [rpc EXCEPT ![t] = AfterAcquire(t)]
        /\ sconn' = [sconn EXCEPT ![t] = c]
        /\ UNCHANGED <<sql, session_id, session_defaults_, started_local_txn_,
                       cursor_open_, commit>>
        BY <1>4 DEF SessionCreated
  <2>7. StreamTypes' /\ StoreTypes'
        BY <1>0, <2>1, <2>3, <2>4, <2>5, <2>6 DEF StreamTypes, StoreTypes, Streaming
  <2>8. Places'
        BY SMTT(30), <1>0, <1>2, <2>1, <2>4, <2>5, <2>6, ConstantsAssumption
        DEF Places, Pooled, StreamTypes, Streaming
  <2> QED
      BY <2>3, <2>7, <2>8, HandlerInvPartsPrime
<1>5. CASE SessionRefused(t)
  <2>1. session_id[t] \in Sessions /\ rpc[t] = "open" /\ ~Pooled(t)
        BY <1>0, <1>5 DEF SessionRefused, Pooled, StreamTypes
  <2>2. StoreConnections(t, session_id[t], NoConn) /\ Return(t)
        BY <1>5 DEF SessionRefused
  <2>3. /\ TypeInv' /\ pg' \in [Conn -> PgState]
        /\ dead' \in SUBSET Conn /\ shared' \in SUBSET Conn
        BY <1>0, <2>1, <2>2, StoreConnectionsTypes
  <2>4. UNCHANGED <<pc, conn, losses, leaked>>
        BY <2>2 DEF StoreConnections
  <2>5. sessions_' \in [Sessions -> Conn \cup {NoConn}]
        BY <1>0, <1>5 DEF SessionRefused, Erased, StoreTypes
  <2>6. StreamTypes' /\ StoreTypes'
        BY <1>0, <2>2, <2>3, <2>4, <2>5, ReturnTypes DEF StoreTypes
  <2>7. Places'
        BY SMTT(30), <1>0, <1>2, <2>1, <2>2, <2>4 DEF Places, Pooled, Return, StreamTypes, Streaming
  <2> QED
      BY <2>3, <2>6, <2>7, HandlerInvPartsPrime
<1>6. CASE ReleasePinned(t)
  <2>1. /\ rpc[t] \in {"releasing", "drop"} /\ ~Pooled(t) /\ Return(t)
        /\ UNCHANGED <<connectVars, idle_, in_use_, pc, conn, seen, acquires,
                       sessions_, losses, leaked>>
        BY <1>6 DEF ReleasePinned
  <2>2. /\ opened' \in [Conn -> Creds \cup {NoCreds}] /\ healthy' \in SUBSET Conn
        /\ pg' \in [Conn -> PgState]
        /\ dead' \in SUBSET Conn /\ shared' \in SUBSET Conn
        BY <1>0, <1>2, <1>6, <1>f DEF ReleasePinned, Destroy, EndBackend, StoreTypes
  <2>3. TypeInv'
        BY <1>0, <1>2, <2>1, <2>2, PoolFrame
  <2>4. StreamTypes' /\ StoreTypes'
        BY <1>0, <2>1, <2>2, ReturnTypes DEF StoreTypes
  <2>5. Places'
        BY SMTT(30), <1>0, <1>2, <2>1 DEF Places, Pooled, Return, StreamTypes, Streaming
  <2> QED
      BY <2>3, <2>4, <2>5, HandlerInvPartsPrime
<1>7. CASE DropPooled(t)
  <2>1. /\ rpc[t] = "drop" /\ Pooled(t) /\ Return(t)
        /\ UNCHANGED <<connectVars, idle_, in_use_, seen, acquires, sessions_, losses,
                       shared>>
        /\ conn' = [conn EXCEPT ![t] = NoConn]
        /\ pc' = [pc EXCEPT ![t] = "out"]
        /\ leaked' = leaked + 1
        BY <1>7 DEF DropPooled
  <2>2. /\ opened' \in [Conn -> Creds \cup {NoCreds}] /\ healthy' \in SUBSET Conn
        /\ pg' \in [Conn -> PgState] /\ dead' \in SUBSET Conn
        BY <1>0, <1>2, <1>7, <1>f DEF DropPooled, Destroy, EndBackend, StoreTypes
  <2>3. TypeInv'
        BY <1>0, <1>2, <2>1, <2>2, PoolFrame
  <2>4. StreamTypes' /\ StoreTypes'
        BY SMTT(30), <1>0, <2>1, <2>2, ReturnTypes DEF StoreTypes
  <2>5. Places'
        BY SMT, <1>0, <1>2, <2>1 DEF Places, Pooled, Return, StreamTypes, Streaming
  <2> QED
      BY <2>3, <2>4, <2>5, HandlerInvPartsPrime
<1> QED
    BY <1>3, <1>4, <1>5, <1>6, <1>7 DEF StoreStep

\* A step of the system is one of these, or the loss of a backend.
LEMMA StepKinds ==
    ASSUME [ShardNext]_vars
    PROVE  \/ \E t \in Threads : PoolStep(t) \/ StreamStep(t) \/ StoreStep(t)
           \/ \E c \in Conn : BackendLost(c)
           \/ UNCHANGED vars
<1>1. ASSUME NEW t \in Threads, NEW k \in SqlKinds, NEW s \in Sessions \cup {NoSession},
             QueryStream(t, k, s)
      PROVE  PoolStep(t) \/ StoreStep(t)
      BY <1>1 DEF PoolStep, StoreStep
<1> QED
    BY <1>1 DEF ShardNext, HandlerStep, PoolStep, StreamStep, StoreStep

\* Every step keeps the invariant of the handlers.
LEMMA HandlerInvNext == HandlerInv /\ [ShardNext]_vars => HandlerInv'
<1> SUFFICES ASSUME HandlerInv, [ShardNext]_vars PROVE HandlerInv'
    OBVIOUS
<1>0. TypeInv /\ StreamTypes /\ StoreTypes /\ Places
      BY HandlerInvParts
<1>1. CASE (\E c \in Conn : BackendLost(c)) \/ UNCHANGED vars
  <2>1. UNCHANGED <<poolVars, streamVars, sessions_, pg, histVars>>
        BY <1>1 DEF BackendLost, vars
  <2>2. dead' \in SUBSET Conn /\ losses' \in Nat
        BY SMT, <1>0, <1>1 DEF BackendLost, vars, StoreTypes
  <2>3. TypeInv'
        BY <1>0, <2>1, TypeInvNext
  <2>4. StreamTypes' /\ StoreTypes'
        BY <1>0, <2>1, <2>2 DEF StreamTypes, StoreTypes, streamVars, histVars
  <2>5. Places'
        BY <1>0, <2>1 DEF Places, Pooled, poolVars, streamVars
  <2> QED
      BY <2>3, <2>4, <2>5, HandlerInvPartsPrime
<1> QED
    BY <1>1, StepKinds, PoolStepHandler, StreamStepHandler, StoreStepHandler

\* The service starts with every handler idle.
LEMMA HandlerInvInit == ShardInit => HandlerInv
<1> SUFFICES ASSUME ShardInit PROVE HandlerInv
    OBVIOUS
<1>1. TypeInv
      BY TypeInvInit DEF ShardInit
<1>2. StreamTypes
  <2>1. /\ started_local_txn_ \in [Threads -> BOOLEAN]
        /\ cursor_open_ \in [Threads -> BOOLEAN]
        /\ commit \in [Threads -> BOOLEAN]
        BY DEF ShardInit
  <2> QED
      BY <2>1 DEF ShardInit, StreamTypes, SqlKinds
<1>3. StoreTypes
  <2>1. Fresh \in PgState
        BY DEF Fresh, PgState
  <2> QED
      BY <2>1 DEF ShardInit, StoreTypes
<1>4. Places
      BY DEF ShardInit, PoolInit, Places, Pooled, Streaming
<1> QED
    BY <1>1, <1>2, <1>3, <1>4, HandlerInvParts

\* At each place of its code a handler holds the connection, the pool slot and
\* the request that Open, the QueryStream loop and ReleaseConnection expect.
THEOREM HandlersPlaced == ShardSpec => []HandlerInv
BY HandlerInvInit, HandlerInvNext, PTL DEF ShardSpec

\* Every variable of the handlers, of the session store and of PostgreSQL
\* keeps its type.
THEOREM ShardWellTyped == ShardSpec => []ShardTypeOK
BY HandlersPlaced, PTL DEF HandlerInv

-----------------------------------------------------------------------------
(***************************************************************************)
(* Slots of the pool and of the session store.                             *)
(***************************************************************************)

\* Every step keeps in_use_ equal to the slots owned and the slots leaked.
LEMMA SlotsNext ==
    HandlerInv /\ SlotsOwnedOrLeaked /\ [ShardNext]_vars => SlotsOwnedOrLeaked'
<1> SUFFICES ASSUME HandlerInv, SlotsOwnedOrLeaked, [ShardNext]_vars
             PROVE  SlotsOwnedOrLeaked'
    OBVIOUS
<1> USE DEF SlotsOwnedOrLeaked
<1>0. /\ pc \in [Threads -> PoolPC] /\ in_use_ \in Int /\ leaked \in Nat
      /\ Places
      BY DEF HandlerInv, ShardTypeOK, TypeOK
<1>1. ASSUME Holders' = Holders, in_use_' = in_use_, leaked' = leaked
      PROVE  SlotsOwnedOrLeaked'
      BY <1>1
<1>2. ASSUME NEW t \in Threads, TakeIdle(t) \/ Reserve(t), leaked' = leaked
      PROVE  SlotsOwnedOrLeaked'
  <2>1. Holders' = Holders \cup {t} /\ t \notin Holders
        BY <1>0, <1>2 DEF TakeIdle, Reserve, Holders, Occupied
  <2>2. in_use_' = in_use_ + 1
        BY <1>2 DEF TakeIdle, Reserve
  <2>3. Cardinality(Holders') = Cardinality(Holders) + 1
        BY <2>1, ThreadSetsFinite, FS_AddElement
  <2> QED
      BY SMT, <1>0, <1>2, <2>2, <2>3, ThreadSetsFinite
<1>3. ASSUME NEW t \in Threads, pc[t] \in Occupied, in_use_' = in_use_ - 1,
             pc' \in NotifyOne([pc EXCEPT ![t] = "out"]), leaked' = leaked
      PROVE  SlotsOwnedOrLeaked'
  <2>1. Holders' = Holders \ {t} /\ t \in Holders
        BY <1>0, <1>3, NotifyOutSets DEF Holders
  <2>2. Cardinality(Holders') = Cardinality(Holders) - 1
        BY <2>1, ThreadSetsFinite, FS_RemoveElement
  <2> QED
      BY SMT, <1>0, <1>3, <2>2, ThreadSetsFinite
<1>4. ASSUME NEW t \in Threads, DropPooled(t)
      PROVE  SlotsOwnedOrLeaked'
  <2>1. pc[t] = "holding"
        BY <1>0, <1>4 DEF DropPooled, Places, Streaming
  <2>2. /\ pc' = [pc EXCEPT ![t] = "out"] /\ in_use_' = in_use_
        /\ leaked' = leaked + 1
        BY <1>4 DEF DropPooled
  <2>3. Holders' = Holders \ {t} /\ t \in Holders
        BY <1>0, <2>1, <2>2 DEF Holders, Occupied
  <2>4. Cardinality(Holders') = Cardinality(Holders) - 1
        BY <2>3, ThreadSetsFinite, FS_RemoveElement
  <2> QED
      BY SMT, <1>0, <2>2, <2>4, ThreadSetsFinite
<1>5. ASSUME NEW t \in Threads, PoolStep(t)
      PROVE  SlotsOwnedOrLeaked'
  <2>0. leaked' = leaked
        BY <1>5
        DEF PoolStep, ConnectRpc, ConnectWarmed, QueryStream, AcquireSpurious,
            AcquirePending, AcquireIdle, AcquireCreated, AcquireFailed, SessionFound,
            ReleasePooled, histVars
  <2>1. ASSUME NEW p \in ClientCreds, ConnectRpc(t, p)
        PROVE  SlotsOwnedOrLeaked'
        BY <1>0, <1>1, <2>0, <2>1
        DEF ConnectRpc, Configure, WarmFail, StoreParams, Holders, Occupied
  <2>2. ASSUME NEW c \in Unused, ConnectWarmed(t, c)
        PROVE  SlotsOwnedOrLeaked'
        BY <1>0, <1>1, <2>0, <2>2 DEF ConnectWarmed, WarmOk, Holders, Occupied
  <2>3. ASSUME NEW k \in SqlKinds, QueryStream(t, k, NoSession)
        PROVE  SlotsOwnedOrLeaked'
        BY <1>0, <1>1, <2>0, <2>3 DEF QueryStream, BeginAcquire, Holders, Occupied
  <2>4. CASE AcquireSpurious(t)
        BY <1>0, <1>1, <2>0, <2>4 DEF AcquireSpurious, SpuriousWakeup, Holders, Occupied
  <2>5. CASE AcquirePending(t)
    <3>1. CASE Sleep(t)
          BY <1>0, <1>1, <2>0, <3>1 DEF Sleep, Holders, Occupied
    <3> QED
        BY <1>2, <2>0, <2>5, <3>1 DEF AcquirePending
  <2>6. CASE AcquireIdle(t)
        BY <1>2, <2>0, <2>6 DEF AcquireIdle
  <2>7. ASSUME NEW c \in Unused, AcquireCreated(t, c)
        PROVE  SlotsOwnedOrLeaked'
        BY <1>0, <1>1, <2>0, <2>7 DEF AcquireCreated, CreateOk, Holders, Occupied
  <2>8. CASE AcquireFailed(t)
        BY <1>3, <2>0, <2>8 DEF AcquireFailed, CreateFail, Occupied
  <2>9. CASE SessionFound(t)
        BY <1>1, <2>0, <2>9 DEF SessionFound, poolVars, Holders
  <2>10. CASE ReleasePooled(t)
         BY <1>3, <2>0, <2>10 DEF ReleasePooled, Release, Occupied
  <2> QED
      BY <1>5, <2>1, <2>2, <2>3, <2>4, <2>5, <2>6, <2>7, <2>8, <2>9, <2>10 DEF PoolStep
<1>6. ASSUME NEW t \in Threads, StreamStep(t)
      PROVE  SlotsOwnedOrLeaked'
  <2>1. OnConnection(t, connection_(t))
        BY <1>6, StreamStepEffect
  <2> QED
      BY <1>1, <2>1 DEF OnConnection, StreamFrame, poolSlots, histVars, Holders
<1>7. ASSUME NEW t \in Threads, StoreStep(t)
      PROVE  SlotsOwnedOrLeaked'
  <2>1. ASSUME NEW k \in SqlKinds, NEW s \in Sessions, QueryStream(t, k, s)
        PROVE  SlotsOwnedOrLeaked'
        BY <1>1, <2>1, ShardAssumption DEF QueryStream, histVars, Holders
  <2>2. CASE (\E c \in Unused : SessionCreated(t, c)) \/ SessionRefused(t)
        BY <1>1, <2>2 DEF SessionCreated, SessionRefused, StoreConnections, Holders
  <2>3. CASE ReleasePinned(t)
        BY <1>1, <2>3 DEF ReleasePinned, Holders
  <2> QED
      BY <1>4, <1>7, <2>1, <2>2, <2>3 DEF StoreStep
<1>8. CASE (\E c \in Conn : BackendLost(c)) \/ UNCHANGED vars
      BY <1>1, <1>8 DEF BackendLost, vars, poolVars, histVars, Holders
<1> QED
    BY <1>5, <1>6, <1>7, <1>8, StepKinds

\* Every slot of the pool is owned by a handler or was lost by a failed
\* OpenCursor, whatever the interleaving and whatever fails.
THEOREM SlotsOwned == ShardSpec => []SlotsOwnedOrLeaked
<1>1. ShardInit => SlotsOwnedOrLeaked
  <2>1. ShardInit => Holders = {}
        BY DEF ShardInit, PoolInit, Holders, Occupied
  <2>2. Cardinality({}) = 0
        BY FS_EmptySet
  <2>3. ShardInit => in_use_ = 0 /\ leaked = 0
        BY DEF ShardInit, PoolInit
  <2> QED
      BY SMT, <2>1, <2>2, <2>3 DEF SlotsOwnedOrLeaked
<1> QED
    BY <1>1, HandlersPlaced, SlotsNext, PTL DEF ShardSpec

\* The entries of a store of sessions.
Entries(f) == {s \in Sessions : f[s] # NoConn}

\* The entries of the session store can be counted.
LEMMA EntriesFinite ==
    ASSUME NEW f
    PROVE  IsFiniteSet(Entries(f)) /\ Cardinality(Entries(f)) \in Nat
<1>1. Entries(f) \subseteq Sessions
      BY DEF Entries
<1> QED
    BY <1>1, ShardAssumption, FS_Subset, FS_CardinalityType

\* GetOrCreate is the only step that adds an entry, and it looks at the limit.
LEMMA SessionsNext ==
    HandlerInv /\ SessionsBounded /\ [ShardNext]_vars => SessionsBounded'
<1> SUFFICES ASSUME HandlerInv, SessionsBounded, [ShardNext]_vars
             PROVE  SessionsBounded'
    OBVIOUS
<1>0. /\ sessions_ \in [Sessions -> Conn \cup {NoConn}]
      /\ session_id \in [Threads -> Sessions \cup {NoSession}]
      BY DEF HandlerInv, ShardTypeOK
<1>m. max_sessions_ \in Nat
      BY SMT, ShardAssumption DEF max_sessions_
<1>1. CASE sessions_' = sessions_
      BY <1>1 DEF SessionsBounded, Size
<1>2. ASSUME NEW t \in Threads, NEW c \in Unused, SessionCreated(t, c)
      PROVE  SessionsBounded'
  <2> DEFINE s == session_id[t]
  <2>1. s \in Sessions /\ sessions_' = [sessions_ EXCEPT ![s] = c]
        BY <1>0, <1>2 DEF SessionCreated, Pooled
  <2>2. Cardinality(Entries(Erased(s))) < max_sessions_
        BY <1>2 DEF SessionCreated, Size, Entries
  <2>3. c # NoConn
        BY ConstantsAssumption DEF Unused
  <2>4. sessions_[s] # NoConn => Erased(s) = [sessions_ EXCEPT ![s] = NoConn]
        BY <1>2 DEF SessionCreated, Erased
  <2>5. sessions_[s] = NoConn => Erased(s) = sessions_
        BY DEF Erased
  <2> HIDE DEF s
  <2>6. Entries(sessions_') = Entries(Erased(s)) \cup {s} /\ s \notin Entries(Erased(s))
    <3>1. CASE sessions_[s] # NoConn
          BY <1>0, <2>1, <2>3, <2>4, <3>1 DEF Entries
    <3>2. CASE sessions_[s] = NoConn
          BY <1>0, <2>1, <2>3, <2>5, <3>2 DEF Entries
    <3> QED
        BY <3>1, <3>2
  <2>7. Cardinality(Entries(sessions_')) = Cardinality(Entries(Erased(s))) + 1
        BY <2>6, EntriesFinite, FS_AddElement
  <2>8. Cardinality(Entries(sessions_')) <= max_sessions_
        BY SMT, <1>m, <2>2, <2>7, EntriesFinite
  <2> QED
      BY <2>8 DEF SessionsBounded, Size, Entries, max_sessions_
<1>3. ASSUME NEW t \in Threads, SessionRefused(t)
      PROVE  SessionsBounded'
  <2> DEFINE s == session_id[t]
  <2>1. sessions_' = sessions_ \/ sessions_' = [sessions_ EXCEPT ![s] = NoConn]
        BY <1>3 DEF SessionRefused, Erased
  <2>2. Entries(sessions_') \subseteq Entries(sessions_)
        BY <1>0, <2>1 DEF Entries
  <2>3. Cardinality(Entries(sessions_')) <= Cardinality(Entries(sessions_))
        BY <2>2, EntriesFinite, FS_Subset
  <2>4. Cardinality(Entries(sessions_)) <= max_sessions_
        BY DEF SessionsBounded, Size, Entries
  <2>5. Cardinality(Entries(sessions_')) <= max_sessions_
        BY SMT, <1>m, <2>3, <2>4, EntriesFinite
  <2> QED
      BY <2>5 DEF SessionsBounded, Size, Entries, max_sessions_
<1>4. ASSUME NEW t \in Threads, PoolStep(t)
      PROVE  sessions_' = sessions_
      BY <1>4
      DEF PoolStep, ConnectRpc, ConnectWarmed, QueryStream, AcquireSpurious,
          AcquirePending, AcquireIdle, AcquireCreated, AcquireFailed, SessionFound,
          ReleasePooled
<1>5. ASSUME NEW t \in Threads, StreamStep(t)
      PROVE  sessions_' = sessions_
      BY <1>5, StreamStepEffect DEF OnConnection, StreamFrame
<1>6. ASSUME NEW t \in Threads, StoreStep(t)
      PROVE  SessionsBounded'
  <2>1. CASE (\E k \in SqlKinds, s \in Sessions : QueryStream(t, k, s))
             \/ ReleasePinned(t) \/ DropPooled(t)
        BY <1>1, <2>1 DEF QueryStream, ReleasePinned, DropPooled
  <2> QED
      BY <1>2, <1>3, <1>6, <2>1 DEF StoreStep
<1>7. CASE (\E c \in Conn : BackendLost(c)) \/ UNCHANGED vars
      BY <1>1, <1>7 DEF BackendLost, vars
<1> QED
    BY <1>1, <1>4, <1>5, <1>6, <1>7, StepKinds

\* The session store never holds more than MTDD_MAX_SESSIONS connections,
\* whatever entries die and are opened again.
THEOREM SessionStoreBounded == ShardSpec => []SessionsBounded
<1>1. ShardInit => SessionsBounded
  <2> SUFFICES ASSUME ShardInit PROVE SessionsBounded
      OBVIOUS
  <2>1. {s \in Sessions : sessions_[s] # NoConn} = {}
        BY DEF ShardInit
  <2> QED
      BY SMT, <2>1, FS_EmptySet, ShardAssumption DEF SessionsBounded, Size, max_sessions_
<1> QED
    BY <1>1, HandlersPlaced, SessionsNext, PTL DEF ShardSpec

-----------------------------------------------------------------------------
(***************************************************************************)
(* Who owns a connection.                                                  *)
(***************************************************************************)

\* Owners, connection by connection.
Apart ==
    /\ \A t, u \in Threads : conn[t] = conn[u] /\ conn[t] # NoConn => t = u
    /\ \A t \in Threads : conn[t] \notin Range(idle_)
    /\ \A s \in Sessions : sessions_[s] # NoConn =>
          sessions_[s] \notin Range(idle_) /\ \A t \in Threads : conn[t] # sessions_[s]
    /\ \A t \in Threads : sconn[t] # NoConn =>
          sconn[t] \notin Range(idle_) /\ \A u \in Threads : conn[u] # sconn[t]
    /\ \A r, s \in Sessions : sessions_[r] = sessions_[s] /\ r # s => sessions_[r] = NoConn
    /\ \A c \in Conn : opened[c] # NoCreds <=>
          \/ c \in Range(idle_)
          \/ \E t \in Threads : conn[t] = c \/ sconn[t] = c
          \/ \E s \in Sessions : sessions_[s] = c

\* What the invariant says of two owners, as one formula.
LEMMA OwnersApart ==
    ASSUME HandlerInv
    PROVE  Owners <=> IsInjective(idle_) /\ Apart
<1>1. Range(sessions_) = {sessions_[s] : s \in Sessions}
      BY DEF HandlerInv, ShardTypeOK, Range
<1> QED
    BY SMT, <1>1 DEF Owners, Apart, PinnedApart, InUse, Referenced

\* The same in the next state.
LEMMA OwnersApartPrime ==
    ASSUME HandlerInv'
    PROVE  Owners' <=> IsInjective(idle_') /\ Apart'
<1>1. Range(sessions_') = {sessions_'[s] : s \in Sessions}
      BY DEF HandlerInv, ShardTypeOK, Range
<1> QED
    BY SMT, <1>1 DEF Owners, Apart, PinnedApart, InUse, Referenced

\* A connection that may be opened has no owner.
LEMMA UnusedUnowned ==
    ASSUME HandlerInv, NEW c \in Unused
    PROVE  /\ c \in Conn /\ c # NoConn /\ c \notin Range(idle_)
           /\ \A t \in Threads : conn[t] # c /\ sconn[t] # c
           /\ \A s \in Sessions : sessions_[s] # c
<1>1. Range(sessions_) = {sessions_[s] : s \in Sessions}
      BY DEF HandlerInv, ShardTypeOK, Range
<1> QED
    BY <1>1, ConstantsAssumption DEF Unused, InUse, Referenced

\* The types the proofs about owners use.
LEMMA OwnerTypes ==
    ASSUME HandlerInv
    PROVE  /\ idle_ \in Seq(Conn)
           /\ conn \in [Threads -> Conn \cup {NoConn}]
           /\ sconn \in [Threads -> Conn \cup {NoConn}]
           /\ sessions_ \in [Sessions -> Conn \cup {NoConn}]
           /\ opened \in [Conn -> Creds \cup {NoCreds}]
           /\ session_id \in [Threads -> Sessions \cup {NoSession}]
           /\ NoConn \notin Conn /\ NoConn \notin Range(idle_)
           /\ Places
<1>1. idle_ \in Seq(Conn)
      BY DEF HandlerInv, ShardTypeOK, TypeOK
<1>2. NoConn \notin Range(idle_)
      BY SMT, <1>1, ConstantsAssumption DEF Range
<1> QED
    BY <1>1, <1>2, ConstantsAssumption DEF HandlerInv, ShardTypeOK, TypeOK

\* What a newly opened connection changes.
LEMMA OpensEffect ==
    ASSUME HandlerInv, NEW t \in Threads, NEW c \in Conn, Opens(t, c)
    PROVE  \A d \in Conn : opened'[d] # NoCreds <=> d = c \/ opened[d] # NoCreds
<1>1. PICK k \in Mix(seen[t]) : opened' = [opened EXCEPT ![c] = k]
      BY DEF Opens
<1>2. seen[t] \in SUBSET Creds /\ opened \in [Conn -> Creds \cup {NoCreds}]
      BY DEF HandlerInv, ShardTypeOK, TypeOK
<1>3. k # NoCreds
      BY <1>2, MixType, ConstantsAssumption
<1> QED
    BY <1>1, <1>2, <1>3

\* The steps of the pool keep the owner of every connection unique.
LEMMA PoolStepOwners ==
    ASSUME HandlerInv, Owners, NEW t \in Threads, PoolStep(t)
    PROVE  IsInjective(idle_') /\ Apart'
<1>0. /\ idle_ \in Seq(Conn)
      /\ conn \in [Threads -> Conn \cup {NoConn}]
      /\ sconn \in [Threads -> Conn \cup {NoConn}]
      /\ sessions_ \in [Sessions -> Conn \cup {NoConn}]
      /\ opened \in [Conn -> Creds \cup {NoCreds}]
      /\ session_id \in [Threads -> Sessions \cup {NoSession}]
      /\ NoConn \notin Conn /\ NoConn \notin Range(idle_)
      /\ Places
      BY OwnerTypes
<1>a. IsInjective(idle_) /\ Apart
      BY OwnersApart
<1> DEFINE Goal == IsInjective(idle_') /\ Apart'
<1>1. ASSUME UNCHANGED <<idle_, conn, sconn, sessions_, opened>>
      PROVE  Goal
      BY <1>a, <1>1 DEF Apart
<1>2. CASE \E p \in ClientCreds : ConnectRpc(t, p)
      BY <1>1, <1>2 DEF ConnectRpc, Configure, WarmFail, StoreParams, streamVars
<1>3. CASE \E k \in SqlKinds : QueryStream(t, k, NoSession)
      BY <1>1, <1>3 DEF QueryStream, BeginAcquire
<1>4. CASE AcquireSpurious(t) \/ AcquirePending(t)
      BY <1>1, <1>4
      DEF AcquireSpurious, AcquirePending, SpuriousWakeup, Sleep, Reserve, streamVars
<1>5. CASE AcquireFailed(t)
  <2>1. sconn' = sconn
    <3>1. sconn[t] = NoConn /\ sconn' = [sconn EXCEPT ![t] = NoConn]
          BY <1>0, <1>5 DEF AcquireFailed, Return, Places, Streaming
    <3> QED
        BY <1>0, <3>1
  <2> QED
      BY <1>1, <1>5, <2>1 DEF AcquireFailed, CreateFail
<1>6. ASSUME NEW c \in Unused, ConnectWarmed(t, c)
      PROVE  Goal
  <2>1. /\ c \in Conn /\ c # NoConn /\ c \notin Range(idle_)
        /\ \A u \in Threads : conn[u] # c /\ sconn[u] # c
        /\ \A s \in Sessions : sessions_[s] # c
        BY UnusedUnowned
  <2>2. Range(idle_') = Range(idle_) \cup {c} /\ IsInjective(idle_')
        BY SMT, <1>0, <1>a, <1>6, <2>1, PushInjective DEF ConnectWarmed, WarmOk
  <2>3. conn' = conn /\ sconn' = sconn /\ sessions_' = sessions_
        BY <1>6 DEF ConnectWarmed, WarmOk, streamVars
  <2>4. \A d \in Conn : opened'[d] # NoCreds <=> d = c \/ opened[d] # NoCreds
        BY <1>6, <2>1, OpensEffect DEF ConnectWarmed, WarmOk
  <2> QED
      BY <1>a, <2>1, <2>2, <2>3, <2>4 DEF Apart
<1>7. ASSUME NEW c \in Unused, AcquireCreated(t, c)
      PROVE  Goal
  <2>1. /\ c \in Conn /\ c # NoConn /\ c \notin Range(idle_)
        /\ \A u \in Threads : conn[u] # c /\ sconn[u] # c
        /\ \A s \in Sessions : sessions_[s] # c
        BY UnusedUnowned
  <2>2. /\ idle_' = idle_ /\ sconn' = sconn /\ sessions_' = sessions_
        /\ conn' = [conn EXCEPT ![t] = c] /\ conn[t] = NoConn
        BY <1>0, <1>7 DEF AcquireCreated, CreateOk, Goto, Places
  <2>3. \A d \in Conn : opened'[d] # NoCreds <=> d = c \/ opened[d] # NoCreds
        BY <1>7, <2>1, OpensEffect DEF AcquireCreated, CreateOk
  <2> QED
      BY SMTT(30), <1>0, <1>a, <2>1, <2>2, <2>3 DEF Apart
<1>8. CASE AcquireIdle(t)
  <2> DEFINE c == Head(idle_)
  <2>1. /\ c \in Range(idle_) /\ c \in Conn
        /\ Range(idle_') = Range(idle_) \ {c}
        /\ IsInjective(idle_')
        BY SMT, <1>0, <1>a, <1>8, PopInjective DEF AcquireIdle, TakeIdle
  <2>2. /\ sconn' = sconn /\ sessions_' = sessions_ /\ opened' = opened
        /\ conn' = [conn EXCEPT ![t] = c] /\ conn[t] = NoConn
        BY <1>0, <1>8 DEF AcquireIdle, TakeIdle, Goto, Places
  <2> HIDE DEF c
  <2> QED
      BY SMTT(30), <1>0, <1>a, <2>1, <2>2 DEF Apart
<1>9. CASE SessionFound(t)
  <2>1. /\ UNCHANGED <<idle_, conn, sessions_, opened>>
        /\ sconn' = [sconn EXCEPT ![t] = sessions_[session_id[t]]]
        /\ session_id[t] \in Sessions /\ sessions_[session_id[t]] \in healthy
        /\ sconn[t] = NoConn
        BY <1>0, <1>9 DEF SessionFound, poolVars, Pooled, Places, Streaming
  <2>2. PICK s \in Sessions : s = session_id[t]
        BY <2>1
  <2>3. sessions_[s] # NoConn
        BY <1>0, <2>1, <2>2 DEF HandlerInv, ShardTypeOK, TypeOK
  <2> QED
      BY SMT, <1>0, <1>a, <2>1, <2>2, <2>3 DEF Apart
<1>10. CASE ReleasePooled(t)
  <2> DEFINE c == conn[t]
  <2>1. /\ c \in Conn /\ c \notin Range(idle_)
        /\ conn' = [conn EXCEPT ![t] = NoConn] /\ sessions_' = sessions_
        BY SMTT(30), <1>0, <1>a, <1>10 DEF ReleasePooled, Release, Places, Apart
  <2>2. sconn' = sconn
    <3>1. sconn[t] = NoConn /\ sconn' = [sconn EXCEPT ![t] = NoConn]
          BY <1>0, <1>10 DEF ReleasePooled, Return, Places
    <3> QED
        BY <1>0, <3>1
  <2>3. \A u \in Threads : u # t => conn[u] # c
        BY SMTT(30), <1>a, <1>0, <2>1 DEF Apart
  <2>4. CASE opened' = [opened EXCEPT ![c] = NoCreds] /\ idle_' = idle_
    <3> HIDE DEF c
    <3>1. c = conn[t]
          BY DEF c
    <3> QED
        BY SMTT(30), <1>0, <1>a, <2>1, <2>2, <2>3, <2>4, <3>1 DEF Apart
  <2>5. CASE opened' = opened /\ idle_' = Append(idle_, c)
    <3>1. Range(idle_') = Range(idle_) \cup {c} /\ IsInjective(idle_')
          BY SMTT(30), <1>0, <1>a, <2>1, <2>5, PushInjective
    <3>2. c = conn[t]
          OBVIOUS
    <3> HIDE DEF c
    <3>3. /\ \A u \in Threads : conn'[u] = IF u = t THEN NoConn ELSE conn[u]
          /\ \A u \in Threads : conn[u] = c <=> u = t
          /\ \A s \in Sessions : sessions_[s] # c
          /\ \A u \in Threads : sconn[u] # c
          BY SMTT(30), <1>0, <1>a, <2>1, <2>3, <3>2 DEF Apart
    <3>4. \A d \in Conn : opened'[d] # NoCreds <=>
             \/ d \in Range(idle_')
             \/ \E u \in Threads : conn'[u] = d \/ sconn'[u] = d
             \/ \E s \in Sessions : sessions_'[s] = d
          BY SMTT(30), <1>0, <1>a, <2>1, <2>2, <2>5, <3>1, <3>3 DEF Apart
    <3> QED
        BY SMTT(30), <1>0, <1>a, <2>1, <2>2, <3>1, <3>3, <3>4 DEF Apart
  <2> QED
      BY <1>10, <2>4, <2>5 DEF ReleasePooled, Release, Destroy
<1> QED
    BY <1>2, <1>3, <1>4, <1>5, <1>6, <1>7, <1>8, <1>9, <1>10 DEF PoolStep

\* The connection GetOrCreate closes when it erases the entry of session s.
Closes(t, s) == IF Erased(s) # sessions_ /\ ~HeldByOther(t, sessions_[s])
                THEN {sessions_[s]} ELSE {}

\* What erasing the entry of session s means for its connection.
LEMMA ErasedEffect ==
    ASSUME HandlerInv, NEW t \in Threads, NEW s \in Sessions, sconn[t] = NoConn,
           sessions_[s] \notin healthy
    PROVE  /\ Erased(s) = [sessions_ EXCEPT ![s] = NoConn]
           /\ \A d \in Conn : d \in Closes(t, s) <=>
                 d = sessions_[s] /\ \A u \in Threads : sconn[u] # d
<1>0. /\ sessions_ \in [Sessions -> Conn \cup {NoConn}]
      /\ NoConn \notin Conn
      BY OwnerTypes
<1>1. Erased(s) = [sessions_ EXCEPT ![s] = NoConn]
      BY <1>0 DEF Erased
<1>2. Erased(s) # sessions_ <=> sessions_[s] # NoConn
      BY <1>0, <1>1
<1> QED
    BY <1>0, <1>1, <1>2 DEF Closes, HeldByOther

\* So do the steps of the session store and the other ways to let go.
LEMMA StoreStepOwners ==
    ASSUME HandlerInv, Owners, NEW t \in Threads, StoreStep(t)
    PROVE  IsInjective(idle_') /\ Apart'
<1>0. /\ idle_ \in Seq(Conn)
      /\ conn \in [Threads -> Conn \cup {NoConn}]
      /\ sconn \in [Threads -> Conn \cup {NoConn}]
      /\ sessions_ \in [Sessions -> Conn \cup {NoConn}]
      /\ opened \in [Conn -> Creds \cup {NoCreds}]
      /\ session_id \in [Threads -> Sessions \cup {NoSession}]
      /\ NoConn \notin Conn /\ NoConn \notin Range(idle_)
      /\ Places
      BY OwnerTypes
<1>a. IsInjective(idle_) /\ Apart
      BY OwnersApart
<1> DEFINE Goal == IsInjective(idle_') /\ Apart'
<1>1. CASE \E k \in SqlKinds, s \in Sessions : QueryStream(t, k, s)
  <2>1. UNCHANGED <<idle_, conn, sconn, sessions_, opened>>
        BY <1>1, ShardAssumption DEF QueryStream
  <2> QED
      BY <1>a, <2>1 DEF Apart
<1>2. ASSUME NEW c \in Unused, SessionCreated(t, c)
      PROVE  Goal
  <2>1. /\ c \in Conn /\ c # NoConn /\ c \notin Range(idle_)
        /\ \A u \in Threads : conn[u] # c /\ sconn[u] # c
        /\ \A r \in Sessions : sessions_[r] # c
        BY UnusedUnowned
  <2>2. PICK s \in Sessions : s = session_id[t]
        BY <1>0, <1>2 DEF SessionCreated, Pooled
  <2>3. /\ sconn[t] = NoConn /\ session_defaults_[t] # NoCreds
        /\ sessions_[s] \notin healthy
        BY <1>0, <1>2, <2>2 DEF SessionCreated, Places, Streaming
  <2>4. /\ idle_' = idle_ /\ conn' = conn
        /\ sconn' = [sconn EXCEPT ![t] = c]
        /\ sessions_' = [sessions_ EXCEPT ![s] = c]
        BY <1>2, <2>2 DEF SessionCreated, StoreConnections
  <2>5. \A d \in Conn : opened'[d] # NoCreds <=>
            d = c \/ (d \notin Closes(t, s) /\ opened[d] # NoCreds)
        BY <1>2, <2>2, <2>3 DEF SessionCreated, StoreConnections, Closes
  <2>6. \A d \in Conn : d \in Closes(t, s) <=>
            d = sessions_[s] /\ \A u \in Threads : sconn[u] # d
        BY <2>3, ErasedEffect
  <2>7. \A d \in Conn : opened'[d] # NoCreds <=>
            \/ d \in Range(idle_)
            \/ \E u \in Threads : conn[u] = d \/ sconn'[u] = d
            \/ \E r \in Sessions : sessions_'[r] = d
    <3> SUFFICES ASSUME NEW d \in Conn
                 PROVE  opened'[d] # NoCreds <=>
                          \/ d \in Range(idle_)
                          \/ \E u \in Threads : conn[u] = d \/ sconn'[u] = d
                          \/ \E r \in Sessions : sessions_'[r] = d
        OBVIOUS
    <3>1. CASE d = c
          BY <1>0, <2>4, <2>5, <3>1
    <3>2. CASE d # c
      <4>1. (\E u \in Threads : sconn'[u] = d) <=> \E u \in Threads : sconn[u] = d
            BY <1>0, <2>3, <2>4, <3>2
      <4>2. (\E r \in Sessions : sessions_'[r] = d)
               <=> \E r \in Sessions : r # s /\ sessions_[r] = d
            BY <1>0, <2>4, <3>2
      <4>3. CASE d = sessions_[s]
        <5>1. /\ d \notin Range(idle_) /\ \A u \in Threads : conn[u] # d
              /\ \A r \in Sessions : r # s => sessions_[r] # d
              /\ opened[d] # NoCreds
              BY SMTT(30), <1>0, <1>a, <4>3 DEF Apart
        <5> QED
            BY ZenonT(30), <2>5, <2>6, <3>2, <4>1, <4>2, <4>3, <5>1
      <4>4. CASE d # sessions_[s]
        <5>1. opened'[d] # NoCreds <=> opened[d] # NoCreds
              BY <2>5, <2>6, <3>2, <4>4
        <5>2. opened[d] # NoCreds <=>
                 \/ d \in Range(idle_)
                 \/ \E u \in Threads : conn[u] = d \/ sconn[u] = d
                 \/ \E r \in Sessions : sessions_[r] = d
              BY ZenonT(30), <1>a DEF Apart
        <5> QED
            BY <4>1, <4>2, <4>4, <5>1, <5>2
      <4> QED
          BY <4>3, <4>4
    <3> QED
        BY <3>1, <3>2
  <2> QED
      BY SMTT(30), <1>0, <1>a, <2>1, <2>4, <2>7 DEF Apart
<1>3. CASE SessionRefused(t)
  <2>2. PICK s \in Sessions : s = session_id[t]
        BY <1>0, <1>3 DEF SessionRefused, Pooled
  <2>3. sconn[t] = NoConn /\ sessions_[s] \notin healthy
        BY <1>0, <1>3, <2>2 DEF SessionRefused, Places, Streaming
  <2>6. /\ Erased(s) = [sessions_ EXCEPT ![s] = NoConn]
        /\ \A d \in Conn : d \in Closes(t, s) <=>
              d = sessions_[s] /\ \A u \in Threads : sconn[u] # d
        BY <2>3, ErasedEffect
  <2>4. /\ idle_' = idle_ /\ conn' = conn
        /\ sconn' = [sconn EXCEPT ![t] = NoConn]
        /\ sessions_' = [sessions_ EXCEPT ![s] = NoConn]
        BY <1>3, <2>2, <2>6 DEF SessionRefused, StoreConnections, Return
  <2>s. sconn' = sconn
        BY <1>0, <2>3, <2>4
  <2>5. \A d \in Conn : opened'[d] # NoCreds <=>
            d \notin Closes(t, s) /\ opened[d] # NoCreds
        BY <1>0, <1>3, <2>2 DEF SessionRefused, StoreConnections, Closes
  <2>7. \A d \in Conn : opened'[d] # NoCreds <=>
            \/ d \in Range(idle_)
            \/ \E u \in Threads : conn[u] = d \/ sconn[u] = d
            \/ \E r \in Sessions : sessions_'[r] = d
    <3> SUFFICES ASSUME NEW d \in Conn
                 PROVE  opened'[d] # NoCreds <=>
                          \/ d \in Range(idle_)
                          \/ \E u \in Threads : conn[u] = d \/ sconn[u] = d
                          \/ \E r \in Sessions : sessions_'[r] = d
        OBVIOUS
    <3>1. (\E r \in Sessions : sessions_'[r] = d)
             <=> \E r \in Sessions : r # s /\ sessions_[r] = d
          BY <1>0, <2>4
    <3>2. CASE d = sessions_[s]
      <4>1. /\ d \notin Range(idle_) /\ \A u \in Threads : conn[u] # d
            /\ \A r \in Sessions : r # s => sessions_[r] # d
            /\ opened[d] # NoCreds
            BY SMTT(30), <1>0, <1>a, <3>2 DEF Apart
      <4> QED
          BY ZenonT(30), <2>5, <2>6, <3>1, <3>2, <4>1
    <3>3. CASE d # sessions_[s]
      <4>1. opened'[d] # NoCreds <=> opened[d] # NoCreds
            BY <2>5, <2>6, <3>3
      <4>2. opened[d] # NoCreds <=>
               \/ d \in Range(idle_)
               \/ \E u \in Threads : conn[u] = d \/ sconn[u] = d
               \/ \E r \in Sessions : sessions_[r] = d
            BY <1>a DEF Apart
      <4> QED
          BY <3>1, <3>3, <4>1, <4>2
    <3> QED
        BY <3>2, <3>3
  <2> QED
      BY SMTT(30), <1>0, <1>a, <2>4, <2>s, <2>7 DEF Apart
<1>4. CASE ReleasePinned(t)
  <2>1. PICK c \in Conn : c = sconn[t]
        BY <1>0, <1>4 DEF ReleasePinned, Places, Streaming
  <2>2. /\ UNCHANGED <<idle_, conn, sessions_>>
        /\ sconn' = [sconn EXCEPT ![t] = NoConn]
        BY <1>4 DEF ReleasePinned, Return
  <2>3. Range(sessions_) = {sessions_[s] : s \in Sessions}
        BY <1>0 DEF Range
  <2>4. CASE c \notin Range(sessions_) /\ ~HeldByOther(t, c)
    <3>1. opened' = [opened EXCEPT ![c] = NoCreds]
          BY <1>4, <2>1, <2>4 DEF ReleasePinned, Destroy
    <3>2. /\ \A s \in Sessions : sessions_[s] # c
          /\ \A u \in Threads : u # t => sconn[u] # c
          /\ c \notin Range(idle_) /\ \A u \in Threads : conn[u] # c
          BY SMTT(30), <1>0, <1>a, <2>1, <2>3, <2>4 DEF HeldByOther, Apart
    <3> QED
        BY SMTT(30), <1>0, <1>a, <2>1, <2>2, <3>1, <3>2 DEF Apart
  <2>5. CASE c \in Range(sessions_) \/ HeldByOther(t, c)
    <3>1. opened' = opened
          BY <1>4, <2>1, <2>5 DEF ReleasePinned
    <3>2. (\E s \in Sessions : sessions_[s] = c) \/ \E u \in Threads : u # t /\ sconn[u] = c
          BY <2>3, <2>5 DEF HeldByOther
    <3> QED
        BY SMTT(30), <1>0, <1>a, <2>1, <2>2, <3>1, <3>2 DEF Apart
  <2> QED
      BY <2>4, <2>5
<1>5. CASE DropPooled(t)
  <2>1. PICK c \in Conn : c = conn[t]
        BY <1>0, <1>5 DEF DropPooled, Places, Streaming
  <2>2. /\ UNCHANGED <<idle_, sessions_>>
        /\ conn' = [conn EXCEPT ![t] = NoConn]
        /\ opened' = [opened EXCEPT ![c] = NoCreds]
        BY <1>5, <2>1 DEF DropPooled, Destroy
  <2>3. sconn' = sconn
    <3>1. sconn[t] = NoConn /\ sconn' = [sconn EXCEPT ![t] = NoConn]
          BY <1>0, <1>5 DEF DropPooled, Return, Places
    <3> QED
        BY <1>0, <3>1
  <2>4. \A u \in Threads : u # t => conn[u] # c
        BY SMT, <1>0, <1>a, <2>1 DEF Apart
  <2> QED
      BY SMTT(30), <1>0, <1>a, <2>1, <2>2, <2>3, <2>4 DEF Apart
<1> QED
    BY <1>1, <1>2, <1>3, <1>4, <1>5 DEF StoreStep

OwnedInv == HandlerInv /\ Owners

\* Every step keeps one owner to each connection.
LEMMA OwnersNext == OwnedInv /\ [ShardNext]_vars => OwnedInv'
<1> SUFFICES ASSUME HandlerInv, Owners, [ShardNext]_vars
             PROVE  OwnedInv'
    BY DEF OwnedInv
<1>0. HandlerInv'
      BY HandlerInvNext
<1>1. IsInjective(idle_) /\ Apart
      BY OwnersApart
<1>2. ASSUME UNCHANGED <<idle_, conn, sconn, sessions_, opened>>
      PROVE  IsInjective(idle_') /\ Apart'
      BY <1>1, <1>2 DEF Apart
<1>3. ASSUME NEW t \in Threads, StreamStep(t)
      PROVE  IsInjective(idle_') /\ Apart'
      BY <1>2, <1>3, StreamStepEffect DEF OnConnection, StreamFrame, poolSlots
<1>4. ASSUME (\E c \in Conn : BackendLost(c)) \/ UNCHANGED vars
      PROVE  IsInjective(idle_') /\ Apart'
  <2>1. UNCHANGED <<poolVars, streamVars, sessions_>>
        BY <1>4 DEF BackendLost, vars
  <2> QED
      BY <1>2, <2>1 DEF poolVars, streamVars
<1>5. ASSUME NEW t \in Threads, PoolStep(t) \/ StoreStep(t)
      PROVE  IsInjective(idle_') /\ Apart'
      BY <1>5, PoolStepOwners, StoreStepOwners
<1>6. IsInjective(idle_') /\ Apart'
      BY <1>3, <1>4, <1>5, StepKinds
<1> QED
    BY <1>0, <1>6, OwnersApartPrime DEF OwnedInv

\* The service starts without connections.
LEMMA OwnedInit == ShardInit => OwnedInv
<1> SUFFICES ASSUME ShardInit PROVE OwnedInv
    OBVIOUS
<1>1. HandlerInv
      BY HandlerInvInit
<1>2. IsInjective(idle_) /\ Range(idle_) = {}
      BY SMT DEF ShardInit, PoolInit, IsInjective, Range
<1>3. Apart
      BY <1>2, ConstantsAssumption DEF ShardInit, PoolInit, Apart
<1> QED
    BY <1>1, <1>2, <1>3, OwnersApart DEF OwnedInv

\* Each open connection has one owner: the pool, one pooled stream or one entry
\* of the session store with the streams that run in it.
THEOREM OwnersUnique == ShardSpec => []OwnedInv
BY OwnedInit, OwnersNext, PTL DEF ShardSpec

\* A connection belongs to the pool, to one pooled stream or to one session,
\* and is open exactly as long as somebody refers to it, in every interleaving
\* of the handlers with each other and with lost backends.
THEOREM PinnedStayApart == ShardSpec => []PinnedApart
BY OwnersUnique, PTL DEF OwnedInv, Owners

-----------------------------------------------------------------------------
(***************************************************************************)
(* The pool and its credentials with the query path around them.           *)
(***************************************************************************)

\* What the pool sees of a step of the server: a step of its own specification,
\* a step outside it that at most opens or closes other connections, or the
\* failed OpenCursor that drops a connection and keeps its slot taken.
LEMMA PoolView ==
    ASSUME HandlerInv, [ShardNext]_vars
    PROVE  \/ [Next]_poolVars
           \/ UNCHANGED <<connectVars, idle_, in_use_, pc, conn, seen>>
           \/ \E t \in Threads : /\ pc[t] = "holding"
                                 /\ pc' = [pc EXCEPT ![t] = "out"]
                                 /\ UNCHANGED <<connectVars, idle_, in_use_, seen>>
<1>0. StreamTypes /\ Places
      BY HandlerInvParts
<1>1. ASSUME NEW t \in Threads, StreamStep(t)
      PROVE  UNCHANGED <<connectVars, idle_, in_use_, pc, conn, seen>>
      BY <1>1, StreamStepEffect DEF OnConnection, StreamFrame, poolSlots
<1>2. ASSUME NEW t \in Threads, StoreStep(t), ~DropPooled(t)
      PROVE  UNCHANGED <<connectVars, idle_, in_use_, pc, conn, seen>>
  <2>1. CASE \E k \in SqlKinds, s \in Sessions : QueryStream(t, k, s)
        BY <2>1, ShardAssumption DEF QueryStream
  <2>2. CASE (\E c \in Unused : SessionCreated(t, c)) \/ SessionRefused(t)
        BY <2>2 DEF SessionCreated, SessionRefused, StoreConnections
  <2>3. CASE ReleasePinned(t)
        BY <2>3 DEF ReleasePinned
  <2> QED
      BY <1>2, <2>1, <2>2, <2>3 DEF StoreStep
<1>3. ASSUME NEW t \in Threads, DropPooled(t)
      PROVE  /\ pc[t] = "holding"
             /\ pc' = [pc EXCEPT ![t] = "out"]
             /\ UNCHANGED <<connectVars, idle_, in_use_, seen>>
      BY <1>0, <1>3 DEF DropPooled, Places, Streaming
<1>4. ASSUME (\E c \in Conn : BackendLost(c)) \/ UNCHANGED vars
      PROVE  UNCHANGED poolVars
      BY <1>4 DEF BackendLost, vars
<1> QED
    BY <1>0, <1>1, <1>2, <1>3, <1>4, StepKinds, PoolStepIsNext

\* What the pool guarantees to arbitrary borrowers it guarantees in the server,
\* whose borrowers may also lose a slot.
LEMMA PoolKept ==
    ASSUME HandlerInv, [ShardNext]_vars
    PROVE  /\ CapacityBound => CapacityBound'
           /\ FreeSlotHasWakeup => FreeSlotHasWakeup'
           /\ OneConnect /\ CredentialsAgree => OneConnect' /\ CredentialsAgree'
<1>0. TypeInv
      BY HandlerInvParts
<1>t. pc \in [Threads -> PoolPC]
      BY <1>0 DEF TypeInv, TypeOK
<1>1. CASE [Next]_poolVars
      BY <1>0, <1>1, CapacityNext, WakeupNext, AgreeNext DEF AgreeInv
<1>2. ASSUME UNCHANGED <<connectVars, idle_, in_use_>>,
             \A u \in Threads : /\ pc'[u] = "waiting" <=> pc[u] = "waiting"
                                /\ pc'[u] = "woken" <=> pc[u] = "woken"
                                /\ Connecting(u)' <=> Connecting(u)
      PROVE  /\ CapacityBound => CapacityBound'
             /\ FreeSlotHasWakeup => FreeSlotHasWakeup'
             /\ OneConnect /\ CredentialsAgree => OneConnect' /\ CredentialsAgree'
  <2>1. Sleeping' = Sleeping /\ Woken' = Woken
        BY <1>2 DEF Sleeping, Woken, At
  <2>2. CapacityBound => CapacityBound'
        BY <1>2 DEF CapacityBound, connectVars
  <2>3. FreeSlotHasWakeup => FreeSlotHasWakeup'
        BY <1>2, <2>1 DEF FreeSlotHasWakeup
  <2>4. OneConnect /\ CredentialsAgree => OneConnect' /\ CredentialsAgree'
        BY <1>2 DEF OneConnect, CredentialsAgree, connectVars
  <2> QED
      BY <2>2, <2>3, <2>4
<1>3. CASE UNCHANGED <<connectVars, idle_, in_use_, pc, conn, seen>>
      BY <1>2, <1>3 DEF Connecting
<1>4. ASSUME NEW t \in Threads, pc[t] = "holding", pc' = [pc EXCEPT ![t] = "out"],
             UNCHANGED <<connectVars, idle_, in_use_, seen>>
      PROVE  \A u \in Threads : /\ pc'[u] = "waiting" <=> pc[u] = "waiting"
                                /\ pc'[u] = "woken" <=> pc[u] = "woken"
                                /\ Connecting(u)' <=> Connecting(u)
      BY SMT, <1>t, <1>4 DEF Connecting
<1> QED
    BY <1>1, <1>2, <1>3, <1>4, PoolView

\* The bound on the pool's connections holds in the server, with slots leaked
\* by a failed OpenCursor counted as taken.
THEOREM PoolBoundedInService == ShardSpec => []CapacityBound
<1>1. ShardInit => CapacityBound
      BY SMT DEF ShardInit, PoolInit, CapacityBound
<1> QED
    BY <1>1, HandlersPlaced, PoolKept, PTL DEF ShardSpec

\* No wakeup is lost in the server: while a handler sleeps in Acquire, there is
\* a released one for every free slot and for every idle connection but those
\* that later Connect RPCs pushed.
THEOREM NoLostWakeupInService == ShardSpec => [](FreeSlotHasWakeup /\ IdleHasWakeup)
<1>1. ShardInit => FreeSlotHasWakeup
  <2>1. ShardInit => Sleeping = {}
        BY DEF ShardInit, PoolInit, Sleeping, At
  <2> QED
      BY <2>1 DEF FreeSlotHasWakeup
<1>2. HandlerInv => TypeInv
      BY HandlerInvParts
<1> QED
    BY <1>1, <1>2, IdleFromSlots, PoolBoundedInService, HandlersPlaced, PoolKept, PTL
    DEF ShardSpec

\* Connect RPCs that succeed one after the other leave the pool and the session
\* store with the same credentials, queries running or not.
THEOREM CredentialsAgreeInService == ShardSpec => []CredentialsAgree
<1>1. ShardInit => OneConnect /\ CredentialsAgree
      BY DEF ShardInit, PoolInit, OneConnect, CredentialsAgree, Connecting
<1> QED
    BY <1>1, HandlersPlaced, PoolKept, PTL DEF ShardSpec

\* The credentials the handlers have copied came from a Connect RPC.
SuppliedCopies ==
    /\ connect_params_ \in supplied \cup {NoCreds}
    /\ \A t \in Threads : /\ request[t] \in supplied \cup {NoCreds}
                          /\ session_defaults_[t] \in supplied \cup {NoCreds}

\* The connections of sessions, and of the streams that run in them.
Pinned(c) == (\E s \in Sessions : sessions_[s] = c) \/ \E t \in Threads : sconn[t] = c

\* A pinned connection carries the credentials of one Connect RPC, even when
\* Configure changed params_ under a reader: GetOrCreate does not read params_
\* but the copy that QueryStream took under state_mutex_.
PinnedWhole == \A c \in Conn : Pinned(c) => opened[c] \in supplied

\* Every step keeps the copies of the credentials whole.
LEMMA CopiesNext ==
    ASSUME HandlerInv, SuppliedCopies, [ShardNext]_vars
    PROVE  SuppliedCopies' /\ supplied \subseteq supplied'
<1>0. /\ request \in [Threads -> Creds \cup {NoCreds}]
      /\ session_defaults_ \in [Threads -> Creds \cup {NoCreds}]
      BY DEF HandlerInv, ShardTypeOK, TypeOK
<1> DEFINE Goal == SuppliedCopies' /\ supplied \subseteq supplied'
<1>1. ASSUME UNCHANGED <<supplied, connect_params_, request>>,
             \A t \in Threads : session_defaults_'[t] \in {session_defaults_[t], connect_params_, NoCreds}
      PROVE  Goal
      BY <1>1 DEF SuppliedCopies
<1>r. ASSUME NEW t \in Threads, Return(t)
      PROVE  \A u \in Threads : session_defaults_'[u] \in {session_defaults_[u], connect_params_, NoCreds}
      BY <1>0, <1>r DEF Return
<1>2. ASSUME NEW t \in Threads, PoolStep(t)
      PROVE  Goal
  <2>1. ASSUME NEW p \in ClientCreds, ConnectRpc(t, p)
        PROVE  Goal
    <3>0. session_defaults_' = session_defaults_
          BY <2>1 DEF ConnectRpc, streamVars
    <3>1. CASE Configure(t, p)
      <4>1. /\ supplied' = supplied \cup {p} /\ connect_params_' = connect_params_
            /\ request' = [request EXCEPT ![t] = p]
            BY <3>1 DEF Configure
      <4> QED
          BY <1>0, <3>0, <4>1 DEF SuppliedCopies
    <3>2. CASE WarmFail(t)
      <4>1. /\ supplied' = supplied /\ connect_params_' = connect_params_
            /\ request' = [request EXCEPT ![t] = NoCreds]
            BY <3>2 DEF WarmFail
      <4> QED
          BY <1>0, <3>0, <4>1 DEF SuppliedCopies
    <3>3. CASE StoreParams(t)
      <4>1. /\ supplied' = supplied /\ connect_params_' = request[t]
            /\ request' = [request EXCEPT ![t] = NoCreds]
            BY <3>3 DEF StoreParams
      <4> QED
          BY <1>0, <3>0, <4>1 DEF SuppliedCopies
    <3> QED
        BY <2>1, <3>1, <3>2, <3>3 DEF ConnectRpc
  <2>2. CASE \E c \in Unused : ConnectWarmed(t, c)
        BY <1>1, <2>2 DEF ConnectWarmed, WarmOk, streamVars
  <2>3. ASSUME NEW k \in SqlKinds, QueryStream(t, k, NoSession)
        PROVE  Goal
    <3>1. /\ UNCHANGED <<supplied, connect_params_, request>>
          /\ session_defaults_' = [session_defaults_ EXCEPT ![t] = connect_params_]
          BY <2>3 DEF QueryStream, BeginAcquire, connectVars
    <3> QED
        BY <1>0, <1>1, <3>1
  <2>4. CASE AcquireSpurious(t) \/ AcquirePending(t)
        BY <1>1, <2>4
        DEF AcquireSpurious, AcquirePending, SpuriousWakeup, Sleep, Reserve, streamVars,
            connectVars
  <2>5. CASE AcquireIdle(t) \/ \E c \in Unused : AcquireCreated(t, c)
        BY <1>1, <2>5 DEF AcquireIdle, AcquireCreated, TakeIdle, CreateOk, Goto, connectVars
  <2>6. CASE AcquireFailed(t)
        BY <1>1, <1>r, <2>6 DEF AcquireFailed, CreateFail, connectVars
  <2>7. CASE SessionFound(t)
        BY <1>1, <2>7 DEF SessionFound, poolVars, connectVars
  <2>8. CASE ReleasePooled(t)
        BY <1>1, <1>r, <2>8 DEF ReleasePooled, Release, connectVars
  <2> QED
      BY <1>2, <2>1, <2>2, <2>3, <2>4, <2>5, <2>6, <2>7, <2>8 DEF PoolStep
<1>3. ASSUME NEW t \in Threads, StreamStep(t)
      PROVE  Goal
      BY <1>1, <1>3, StreamStepEffect DEF OnConnection, StreamFrame, poolSlots, connectVars
<1>4. ASSUME NEW t \in Threads, StoreStep(t)
      PROVE  Goal
  <2>1. ASSUME NEW k \in SqlKinds, NEW s \in Sessions, QueryStream(t, k, s)
        PROVE  Goal
    <3>1. /\ UNCHANGED <<supplied, connect_params_, request>>
          /\ session_defaults_' = [session_defaults_ EXCEPT ![t] = connect_params_]
          BY <2>1, ShardAssumption DEF QueryStream, connectVars
    <3> QED
        BY <1>0, <1>1, <3>1
  <2>2. CASE \E c \in Unused : SessionCreated(t, c)
        BY <1>1, <2>2 DEF SessionCreated, StoreConnections, connectVars
  <2>3. CASE SessionRefused(t)
        BY <1>1, <1>r, <2>3 DEF SessionRefused, StoreConnections, connectVars
  <2>4. CASE ReleasePinned(t) \/ DropPooled(t)
        BY <1>1, <1>r, <2>4 DEF ReleasePinned, DropPooled, connectVars
  <2> QED
      BY <1>4, <2>1, <2>2, <2>3, <2>4 DEF StoreStep
<1>5. CASE (\E c \in Conn : BackendLost(c)) \/ UNCHANGED vars
      BY <1>1, <1>5 DEF BackendLost, vars, poolVars, connectVars, streamVars
<1> QED
    BY <1>2, <1>3, <1>4, <1>5, StepKinds

\* The inductive invariant behind PinnedCredentialsWhole.
CopiesInv == OwnedInv /\ SuppliedCopies /\ PinnedWhole

\* Pinned connections keep their credentials in the steps of the pool.
LEMMA PoolStepPinned ==
    ASSUME HandlerInv, Apart, NEW t \in Threads, PoolStep(t)
    PROVE  \A d \in Conn : Pinned(d)' => Pinned(d) /\ opened'[d] = opened[d]
<1>0. /\ idle_ \in Seq(Conn)
      /\ conn \in [Threads -> Conn \cup {NoConn}]
      /\ sconn \in [Threads -> Conn \cup {NoConn}]
      /\ sessions_ \in [Sessions -> Conn \cup {NoConn}]
      /\ opened \in [Conn -> Creds \cup {NoCreds}]
      /\ session_id \in [Threads -> Sessions \cup {NoSession}]
      /\ NoConn \notin Conn /\ NoConn \notin Range(idle_)
      /\ Places
      BY OwnerTypes
<1>s. sessions_' = sessions_
      BY DEF PoolStep, ConnectRpc, ConnectWarmed, QueryStream, AcquireSpurious,
             AcquirePending, AcquireIdle, AcquireCreated, AcquireFailed, SessionFound,
             ReleasePooled
<1>1. ASSUME \A u \in Threads : sconn'[u] = sconn[u] \/ sconn'[u] = NoConn
                                \/ \E s \in Sessions : sconn'[u] = sessions_[s],
             \A d \in Conn : Pinned(d) => opened'[d] = opened[d]
      PROVE  \A d \in Conn : Pinned(d)' => Pinned(d) /\ opened'[d] = opened[d]
  <2> SUFFICES ASSUME NEW d \in Conn, Pinned(d)' PROVE Pinned(d)
      BY Zenon, <1>1
  <2>1. ASSUME NEW s \in Sessions, sessions_'[s] = d PROVE Pinned(d)
        BY Zenon, <1>s, <2>1 DEF Pinned
  <2>2. ASSUME NEW u \in Threads, sconn'[u] = d PROVE Pinned(d)
    <3>1. d # NoConn
          BY Zenon, <1>0
    <3>2. sconn[u] = d \/ \E s \in Sessions : sessions_[s] = d
          BY Zenon, <1>1, <2>2, <3>1
    <3> QED
        BY Zenon, <3>2 DEF Pinned
  <2> QED
      BY Zenon, <2>1, <2>2 DEF Pinned
<1>2. CASE \/ \E p \in ClientCreds : ConnectRpc(t, p)
           \/ \E k \in SqlKinds : QueryStream(t, k, NoSession)
           \/ AcquireSpurious(t) \/ AcquirePending(t) \/ AcquireIdle(t)
  <2>1. UNCHANGED <<sconn, opened>>
        BY <1>2
        DEF ConnectRpc, Configure, WarmFail, StoreParams, QueryStream, BeginAcquire,
            AcquireSpurious, AcquirePending, AcquireIdle, SpuriousWakeup, Sleep, Reserve,
            TakeIdle, Goto, streamVars
  <2> QED
      BY <1>1, <2>1
<1>3. ASSUME NEW c \in Unused, ConnectWarmed(t, c) \/ AcquireCreated(t, c)
      PROVE  \A d \in Conn : Pinned(d)' => Pinned(d) /\ opened'[d] = opened[d]
  <2>1. sconn' = sconn /\ Opens(t, c)
        BY <1>3 DEF ConnectWarmed, WarmOk, AcquireCreated, CreateOk, Goto, streamVars
  <2>2. ~Pinned(c)
        BY UnusedUnowned DEF Pinned
  <2>3. \A d \in Conn : d # c => opened'[d] = opened[d]
        BY <1>0, <2>1 DEF Opens
  <2> QED
      BY <1>1, <2>1, <2>2, <2>3
<1>4. CASE AcquireFailed(t)
  <2>1. sconn' = [sconn EXCEPT ![t] = NoConn] /\ opened' = opened
        BY <1>4 DEF AcquireFailed, CreateFail, Return
  <2> QED
      BY <1>0, <1>1, <2>1
<1>5. CASE SessionFound(t)
  <2>1. /\ sconn' = [sconn EXCEPT ![t] = sessions_[session_id[t]]] /\ opened' = opened
        /\ session_id[t] \in Sessions
        BY <1>0, <1>5 DEF SessionFound, poolVars, Pooled
  <2> QED
      BY <1>0, <1>1, <2>1
<1>6. CASE ReleasePooled(t)
  <2>1. sconn' = [sconn EXCEPT ![t] = NoConn]
        BY <1>6 DEF ReleasePooled, Return
  <2>2. opened' = opened \/ opened' = [opened EXCEPT ![conn[t]] = NoCreds]
        BY <1>6 DEF ReleasePooled, Release, Destroy
  <2>3. conn[t] # NoConn => ~Pinned(conn[t])
        BY <1>0 DEF Apart, Pinned
  <2>4. \A d \in Conn : Pinned(d) => opened'[d] = opened[d]
        BY <1>0, <2>2, <2>3
  <2> QED
      BY <1>0, <1>1, <2>1, <2>4
<1> QED
    BY <1>2, <1>3, <1>4, <1>5, <1>6 DEF PoolStep

\* The store opens a pinned connection with the copy of the credentials its
\* stream took, and nothing else opens one.
LEMMA StoreStepOpened ==
    ASSUME HandlerInv, Apart, NEW t \in Threads, StoreStep(t)
    PROVE  \A d \in Conn : Pinned(d)' =>
               \/ Pinned(d) /\ opened'[d] = opened[d]
               \/ opened'[d] = session_defaults_[t] /\ opened'[d] # NoCreds
<1>0. /\ idle_ \in Seq(Conn)
      /\ conn \in [Threads -> Conn \cup {NoConn}]
      /\ sconn \in [Threads -> Conn \cup {NoConn}]
      /\ sessions_ \in [Sessions -> Conn \cup {NoConn}]
      /\ opened \in [Conn -> Creds \cup {NoCreds}]
      /\ session_id \in [Threads -> Sessions \cup {NoSession}]
      /\ NoConn \notin Conn /\ NoConn \notin Range(idle_)
      /\ Places
      BY OwnerTypes
<1> DEFINE New(d) == opened'[d] = session_defaults_[t] /\ opened'[d] # NoCreds
           Goal == \A d \in Conn : Pinned(d)' => (Pinned(d) /\ opened'[d] = opened[d]) \/ New(d)
<1>1. CASE \E k \in SqlKinds, s \in Sessions : QueryStream(t, k, s)
  <2>1. UNCHANGED <<sconn, sessions_, opened>>
        BY <1>1, ShardAssumption DEF QueryStream, connectVars
  <2> QED
      BY <2>1 DEF Pinned
<1>2. ASSUME NEW c \in Conn \cup {NoConn}, NEW s \in Sessions,
             StoreConnections(t, s, c), sconn[t] = NoConn, sessions_[s] \notin healthy,
             session_defaults_[t] # NoCreds,
             sconn' = [sconn EXCEPT ![t] = c],
             sessions_' = [sessions_ EXCEPT ![s] = c]
      PROVE  Goal
  <2>1. \A d \in Conn : opened'[d] = IF d = c THEN session_defaults_[t]
                                     ELSE IF d \in Closes(t, s) THEN NoCreds ELSE opened[d]
        BY <1>2 DEF StoreConnections, Closes
  <2>3. \A d \in Conn : d \in Closes(t, s) <=>
            d = sessions_[s] /\ \A u \in Threads : sconn[u] # d
        BY <1>2, ErasedEffect
  <2>4. ASSUME NEW d \in Conn, Pinned(d)', d # c
        PROVE  Pinned(d) /\ opened'[d] = opened[d]
    <3>1. \/ \E r \in Sessions : r # s /\ sessions_[r] = d
          \/ \E u \in Threads : u # t /\ sconn[u] = d
          BY <1>0, <1>2, <2>4 DEF Pinned
    <3>2. d \notin Closes(t, s)
          BY SMT, <1>0, <2>3, <3>1 DEF Apart
    <3> QED
        BY <2>1, <2>4, <3>1, <3>2 DEF Pinned
  <2>5. ASSUME NEW d \in Conn, d = c
        PROVE  New(d)
        BY <1>2, <2>1, <2>5
  <2> HIDE DEF New
  <2> QED
      BY <2>4, <2>5
<1>3. CASE \E c \in Unused : SessionCreated(t, c)
  <2>1. PICK c \in Unused : SessionCreated(t, c)
        BY <1>3
  <2>2. PICK s \in Sessions : s = session_id[t]
        BY <1>0, <2>1 DEF SessionCreated, Pooled
  <2>3. /\ sconn[t] = NoConn /\ session_defaults_[t] # NoCreds
        /\ sessions_[s] \notin healthy /\ c \in Conn
        BY <1>0, <2>1, <2>2 DEF SessionCreated, Places, Streaming, Unused
  <2>4. /\ StoreConnections(t, s, c)
        /\ sconn' = [sconn EXCEPT ![t] = c]
        /\ sessions_' = [sessions_ EXCEPT ![s] = c]
        BY <2>1, <2>2 DEF SessionCreated
  <2> QED
      BY <1>2, <2>3, <2>4
<1>4. CASE SessionRefused(t)
  <2>2. PICK s \in Sessions : s = session_id[t]
        BY <1>0, <1>4 DEF SessionRefused, Pooled
  <2>3. /\ sconn[t] = NoConn /\ session_defaults_[t] # NoCreds
        /\ sessions_[s] \notin healthy
        BY <1>0, <1>4, <2>2 DEF SessionRefused, Places, Streaming
  <2>4. Erased(s) = [sessions_ EXCEPT ![s] = NoConn]
        BY <2>3, ErasedEffect
  <2>5. /\ StoreConnections(t, s, NoConn)
        /\ sconn' = [sconn EXCEPT ![t] = NoConn]
        /\ sessions_' = [sessions_ EXCEPT ![s] = NoConn]
        BY <1>4, <2>2, <2>4 DEF SessionRefused, Return
  <2> QED
      BY <1>2, <2>3, <2>5
<1>5. CASE ReleasePinned(t)
  <2>1. /\ sessions_' = sessions_
        /\ sconn' = [sconn EXCEPT ![t] = NoConn]
        BY <1>5 DEF ReleasePinned, Return
  <2>2. Range(sessions_) = {sessions_[s] : s \in Sessions}
        BY <1>0 DEF Range
  <2>3. \/ opened' = opened
        \/ /\ opened' = [opened EXCEPT ![sconn[t]] = NoCreds]
           /\ sconn[t] \notin Range(sessions_) /\ ~HeldByOther(t, sconn[t])
        BY <1>5 DEF ReleasePinned, Destroy
  <2>4. \A d \in Conn : Pinned(d)' =>
            /\ Pinned(d)
            /\ d = sconn[t] => d \in Range(sessions_) \/ HeldByOther(t, d)
        BY <1>0, <2>1, <2>2 DEF Pinned, HeldByOther
  <2> QED
      BY <1>0, <2>1, <2>3, <2>4
<1>6. CASE DropPooled(t)
  <2>1. /\ sessions_' = sessions_
        /\ sconn' = [sconn EXCEPT ![t] = NoConn]
        /\ opened' = [opened EXCEPT ![conn[t]] = NoCreds]
        /\ conn[t] \in Conn
        BY <1>0, <1>6 DEF DropPooled, Return, Destroy, Places, Streaming
  <2>2. ~Pinned(conn[t])
        BY <1>0, <2>1 DEF Apart, Pinned
  <2>3. \A d \in Conn : Pinned(d)' => Pinned(d)
        BY <1>0, <2>1 DEF Pinned
  <2> QED
      BY <1>0, <1>6, <2>1, <2>2, <2>3
<1> QED
    BY <1>1, <1>3, <1>4, <1>5, <1>6 DEF StoreStep

\* Every step keeps the credentials of pinned connections whole.
LEMMA CopiesInvNext == CopiesInv /\ [ShardNext]_vars => CopiesInv'
<1> SUFFICES ASSUME CopiesInv, [ShardNext]_vars
             PROVE  CopiesInv'
    OBVIOUS
<1>0. /\ HandlerInv /\ Apart /\ SuppliedCopies /\ PinnedWhole
      BY OwnersApart DEF CopiesInv, OwnedInv
<1>1. OwnedInv' /\ SuppliedCopies' /\ supplied \subseteq supplied'
      BY <1>0, OwnersNext, CopiesNext DEF CopiesInv
<1>2. ASSUME NEW t \in Threads, PoolStep(t)
      PROVE  PinnedWhole'
      BY <1>0, <1>1, <1>2, PoolStepPinned DEF PinnedWhole
<1>3. ASSUME UNCHANGED <<opened, sessions_, sconn>>
      PROVE  PinnedWhole'
      BY <1>0, <1>1, <1>3 DEF PinnedWhole, Pinned
<1>4. ASSUME NEW t \in Threads, StreamStep(t)
      PROVE  PinnedWhole'
      BY <1>0, <1>3, <1>4, StreamStepEffect DEF OnConnection, StreamFrame, poolSlots
<1>5. ASSUME NEW t \in Threads, StoreStep(t)
      PROVE  PinnedWhole'
  <2>1. \A d \in Conn : Pinned(d)' =>
            \/ Pinned(d) /\ opened'[d] = opened[d]
            \/ opened'[d] = session_defaults_[t] /\ opened'[d] # NoCreds
        BY <1>0, <1>5, StoreStepOpened
  <2>2. session_defaults_[t] # NoCreds => session_defaults_[t] \in supplied
        BY <1>0 DEF SuppliedCopies
  <2> QED
      BY <1>0, <1>1, <2>1, <2>2 DEF PinnedWhole
<1>6. ASSUME (\E c \in Conn : BackendLost(c)) \/ UNCHANGED vars
      PROVE  PinnedWhole'
  <2>1. UNCHANGED <<poolVars, streamVars, sessions_>>
        BY <1>6 DEF BackendLost, vars
  <2> QED
      BY <1>3, <2>1 DEF poolVars, streamVars
<1>7. PinnedWhole'
      BY <1>2, <1>4, <1>5, <1>6, StepKinds
<1> QED
    BY <1>1, <1>7 DEF CopiesInv

\* Overlapping Connect RPCs may leave a pooled connection with a mixture of
\* their credentials, a pinned one never: those of one RPC go through
\* connect_params_ and QueryStream's copy to GetOrCreate, and no connection the
\* pool opened is ever pinned.
THEOREM PinnedCredentialsWhole == ShardSpec => []PinnedWhole
<1>1. ShardInit => CopiesInv
  <2> SUFFICES ASSUME ShardInit PROVE CopiesInv
      OBVIOUS
  <2>1. SuppliedCopies
        BY DEF ShardInit, PoolInit, SuppliedCopies
  <2>2. PinnedWhole
        BY ConstantsAssumption DEF ShardInit, PinnedWhole, Pinned
  <2> QED
      BY <2>1, <2>2, OwnedInit DEF CopiesInv
<1>2. CopiesInv => PinnedWhole
      BY DEF CopiesInv
<1> QED
    BY <1>1, <1>2, CopiesInvNext, PTL DEF ShardSpec

-----------------------------------------------------------------------------
(***************************************************************************)
(* How many connections are open.                                          *)
(***************************************************************************)

\* A function has at most as many values on a finite set as the set has members.
LEMMA ImageBound ==
    ASSUME NEW S, IsFiniteSet(S), NEW f
    PROVE  /\ IsFiniteSet({f[x] : x \in S})
           /\ Cardinality({f[x] : x \in S}) \in Nat /\ Cardinality(S) \in Nat
           /\ Cardinality({f[x] : x \in S}) <= Cardinality(S)
<1> DEFINE T == {f[x] : x \in S}
           g == [x \in S |-> f[x]]
<1>1. g \in Surjection(S, T)
      BY DEF Surjection
<1> HIDE DEF T, g
<1>2. IsFiniteSet(T) /\ Cardinality(T) <= Cardinality(S)
      BY <1>1, FS_Surjection
<1>3. Cardinality(T) \in Nat /\ Cardinality(S) \in Nat
      BY <1>2, FS_CardinalityType
<1> QED
    BY <1>2, <1>3 DEF T

\* The members of a union of two finite sets are at most those of both.
LEMMA UnionBound ==
    ASSUME NEW S, IsFiniteSet(S), NEW T, IsFiniteSet(T)
    PROVE  /\ IsFiniteSet(S \cup T)
           /\ Cardinality(S \cup T) \in Nat /\ Cardinality(S) \in Nat /\ Cardinality(T) \in Nat
           /\ Cardinality(S \cup T) <= Cardinality(S) + Cardinality(T)
<1>1. IsFiniteSet(S \cup T) /\ IsFiniteSet(S \cap T)
      BY FS_Union, FS_Subset
<1>2. /\ Cardinality(S \cup T) \in Nat /\ Cardinality(S \cap T) \in Nat
      /\ Cardinality(S) \in Nat /\ Cardinality(T) \in Nat
      BY <1>1, FS_CardinalityType
<1>3. Cardinality(S \cup T) = Cardinality(S) + Cardinality(T) - Cardinality(S \cap T)
      BY FS_Union
<1> QED
    BY SMT, <1>1, <1>2, <1>3

\* Lemma: the positions of a sequence of length n, as many as idle_ has.
LEMMA IntervalSize ==
    ASSUME NEW n \in Nat
    PROVE  IsFiniteSet(1..n) /\ Cardinality(1..n) = n
<1>1. 1 \in Int /\ n \in Int
      BY SMT
<1>2. /\ IsFiniteSet(1..n)
      /\ Cardinality(1..n) = IF 1 > n THEN 0 ELSE n - 1 + 1
      BY Zenon, <1>1, FS_Interval
<1>3. (IF 1 > n THEN 0 ELSE n - 1 + 1) = n
      BY SMT
<1> QED
    BY SMT, <1>2, <1>3

\* Every open connection is idle, in the hands of a holder of a slot, in the
\* store or in the hands of a stranded handler; each of these has at most one.
LEMMA OpenCounted ==
    ASSUME OwnedInv, SlotsOwnedOrLeaked
    PROVE  /\ IsFiniteSet(OpenConnections) /\ Cardinality(OpenConnections) \in Nat
           /\ Cardinality(Stranded) \in Nat /\ Size(sessions_) \in Nat
           /\ Cardinality(OpenConnections) + leaked
                 <= in_use_ + Len(idle_) + Size(sessions_) + Cardinality(Stranded)
<1>0. /\ HandlerInv /\ Apart
      /\ idle_ \in Seq(Conn)
      /\ conn \in [Threads -> Conn \cup {NoConn}]
      /\ sconn \in [Threads -> Conn \cup {NoConn}]
      /\ sessions_ \in [Sessions -> Conn \cup {NoConn}]
      /\ NoConn \notin Conn
      /\ Places
      BY OwnersApart, OwnerTypes DEF OwnedInv
<1> DEFINE I == {idle_[i] : i \in 1..Len(idle_)}
           L == {conn[t] : t \in Holders}
           P == {sessions_[s] : s \in Entries(sessions_)}
           X == {sconn[t] : t \in Stranded}
<1>1. /\ IsFiniteSet(1..Len(idle_)) /\ Cardinality(1..Len(idle_)) = Len(idle_)
      /\ Len(idle_) \in Nat
  <2>1. Len(idle_) \in Nat
        BY SMT, <1>0
  <2> QED
      BY Zenon, <2>1, IntervalSize
<1>2. IsFiniteSet(Holders) /\ IsFiniteSet(Stranded)
  <2>1. Holders \subseteq Threads /\ Stranded \subseteq Threads
        BY DEF Holders, Stranded
  <2> QED
      BY <2>1, FS_Subset, ConstantsAssumption
<1>3. IsFiniteSet(Entries(sessions_)) /\ Cardinality(Entries(sessions_)) = Size(sessions_)
      BY EntriesFinite DEF Entries, Size
<1>4. OpenConnections \subseteq (I \cup L) \cup (P \cup X)
  <2> SUFFICES ASSUME NEW c \in Conn, opened[c] # NoCreds
               PROVE  c \in (I \cup L) \cup (P \cup X)
      BY DEF OpenConnections
  <2>0. c # NoConn /\ Range(idle_) = I /\ Range(sessions_) = {sessions_[s] : s \in Sessions}
    <3>1. DOMAIN idle_ = 1..Len(idle_)
          BY SMT, <1>0
    <3> QED
        BY <1>0, <3>1 DEF Range
  <2>1. \/ c \in Range(idle_)
        \/ \E t \in Threads : conn[t] = c \/ sconn[t] = c
        \/ \E s \in Sessions : sessions_[s] = c
        BY <1>0 DEF Apart
  <2>2. \A t \in Threads : conn[t] = c => t \in Holders
        BY <1>0, <2>0 DEF Places, Holders, Occupied
  <2>3. \A s \in Sessions : sessions_[s] = c => s \in Entries(sessions_)
        BY <2>0 DEF Entries
  <2>4. \A t \in Threads : sconn[t] = c => t \in Stranded \/ \E s \in Sessions : sessions_[s] = c
        BY <2>0 DEF Stranded
  <2> QED
      BY <2>0, <2>1, <2>2, <2>3, <2>4
<1>5. /\ IsFiniteSet(I) /\ Cardinality(I) <= Len(idle_)
      /\ IsFiniteSet(L) /\ Cardinality(L) <= Cardinality(Holders)
      /\ IsFiniteSet(P) /\ Cardinality(P) <= Size(sessions_)
      /\ IsFiniteSet(X) /\ Cardinality(X) <= Cardinality(Stranded)
      /\ Cardinality(Holders) \in Nat /\ Size(sessions_) \in Nat /\ Cardinality(Stranded) \in Nat
  <2>1. IsFiniteSet(I) /\ Cardinality(I) <= Len(idle_)
        BY <1>1, ImageBound
  <2>2. /\ IsFiniteSet(L) /\ Cardinality(L) <= Cardinality(Holders)
        /\ Cardinality(Holders) \in Nat
        BY <1>2, ImageBound
  <2>3. /\ IsFiniteSet(P) /\ Cardinality(P) <= Size(sessions_)
        /\ Size(sessions_) \in Nat
        BY <1>3, ImageBound
  <2>4. /\ IsFiniteSet(X) /\ Cardinality(X) <= Cardinality(Stranded)
        /\ Cardinality(Stranded) \in Nat
        BY <1>2, ImageBound
  <2> QED
      BY <2>1, <2>2, <2>3, <2>4
<1> HIDE DEF I, L, P, X
<1>6. /\ IsFiniteSet(I \cup L) /\ IsFiniteSet(P \cup X) /\ IsFiniteSet((I \cup L) \cup (P \cup X))
      /\ Cardinality((I \cup L) \cup (P \cup X)) \in Nat
      /\ Cardinality((I \cup L) \cup (P \cup X)) <= Cardinality(I \cup L) + Cardinality(P \cup X)
      BY <1>5, UnionBound
<1>7. /\ Cardinality(I) \in Nat /\ Cardinality(L) \in Nat /\ Cardinality(I \cup L) \in Nat
      /\ Cardinality(I \cup L) <= Cardinality(I) + Cardinality(L)
      BY <1>5, UnionBound
<1>8. /\ Cardinality(P) \in Nat /\ Cardinality(X) \in Nat /\ Cardinality(P \cup X) \in Nat
      /\ Cardinality(P \cup X) <= Cardinality(P) + Cardinality(X)
      BY <1>5, UnionBound
<1>9. /\ IsFiniteSet(OpenConnections) /\ Cardinality(OpenConnections) \in Nat
      /\ Cardinality(OpenConnections) <= Cardinality((I \cup L) \cup (P \cup X))
      BY <1>4, <1>6, FS_Subset, FS_CardinalityType
<1>10. leaked \in Nat /\ in_use_ \in Int
       BY DEF OwnedInv, HandlerInv, ShardTypeOK, TypeOK
<1> DEFINE open == Cardinality(OpenConnections)
           held == Cardinality(Holders)
           left == Cardinality(Stranded)
           size == Size(sessions_)
           len == Len(idle_)
           il == Cardinality(I \cup L)
           px == Cardinality(P \cup X)
<1>11. /\ open \in Nat /\ held \in Nat /\ left \in Nat /\ size \in Nat /\ len \in Nat
       /\ leaked \in Nat /\ in_use_ \in Int
       BY <1>1, <1>5, <1>9, <1>10
<1>12. il \in Nat /\ il <= len + held
       BY SMTT(30), <1>1, <1>5, <1>7
<1>13. px \in Nat /\ px <= size + left
       BY SMTT(30), <1>5, <1>8
<1>14. open <= il + px
  <2> DEFINE all == Cardinality((I \cup L) \cup (P \cup X))
  <2>1. open <= all /\ all <= il + px /\ all \in Nat
        BY <1>6, <1>9
  <2> HIDE DEF all, open, il, px
  <2> QED
      BY SMTT(30), <1>11, <1>12, <1>13, <2>1
<1>15. in_use_ = held + leaked
       BY DEF SlotsOwnedOrLeaked
<1>16. open + leaked <= in_use_ + len + size + left
  <2> HIDE DEF open, held, left, size, len, il, px
  <2> QED
      BY SMTT(30), <1>11, <1>12, <1>13, <1>14, <1>15
<1> QED
    BY <1>9, <1>11, <1>16

\* MTDD_POOL_SIZE and MTDD_MAX_SESSIONS bound the connections to PostgreSQL, up
\* to one for each Connect RPC that warmed the pool and one for each stream
\* still running in a session the store gave up; a leaked slot takes the place
\* of a connection.
THEOREM ConnectionsBudgeted == ShardSpec => []ConnectionBudget
<1>1. ASSUME OwnedInv, SlotsOwnedOrLeaked, SessionsBounded, CapacityBound
      PROVE  ConnectionBudget
  <2>1. /\ Cardinality(OpenConnections) \in Nat
        /\ Cardinality(Stranded) \in Nat /\ Size(sessions_) \in Nat
        /\ Cardinality(OpenConnections) + leaked
              <= in_use_ + Len(idle_) + Size(sessions_) + Cardinality(Stranded)
        BY <1>1, OpenCounted
  <2>2. leaked \in Nat /\ in_use_ \in Int /\ warmed \in Nat
        BY <1>1 DEF OwnedInv, HandlerInv, ShardTypeOK, TypeOK
  <2>3. Len(idle_) \in Nat /\ pool_size_ \in Nat /\ pool_size_ > 0 /\ max_sessions_ \in Nat
    <3>1. idle_ \in Seq(Conn)
          BY <1>1, OwnerTypes DEF OwnedInv
    <3> QED
        BY SMT, <3>1, ConstantsAssumption, ShardAssumption DEF pool_size_, max_sessions_
  <2> HIDE DEF pool_size_, max_sessions_
  <2> QED
      BY SMTT(30), <1>1, <2>1, <2>2, <2>3 DEF ConnectionBudget, SessionsBounded, CapacityBound
<1> QED
    BY <1>1, OwnersUnique, SlotsOwned, SessionStoreBounded, PoolBoundedInService, PTL
=============================================================================
