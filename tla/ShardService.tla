----------------------------- MODULE ShardService -----------------------------
(***************************************************************************)
(* The query path of MtddShardServiceImpl: the Connect and QueryStream     *)
(* RPCs, the StreamingQuery each QueryStream runs, the SessionStore of     *)
(* pinned connections and the shared pool (module ConnectionManager).      *)
(*                                                                         *)
(* Handler threads interleave between critical sections: those of the      *)
(* pool's mutex, of the session store's mutex and of the mutex each        *)
(* PqConnection carries.  PostgreSQL is external: a connection is alive or *)
(* not, and has a transaction state and open cursors, as libpq reports     *)
(* them (PQstatus, PQtransactionStatus, the status of each result).        *)
(***************************************************************************)
EXTENDS ConnectionManager

CONSTANTS
    Sessions,       \* the session_id values clients use
    NoSession,      \* the empty session_id
    MaxSessions,    \* MTDD_MAX_SESSIONS
    PooledSql,      \* kinds of statement sent without a session_id
    SessionSql,     \* kinds of statement sent with one
    SqlErrors,      \* where PostgreSQL may reject a well-placed statement
    MaxBackendLosses  \* bound: backends that go away

\* Kinds of statement.  "rows" is what IsTupleStreamingSql accepts and runs
\* through a cursor; the others run at once.  "begin" and "end" stand for the
\* client's own BEGIN and its COMMIT or ROLLBACK.
SqlKinds == {"rows", "write", "begin", "end"}

ASSUME ShardAssumption ==
    /\ NoSession \notin Sessions
    /\ IsFiniteSet(Sessions)
    /\ MaxSessions \in Int
    /\ PooledSql \subseteq SqlKinds
    /\ SessionSql \subseteq SqlKinds
    /\ SqlErrors \subseteq {"declare", "fetch", "exec"}
    /\ MaxBackendLosses \in Nat

VARIABLES
    rpc,                \* where each handler thread is
    sql,                \* kind of the statement its QueryStream runs
    session_id,         \* session_id of its request
    session_defaults_,  \* StreamingQuery::session_defaults_, read from connect_params_
    sconn,              \* StreamingQuery::connection_ when it is a pinned one
    started_local_txn_, \* StreamingQuery::started_local_txn_
    cursor_open_,       \* StreamingQuery::cursor_open_
    commit,             \* it leaves through Close (TRUE) or through Abort
    sessions_,          \* SessionStore::sessions_
    pg,                 \* transaction state and cursors of each connection
    dead,               \* connections whose backend is gone
    losses,             \* backends lost so far (bound)
    leaked,             \* history: slots of the pool that nobody will release
    shared              \* history: connections two streams used at once

streamVars == <<rpc, sql, session_id, session_defaults_, sconn, started_local_txn_,
                cursor_open_, commit>>
histVars == <<leaked, shared>>
vars == <<poolVars, streamVars, sessions_, pg, dead, losses,
          histVars>>

\* The pool's variables other than the health of connections.
poolSlots == <<connectVars, idle_, in_use_, pc, conn, seen, opened, acquires>>

max_sessions_ == IF MaxSessions > 0 THEN MaxSessions ELSE 1

Pooled(t) == session_id[t] = NoSession
connection_(t) == IF Pooled(t) THEN conn[t] ELSE sconn[t]

\* A handler that is inside EndTransaction under OpenCursor waits for the
\* connection's mutex, which it holds itself: neither it nor any other user
\* of the connection goes on.
Locked(c) == \E t \in Threads : rpc[t] = "relock" /\ connection_(t) = c

Streaming == {"begin", "declare", "relock", "exec", "loop", "closing", "ending",
              "releasing", "drop"}

\* Connections some shared_ptr refers to.
InUse == Referenced \cup {sconn[t] : t \in Threads} \cup Range(sessions_)

-----------------------------------------------------------------------------
(***************************************************************************)
(* PostgreSQL behind a connection (external).                              *)
(***************************************************************************)

\* A connection as PQconnectdb returns it.
Fresh == [txn |-> "IDLE", cursors |-> {}, explicit |-> FALSE]
Gone  == [txn |-> "UNKNOWN", cursors |-> {}, explicit |-> FALSE]

\* A statement on connection c succeeds and leaves its state at s.
Accepts(c, s) ==
    /\ c \notin dead
    /\ pg' = [pg EXCEPT ![c] = s]
    /\ UNCHANGED healthy

\* PostgreSQL rejects a statement: an open transaction fails.
Rejects(c) ==
    /\ c \notin dead
    /\ pg' = [pg EXCEPT ![c].txn = IF @ = "INTRANS" THEN "INERROR" ELSE @]
    /\ UNCHANGED healthy

\* A statement finds the backend gone: libpq marks the connection bad.
LinkDown(c) ==
    /\ c \in dead
    /\ pg' = [pg EXCEPT ![c] = Gone]
    /\ healthy' = healthy \ {c}

\* A backend is terminated; libpq does not know until the next statement.
BackendLost(c) ==
    /\ losses < MaxBackendLosses
    /\ opened[c] # NoCreds /\ c \notin dead
    /\ dead' = dead \cup {c}
    /\ losses' = losses + 1
    /\ UNCHANGED <<poolVars, streamVars, sessions_, pg, histVars>>

\* Connection c has been opened by thread t.
NewBackend(c) ==
    /\ pg' = [pg EXCEPT ![c] = Fresh]
    /\ UNCHANGED dead

\* Connection c has been closed: PQfinish in ~PqConnection.
EndBackend(c) ==
    /\ pg' = [pg EXCEPT ![c] = Fresh]
    /\ dead' = dead \ {c}

-----------------------------------------------------------------------------
ShardInit ==
    /\ PoolInit
    /\ rpc = [t \in Threads |-> "idle"]
    /\ sql = [t \in Threads |-> "rows"]
    /\ session_id = [t \in Threads |-> NoSession]
    /\ session_defaults_ = [t \in Threads |-> NoCreds]
    /\ sconn = [t \in Threads |-> NoConn]
    /\ started_local_txn_ = [t \in Threads |-> FALSE]
    /\ cursor_open_ = [t \in Threads |-> FALSE]
    /\ commit = [t \in Threads |-> FALSE]
    /\ sessions_ = [s \in Sessions |-> NoConn]
    /\ pg = [c \in Conn |-> Fresh]
    /\ dead = {}
    /\ losses = 0
    /\ leaked = 0
    /\ shared = {}

\* Thread t goes to label l of its handler, all other stream state unchanged.
Goto(t, l) ==
    /\ rpc' = [rpc EXCEPT ![t] = l]
    /\ UNCHANGED <<sql, session_id, session_defaults_, sconn, started_local_txn_,
                   cursor_open_, commit>>

\* The handler returns: its StreamingQuery and its locals are gone.
Return(t) ==
    /\ rpc' = [rpc EXCEPT ![t] = "idle"]
    /\ sql' = [sql EXCEPT ![t] = "rows"]
    /\ session_id' = [session_id EXCEPT ![t] = NoSession]
    /\ session_defaults_' = [session_defaults_ EXCEPT ![t] = NoCreds]
    /\ sconn' = [sconn EXCEPT ![t] = NoConn]
    /\ started_local_txn_' = [started_local_txn_ EXCEPT ![t] = FALSE]
    /\ cursor_open_' = [cursor_open_ EXCEPT ![t] = FALSE]
    /\ commit' = [commit EXCEPT ![t] = FALSE]

-----------------------------------------------------------------------------
(***************************************************************************)
(* The Connect RPC, step by step as in ConnectionManager.  Disconnect only *)
(* acknowledges and changes no state.                                      *)
(***************************************************************************)

ConnectRpc(t, p) ==
    /\ rpc[t] = "idle"
    /\ Configure(t, p) \/ WarmFail(t) \/ StoreParams(t)
    /\ UNCHANGED <<streamVars, sessions_, pg, dead, losses, histVars>>

ConnectWarmed(t, c) ==
    /\ WarmOk(t, c)
    /\ NewBackend(c)
    /\ UNCHANGED <<streamVars, sessions_, losses, histVars>>

-----------------------------------------------------------------------------
(***************************************************************************)
(* QueryStream up to StreamingQuery::AcquireConnection.                    *)
(***************************************************************************)

\* Where Open goes once it has a connection.
AfterAcquire(t) == IF sql[t] = "rows" THEN "begin" ELSE "exec"

QueryStream(t, k, s) ==
    /\ rpc[t] = "idle"
    /\ pc[t] = "out"
    /\ connect_params_ # NoCreds
    /\ k \in (IF s = NoSession THEN PooledSql ELSE SessionSql)
    /\ rpc' = [rpc EXCEPT ![t] = "open"]
    /\ sql' = [sql EXCEPT ![t] = k]
    /\ session_id' = [session_id EXCEPT ![t] = s]
    /\ session_defaults_' = [session_defaults_ EXCEPT ![t] = connect_params_]
    /\ IF s = NoSession THEN BeginAcquire(t)
       ELSE /\ acquires < MaxAcquires
            /\ acquires' = acquires + 1
            /\ UNCHANGED <<connectVars, idle_, in_use_, pc, conn, seen, opened,
                           healthy>>
    /\ UNCHANGED <<sconn, started_local_txn_, cursor_open_, commit, sessions_,
                   pg, dead, losses, histVars>>

\* Acquire waits, is released by chance, or reserves a slot.
AcquirePending(t) ==
    /\ rpc[t] = "open" /\ Pooled(t)
    /\ Sleep(t) \/ Reserve(t)
    /\ UNCHANGED <<streamVars, sessions_, pg, dead, losses, histVars>>

AcquireSpurious(t) ==
    /\ rpc[t] = "open"
    /\ SpuriousWakeup(t)
    /\ UNCHANGED <<streamVars, sessions_, pg, dead, losses, histVars>>

AcquireIdle(t) ==
    /\ rpc[t] = "open" /\ Pooled(t)
    /\ TakeIdle(t)
    /\ Goto(t, AfterAcquire(t))
    /\ UNCHANGED <<sessions_, pg, dead, losses, histVars>>

AcquireCreated(t, c) ==
    /\ rpc[t] = "open" /\ Pooled(t)
    /\ CreateOk(t, c)
    /\ NewBackend(c)
    /\ Goto(t, AfterAcquire(t))
    /\ UNCHANGED <<sessions_, losses, histVars>>

\* "failed to acquire database connection": ERROR chunk, the RPC ends.
AcquireFailed(t) ==
    /\ rpc[t] = "open" /\ Pooled(t)
    /\ CreateFail(t)
    /\ Return(t)
    /\ UNCHANGED <<sessions_, pg, dead, losses, histVars>>

-----------------------------------------------------------------------------
(***************************************************************************)
(* SessionStore::GetOrCreate, one critical section of the store's mutex    *)
(* (PqConnection::Connect is called with the mutex held).                  *)
(***************************************************************************)

\* Somebody other than thread t and the store refers to connection c.
HeldByOther(t, c) == \E u \in Threads \ {t} : sconn[u] = c

\* The store with the entry of s erased when its connection is bad.
Erased(s) ==
    IF sessions_[s] # NoConn /\ sessions_[s] \notin healthy
    THEN [sessions_ EXCEPT ![s] = NoConn] ELSE sessions_

Size(f) == Cardinality({s \in Sessions : f[s] # NoConn})

\* Mutant of StoreConnections: erasing an entry closes its connection although
\* a stream may still run in it.
StoreConnectionsCloses(t, s, c) ==
    LET old == IF Erased(s) # sessions_ THEN {sessions_[s]} ELSE {}
    IN  /\ opened' = [d \in Conn |-> IF d = c THEN session_defaults_[t]
                                     ELSE IF d \in old THEN NoCreds ELSE opened[d]]
        /\ healthy' = (healthy \ old) \cup ({c} \cap Conn)
        /\ pg' = [d \in Conn |-> IF d = c \/ d \in old THEN Fresh ELSE pg[d]]
        /\ dead' = dead \ old
        /\ shared' = shared \ old
        /\ UNCHANGED <<connectVars, idle_, in_use_, pc, conn, seen, acquires, losses,
                       leaked>>

\* The effect on connections of erasing the entry of s, and of opening new
\* connection c (or none: NoConn) for thread t.
StoreConnections(t, s, c) ==
    LET old == IF Erased(s) # sessions_ /\ ~HeldByOther(t, sessions_[s])
               THEN {sessions_[s]} ELSE {}
    IN  /\ opened' = [d \in Conn |-> IF d = c THEN session_defaults_[t]
                                     ELSE IF d \in old THEN NoCreds ELSE opened[d]]
        /\ healthy' = (healthy \ old) \cup ({c} \cap Conn)
        /\ pg' = [d \in Conn |-> IF d = c \/ d \in old THEN Fresh ELSE pg[d]]
        /\ dead' = dead \ old
        /\ shared' = shared \ old
        /\ UNCHANGED <<connectVars, idle_, in_use_, pc, conn, seen, acquires, losses,
                       leaked>>

SessionFound(t) ==
    LET s == session_id[t] IN
    /\ rpc[t] = "open" /\ ~Pooled(t)
    /\ sessions_[s] \in healthy
    /\ rpc' = [rpc EXCEPT ![t] = AfterAcquire(t)]
    /\ sconn' = [sconn EXCEPT ![t] = sessions_[s]]
    /\ shared' = shared \cup {c \in {sessions_[s]} : HeldByOther(t, c)}
    /\ UNCHANGED <<poolVars, sql, session_id, session_defaults_, started_local_txn_, cursor_open_,
                   commit, sessions_, pg, dead, losses, leaked>>

\* Mutant of SessionCreated: > where the limit test has >=.
SessionCreatedOneMore(t, c) ==
    LET s == session_id[t] IN
    /\ rpc[t] = "open" /\ ~Pooled(t)
    /\ sessions_[s] \notin healthy
    /\ Size(Erased(s)) <= max_sessions_
    /\ StoreConnections(t, s, c)
    /\ sessions_' = [sessions_ EXCEPT ![s] = c]
    /\ rpc' = [rpc EXCEPT ![t] = AfterAcquire(t)]
    /\ sconn' = [sconn EXCEPT ![t] = c]
    /\ UNCHANGED <<sql, session_id, session_defaults_, started_local_txn_, cursor_open_, commit>>

SessionCreated(t, c) ==
    LET s == session_id[t] IN
    /\ rpc[t] = "open" /\ ~Pooled(t)
    /\ sessions_[s] \notin healthy
    /\ Size(Erased(s)) < max_sessions_
    /\ StoreConnections(t, s, c)
    /\ sessions_' = [sessions_ EXCEPT ![s] = c]
    /\ rpc' = [rpc EXCEPT ![t] = AfterAcquire(t)]
    /\ sconn' = [sconn EXCEPT ![t] = c]
    /\ UNCHANGED <<sql, session_id, session_defaults_, started_local_txn_, cursor_open_, commit>>

\* "session limit exceeded", or PqConnection::Connect failed: ERROR chunk.  The
\* bad entry is gone either way.
SessionRefused(t) ==
    LET s == session_id[t] IN
    /\ rpc[t] = "open" /\ ~Pooled(t)
    /\ sessions_[s] \notin healthy
    /\ StoreConnections(t, s, NoConn)
    /\ sessions_' = Erased(s)
    /\ Return(t)

-----------------------------------------------------------------------------
(***************************************************************************)
(* StreamingQuery::Open after AcquireConnection.  Each action is a         *)
(* critical section of the connection's mutex.                             *)
(***************************************************************************)

\* What a step on the connection leaves alone.
StreamFrame == UNCHANGED <<poolSlots, sessions_, dead, losses,
                           histVars>>

\* Mutant of BeginIfNeeded: a transaction that was open already counts as its own.
BeginClaimsTransaction(t) ==
    LET c == connection_(t) IN
    /\ rpc[t] = "begin" /\ ~Locked(c)
    /\ pg[c].txn \in {"IDLE", "INTRANS"}
    /\ Accepts(c, [pg[c] EXCEPT !.txn = "INTRANS"])
    /\ started_local_txn_' = [started_local_txn_ EXCEPT ![t] = TRUE]
    /\ rpc' = [rpc EXCEPT ![t] = "declare"]
    /\ UNCHANGED <<sql, session_id, session_defaults_, sconn, cursor_open_, commit>>
    /\ StreamFrame

BeginIfNeeded(t) ==
    LET c == connection_(t) IN
    /\ rpc[t] = "begin" /\ ~Locked(c)
    /\ \/ /\ pg[c].txn = "IDLE"
          /\ Accepts(c, [pg[c] EXCEPT !.txn = "INTRANS"])
          /\ started_local_txn_' = [started_local_txn_ EXCEPT ![t] = TRUE]
          /\ rpc' = [rpc EXCEPT ![t] = "declare"]
          /\ UNCHANGED <<sql, session_id, session_defaults_, sconn, cursor_open_, commit>>
       \/ /\ pg[c].txn = "IDLE"
          /\ LinkDown(c)
          /\ Goto(t, "drop")
       \/ /\ pg[c].txn = "INERROR"
          /\ Goto(t, "drop")
          /\ UNCHANGED <<pg, healthy>>
       \/ /\ pg[c].txn \in {"INTRANS", "UNKNOWN"}
          /\ Goto(t, "declare")
          /\ UNCHANGED <<pg, healthy>>
    /\ StreamFrame

\* Mutant of DeclareCursor: the status of the result is not looked at.
DeclareUnchecked(t) ==
    LET c == connection_(t) IN
    /\ rpc[t] = "declare" /\ ~Locked(c)
    /\ \/ /\ pg[c].txn = "INTRANS"
          /\ Accepts(c, [pg[c] EXCEPT !.cursors = @ \cup {t}])
       \/ LinkDown(c)
       \/ Rejects(c) /\ (pg[c].txn # "INTRANS" \/ "declare" \in SqlErrors)
    /\ cursor_open_' = [cursor_open_ EXCEPT ![t] = TRUE]
    /\ rpc' = [rpc EXCEPT ![t] = "loop"]
    /\ UNCHANGED <<sql, session_id, session_defaults_, sconn, started_local_txn_, commit>>
    /\ StreamFrame

\* DECLARE needs an open transaction.  When it fails OpenCursor calls
\* EndTransaction with the connection's mutex held: EndTransaction returns at
\* once if no local transaction was started, else it locks the mutex again.
DeclareCursor(t) ==
    LET c == connection_(t) IN
    /\ rpc[t] = "declare" /\ ~Locked(c)
    /\ \/ /\ pg[c].txn = "INTRANS"
          /\ Accepts(c, [pg[c] EXCEPT !.cursors = @ \cup {t}])
          /\ cursor_open_' = [cursor_open_ EXCEPT ![t] = TRUE]
          /\ rpc' = [rpc EXCEPT ![t] = "loop"]
          /\ UNCHANGED <<sql, session_id, session_defaults_, sconn, started_local_txn_, commit>>
       \/ /\ \/ LinkDown(c)
             \/ Rejects(c) /\ (pg[c].txn # "INTRANS" \/ "declare" \in SqlErrors)
          /\ Goto(t, IF started_local_txn_[t] THEN "relock" ELSE "drop")
    /\ StreamFrame

\* What an immediate statement of kind k makes of an accepting connection.
AfterSql(k, s) ==
    CASE k = "begin" -> [s EXCEPT !.txn = "INTRANS", !.explicit = TRUE]
      [] k = "end"   -> Fresh
      [] OTHER       -> s

\* On failure ExecuteImmediate gives the connection back as broken.
ExecuteImmediate(t) ==
    LET c == connection_(t) IN
    /\ rpc[t] = "exec" /\ ~Locked(c)
    /\ \/ /\ pg[c].txn # "INERROR" \/ sql[t] = "end"
          /\ Accepts(c, AfterSql(sql[t], pg[c]))
          /\ Goto(t, "loop")
       \/ /\ \/ LinkDown(c)
             \/ /\ Rejects(c)
                /\ pg[c].txn = "INERROR" \/ "exec" \in SqlErrors
                /\ sql[t] # "end"
          /\ Goto(t, "releasing")
    /\ StreamFrame

-----------------------------------------------------------------------------
(***************************************************************************)
(* The loop of QueryStream.  Rows already sent leave no trace here: the    *)
(* loop ends with the TRAILER written and Close, or with Abort.            *)
(***************************************************************************)

Leave(t, ok) ==
    /\ rpc' = [rpc EXCEPT ![t] = "closing"]
    /\ commit' = [commit EXCEPT ![t] = ok]
    /\ UNCHANGED <<sql, session_id, session_defaults_, sconn, started_local_txn_, cursor_open_>>

\* The client cancelled, a write failed, or encoding threw an exception.
Interrupted(t) ==
    /\ rpc[t] = "loop"
    /\ Leave(t, FALSE)
    /\ UNCHANGED <<healthy, pg>>
    /\ StreamFrame

\* FETCH needs the cursor and a transaction that has not failed.  A FETCH that
\* returned rows changes nothing here and is followed by another one, so this
\* is the last FETCH of the loop.
FetchCursor(t) ==
    LET c == connection_(t) IN
    /\ rpc[t] = "loop" /\ sql[t] = "rows" /\ ~Locked(c)
    /\ \/ /\ t \in pg[c].cursors /\ pg[c].txn = "INTRANS"
          /\ Accepts(c, pg[c])
          /\ Leave(t, TRUE)
       \/ /\ \/ LinkDown(c)
             \/ /\ Rejects(c)
                /\ \/ t \notin pg[c].cursors
                   \/ pg[c].txn # "INTRANS"
                   \/ "fetch" \in SqlErrors
          /\ Leave(t, FALSE)
    /\ StreamFrame

\* The result of an immediate statement is sent.
FetchImmediate(t) ==
    /\ rpc[t] = "loop" /\ sql[t] # "rows"
    /\ Leave(t, TRUE)
    /\ UNCHANGED <<healthy, pg>>
    /\ StreamFrame

-----------------------------------------------------------------------------
(***************************************************************************)
(* StreamingQuery::Close and Abort: CLOSE, then COMMIT or ROLLBACK of a    *)
(* transaction the stream started, then ReleaseConnection.                 *)
(***************************************************************************)

\* CLOSE fails for a cursor that is gone, and a failure fails an open
\* transaction; the result is ignored.
CloseCursor(t) ==
    LET c == connection_(t) IN
    /\ rpc[t] = "closing"
    /\ \/ /\ ~cursor_open_[t]
          /\ UNCHANGED <<pg, healthy>>
       \/ /\ cursor_open_[t] /\ ~Locked(c)
          /\ \/ /\ t \in pg[c].cursors /\ pg[c].txn = "INTRANS"
                /\ Accepts(c, [pg[c] EXCEPT !.cursors = @ \ {t}])
             \/ /\ ~(t \in pg[c].cursors /\ pg[c].txn = "INTRANS")
                /\ Rejects(c)
             \/ LinkDown(c)
    /\ cursor_open_' = [cursor_open_ EXCEPT ![t] = FALSE]
    /\ rpc' = [rpc EXCEPT ![t] = "ending"]
    /\ UNCHANGED <<sql, session_id, session_defaults_, sconn, started_local_txn_, commit>>
    /\ StreamFrame

\* Mutant of EndTransaction: the flag is cleared and nothing is sent.
EndTransactionUnsent(t) ==
    /\ rpc[t] = "ending"
    /\ started_local_txn_' = [started_local_txn_ EXCEPT ![t] = FALSE]
    /\ rpc' = [rpc EXCEPT ![t] = "releasing"]
    /\ UNCHANGED <<pg, healthy, sql, session_id, session_defaults_, sconn, cursor_open_, commit>>
    /\ StreamFrame

\* COMMIT and ROLLBACK end whatever transaction the connection is in.
EndTransaction(t) ==
    LET c == connection_(t) IN
    /\ rpc[t] = "ending"
    /\ \/ ~started_local_txn_[t] /\ UNCHANGED <<pg, healthy>>
       \/ /\ started_local_txn_[t] /\ ~Locked(c)
          /\ Accepts(c, Fresh) \/ LinkDown(c)
    /\ started_local_txn_' = [started_local_txn_ EXCEPT ![t] = FALSE]
    /\ rpc' = [rpc EXCEPT ![t] = "releasing"]
    /\ UNCHANGED <<sql, session_id, session_defaults_, sconn, cursor_open_, commit>>
    /\ StreamFrame

\* Mutant of ReleasePooled: connection_.reset() without pool_->Release.
ResetPooled(t) ==
    /\ rpc[t] = "releasing" /\ Pooled(t)
    /\ Destroy(conn[t])
    /\ EndBackend(conn[t])
    /\ conn' = [conn EXCEPT ![t] = NoConn]
    /\ pc' = [pc EXCEPT ![t] = "out"]
    /\ Return(t)
    /\ UNCHANGED <<connectVars, idle_, in_use_, seen, acquires, sessions_, losses,
                   histVars>>

ReleasePooled(t) ==
    /\ rpc[t] = "releasing" /\ Pooled(t)
    /\ Release(t, ~commit[t])
    /\ IF idle_' = idle_ THEN EndBackend(conn[t]) ELSE UNCHANGED <<pg, dead>>
    /\ Return(t)
    /\ UNCHANGED <<sessions_, losses, histVars>>

\* Mutant of ReleasePinned: a pinned connection is given to the pool.
ReleasePinnedToPool(t) ==
    /\ rpc[t] \in {"releasing", "drop"} /\ ~Pooled(t)
    /\ idle_' = Append(idle_, sconn[t])
    /\ Return(t)
    /\ UNCHANGED <<connectVars, in_use_, pc, conn, seen, opened, healthy, acquires,
                   sessions_, pg, dead, losses, histVars>>

\* connection_.reset() of a pinned connection: the store keeps it, unless a
\* later GetOrCreate erased it and this was the last reference.
ReleasePinned(t) ==
    LET c == sconn[t]
        last == c \notin Range(sessions_) /\ ~HeldByOther(t, c)
    IN  /\ rpc[t] \in {"releasing", "drop"} /\ ~Pooled(t)
        /\ IF last THEN Destroy(c) /\ EndBackend(c) /\ shared' = shared \ {c}
                   ELSE UNCHANGED <<opened, healthy, pg, dead, shared>>
        /\ Return(t)
        /\ UNCHANGED <<connectVars, idle_, in_use_, pc, conn, seen, acquires,
                       sessions_, losses, leaked>>

\* OpenCursor failed: Open returns without ReleaseConnection and ~StreamingQuery
\* only drops the shared_ptr.  The connection is closed, its slot stays taken.
DropPooled(t) ==
    /\ rpc[t] = "drop" /\ Pooled(t)
    /\ Destroy(conn[t])
    /\ EndBackend(conn[t])
    /\ conn' = [conn EXCEPT ![t] = NoConn]
    /\ pc' = [pc EXCEPT ![t] = "out"]
    /\ leaked' = leaked + 1
    /\ Return(t)
    /\ UNCHANGED <<connectVars, idle_, in_use_, seen, acquires, sessions_, losses,
                   shared>>

-----------------------------------------------------------------------------
Unused == Conn \ InUse

\* The steps of a QueryStream that has begun.
HandlerStep(t) ==
    \/ AcquirePending(t)
    \/ AcquireIdle(t)
    \/ \E c \in Unused : AcquireCreated(t, c)
    \/ AcquireFailed(t)
    \/ SessionFound(t)
    \/ \E c \in Unused : SessionCreated(t, c)
    \/ SessionRefused(t)
    \/ BeginIfNeeded(t)
    \/ DeclareCursor(t)
    \/ ExecuteImmediate(t)
    \/ Interrupted(t)
    \/ FetchCursor(t)
    \/ FetchImmediate(t)
    \/ CloseCursor(t)
    \/ EndTransaction(t)
    \/ ReleasePooled(t)
    \/ ReleasePinned(t)
    \/ DropPooled(t)

ShardNext ==
    \/ \E t \in Threads :
         \/ \E p \in ClientCreds : ConnectRpc(t, p)
         \/ \E c \in Unused : ConnectWarmed(t, c)
         \/ \E k \in SqlKinds, s \in Sessions \cup {NoSession} : QueryStream(t, k, s)
         \/ AcquireSpurious(t)
         \/ HandlerStep(t)
    \/ \E c \in Conn : BackendLost(c)

ShardSpec == ShardInit /\ [][ShardNext]_vars

(***************************************************************************)
(* Fairness: a handler whose next step is not blocked takes it (its thread *)
(* is scheduled, PostgreSQL answers each statement, a connect ends within  *)
(* the connect timeout).  Clients need not send or cancel anything.        *)
(***************************************************************************)
ShardFairSpec == ShardSpec /\ \A t \in Threads : WF_vars(HandlerStep(t))

-----------------------------------------------------------------------------
\* Type invariant of the handlers, the session store and PostgreSQL.
ShardTypeOK ==
    /\ TypeOK
    /\ rpc \in [Threads -> {"idle", "open"} \cup Streaming]
    /\ sql \in [Threads -> SqlKinds]
    /\ session_id \in [Threads -> Sessions \cup {NoSession}]
    /\ session_defaults_ \in [Threads -> Creds \cup {NoCreds}]
    /\ sconn \in [Threads -> Conn \cup {NoConn}]
    /\ started_local_txn_ \in [Threads -> BOOLEAN]
    /\ cursor_open_ \in [Threads -> BOOLEAN]
    /\ commit \in [Threads -> BOOLEAN]
    /\ sessions_ \in [Sessions -> Conn \cup {NoConn}]
    /\ pg \in [Conn -> [txn : {"IDLE", "INTRANS", "INERROR", "UNKNOWN"},
                        cursors : SUBSET Threads, explicit : BOOLEAN]]
    /\ dead \in SUBSET Conn
    /\ losses \in Nat
    /\ leaked \in Nat
    /\ shared \in SUBSET Conn

\* Every slot of the pool is owned by a handler or was lost by one particular
\* path: OpenCursor failing on a pooled connection (streaming_query.cpp:267).
\* Close, Abort, a failed ExecuteImmediate and a failed Acquire return theirs.
SlotsOwnedOrLeaked == in_use_ = Cardinality(Holders) + leaked

\* A connection belongs to the pool, to one pooled stream or to one session:
\* pinned connections never reach idle_, and exactly the connections somebody
\* refers to are open.
PinnedApart ==
    /\ \A s \in Sessions : sessions_[s] \notin Referenced \ {NoConn}
    /\ \A t \in Threads : sconn[t] \notin Referenced \ {NoConn}
    /\ \A r, s \in Sessions : sessions_[r] = sessions_[s] /\ r # s => sessions_[r] = NoConn
    /\ \A c \in Conn : opened[c] # NoCreds <=> c \in InUse

\* What the pool lends out is clean: an idle connection is in no transaction
\* and has no cursor left over from the stream that used it before, when the
\* clients send BEGIN with a session_id only (PooledSql).
IdleClean == \A c \in Range(idle_) : pg[c] = Fresh

\* The cursor of a stream in its fetch loop is there, in a live transaction,
\* unless its backend is gone or two streams used its connection at once:
\* no other handler can fail its next FETCH.
CursorIntact ==
    \A t \in Threads :
        LET c == connection_(t) IN
        rpc[t] = "loop" /\ sql[t] = "rows" /\ c \notin dead \cup shared
            => t \in pg[c].cursors /\ pg[c].txn = "INTRANS"

\* The transaction a client began with BEGIN ends only with the client's own
\* COMMIT or ROLLBACK or with its backend: the COMMIT or ROLLBACK a cursor
\* stream sends never ends it, unless two streams used the session at once.
ClientTxnPreserved ==
    [][\A c \in Conn :
          pg[c].explicit /\ ~pg'[c].explicit
            => \/ c \in dead \cup shared
               \/ \E t \in Threads : /\ rpc[t] = "exec" /\ rpc'[t] = "loop"
                                     /\ sql[t] = "end" /\ connection_(t) = c]_vars

\* The store never holds more than MTDD_MAX_SESSIONS connections.
SessionsBounded == Size(sessions_) <= max_sessions_

\* The connections this server has to PostgreSQL, and the handlers that still
\* run in a session whose entry GetOrCreate has erased.
OpenConnections == {c \in Conn : opened[c] # NoCreds}
Stranded == {t \in Threads : sconn[t] # NoConn /\ sconn[t] \notin Range(sessions_)}

\* What MTDD_POOL_SIZE and MTDD_MAX_SESSIONS bound together: the store is within
\* its limit, and the server has fewer connections open than the two settings,
\* the Connect RPCs that warmed one and the streams stranded in an erased
\* session add up to.  A leaked slot counts as a connection: it is lost to the
\* pool for good.
ConnectionBudget ==
    /\ SessionsBounded
    /\ Cardinality(OpenConnections) + leaked
          < pool_size_ + warmed + max_sessions_ + Cardinality(Stranded)

\* What a failed Open costs, when the clients send BEGIN with a session_id only
\* (PooledSql): the slots of the pool are owned or leaked, each lost backend
\* leaks at most one, and a handler hangs in OpenCursor only if PostgreSQL
\* rejected its SELECT, or its backend is gone or two streams used its
\* connection at once.
DamageBounded ==
    /\ SlotsOwnedOrLeaked
    /\ leaked <= losses
    /\ \A t \in Threads : rpc[t] = "relock" =>
          "declare" \in SqlErrors \/ connection_(t) \in dead \cup shared

-----------------------------------------------------------------------------
(***************************************************************************)
(* The life of a connection, as ConnectionLife sees it.                    *)
(***************************************************************************)

PlaceOf ==
    [c \in Conn |->
        IF c \in Range(idle_) THEN "idle"
        ELSE IF \E t \in Threads : conn[t] = c THEN "lent"
        ELSE IF \E s \in Sessions : sessions_[s] = c THEN "pinned"
        ELSE IF \E t \in Threads : sconn[t] = c THEN "left"
        ELSE "closed"]

Life == INSTANCE ConnectionLife WITH
    Borrowers <- Threads,
    place <- PlaceOf,
    lent <- conn,
    pinned <- sessions_,
    creds <- opened

\* The handlers, the pool and the store implement ConnectionLife: a connection
\* goes from one place to the next as it promises, is closed only by the one
\* who has it last, and keeps its credentials until then.
ImplementsConnectionLife == Life!Spec

-----------------------------------------------------------------------------
\* "Control chunks: `SCHEMA` ..., `TRAILER` (`ResultTrailer`), or `ERROR`"
\* (docs/OPERATIONS.md:74) and "gRPC drains in-flight RPCs then exits"
\* (docs/OPERATIONS.md:176): a QueryStream comes to its TRAILER or ERROR and
\* returns, it does not hang.
EveryQueryAnswered ==
    \A t \in Threads : rpc[t] \in Streaming \cup {"open"} ~> rpc[t] = "idle"

\* Every QueryStream is answered whatever the interleaving of pooled and
\* session streams, cancellations and failing FETCHes and immediate statements,
\* as long as no two streams use one session at once.  Checked where no DECLARE
\* is rejected and no backend is lost: those are what EveryQueryAnswered fails on.
UnsharedQueriesAnswered ==
    \A t \in Threads :
        rpc[t] \in Streaming \cup {"open"} ~> rpc[t] = "idle" \/ shared # {}
=============================================================================
