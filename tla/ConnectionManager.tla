-------------------------- MODULE ConnectionManager --------------------------
(***************************************************************************)
(* The shared PostgreSQL connection pool (src/pg/connection_manager.cpp).  *)
(*                                                                         *)
(* Every critical section of mutex_ is one action.  Between two of them a  *)
(* thread is either asleep on cv_, or opening a connection with the mutex  *)
(* released, or holding a connection.  The borrowers are the handler       *)
(* threads of the gRPC server: a thread runs a Connect RPC (Configure and  *)
(* ConnectionManager::Connect) or borrows a connection with Acquire and    *)
(* gives it back with Release.                                             *)
(*                                                                         *)
(* params_ is read outside mutex_ (connection_manager.cpp:19 and :34)      *)
(* while Configure may be assigning it field by field: a thread that opens *)
(* a connection may see any mixture of the values params_ held meanwhile.  *)
(***************************************************************************)
EXTENDS Integers, Sequences, FiniteSets, Functions

CONSTANTS
    Threads,        \* handler threads of the gRPC server
    Conn,           \* identities of PqConnection objects
    NoConn,         \* the null shared_ptr
    Dbnames, Users, \* the values of two fields of ConnectParams
    ClientCreds,    \* the credentials the clients of this shard send
    NoCreds,        \* params_ before Configure; credentials of a closed connection
    PoolSize,       \* MTDD_POOL_SIZE, as Configure receives it
    MaxConnects,    \* bound: Connect RPCs
    MaxAcquires     \* bound: calls of Acquire

\* The fields of ConnectParams that a torn read can tell apart.
Creds == [dbname : Dbnames, user : Users]

ASSUME ConstantsAssumption ==
    /\ IsFiniteSet(Threads)
    /\ NoConn \notin Conn
    /\ NoCreds \notin Creds
    /\ ClientCreds \subseteq Creds
    /\ PoolSize \in Int
    /\ MaxConnects \in Nat
    /\ MaxAcquires \in Nat

VARIABLES
    params_,   \* ConnectionManager::params_
    connect_params_, \* MtddShardServiceImpl::connect_params_ (set with executor_)
    idle_,     \* ConnectionManager::idle_, a deque
    in_use_,   \* ConnectionManager::in_use_
    pc,        \* where each thread is in the pool's code
    conn,      \* the connection each thread has borrowed
    request,   \* the ConnectParams of the Connect RPC each thread runs
    seen,      \* the values of params_ an opening thread may read from
    opened,    \* the credentials each open connection was opened with
    healthy,   \* the connections whose PQstatus is CONNECTION_OK
    connects,  \* Connect RPCs begun (bound)
    acquires,  \* calls of Acquire begun (bound)
    warmed,    \* history: connections pushed to idle_ by Connect RPCs
    clean,     \* history: every Connect RPC succeeded and none overlapped another
    supplied   \* history: the credentials Connect RPCs have passed to Configure

\* What only the Connect RPC writes, and the rest.
connectVars == <<params_, connect_params_, request, connects, warmed, clean,
                 supplied>>
poolVars == <<connectVars, idle_, in_use_, pc, conn, seen, opened, healthy,
              acquires>>

(***************************************************************************)
(* Program counters.  "woken" is a thread that cv_ released and that has   *)
(* not yet taken the mutex back to look at the predicate again.            *)
(***************************************************************************)
Opening  == {"warming", "creating"}
Occupied == {"creating", "holding"}
PoolPC   == {"out", "storing", "acquire", "waiting", "woken"} \cup Opening \cup Occupied

At(l)    == {t \in Threads : pc[t] = l}
Sleeping == At("waiting")
Woken    == At("woken")
Holders  == {t \in Threads : pc[t] \in Occupied}

\* connection_manager.cpp:8
pool_size_ == IF PoolSize > 0 THEN PoolSize ELSE 1

\* What a thread that reads the fields of params_ one after the other may end
\* up with, when params_ went through the values of S meanwhile.
Mix(S) == [dbname : {p.dbname : p \in S}, user : {p.user : p \in S}]

\* The values pc may take when notify_one is called: some sleeping thread is
\* released, or nobody was asleep and the notification is lost.
NotifyOne(f) ==
    LET asleep == {u \in Threads : f[u] = "waiting"}
    IN  IF asleep = {} THEN {f} ELSE {[f EXCEPT ![u] = "woken"] : u \in asleep}

\* Connections some shared_ptr of the pool or of a borrower refers to.
Referenced == Range(idle_) \cup {conn[t] : t \in Threads}

PoolInit ==
    /\ params_ = NoCreds
    /\ connect_params_ = NoCreds
    /\ idle_ = <<>>
    /\ in_use_ = 0
    /\ pc = [t \in Threads |-> "out"]
    /\ conn = [t \in Threads |-> NoConn]
    /\ request = [t \in Threads |-> NoCreds]
    /\ seen = [t \in Threads |-> {}]
    /\ opened = [c \in Conn |-> NoCreds]
    /\ healthy = {}
    /\ connects = 0
    /\ acquires = 0
    /\ warmed = 0
    /\ clean = TRUE
    /\ supplied = {}

-----------------------------------------------------------------------------
(***************************************************************************)
(* The Connect RPC: Configure; then Connect, which opens a connection with *)
(* the mutex released and pushes it to idle_ without notifying cv_; then,  *)
(* under state_mutex_, the credentials QueryStream will hand to sessions.  *)
(***************************************************************************)

Connecting(t) == pc[t] \in {"warming", "storing"}

Configure(t, p) ==
    /\ pc[t] = "out"
    /\ connects < MaxConnects
    /\ connects' = connects + 1
    /\ params_' = p
    /\ request' = [request EXCEPT ![t] = p]
    /\ pc' = [pc EXCEPT ![t] = "warming"]
    /\ seen' = [u \in Threads |->
                   IF u = t THEN {p}
                   ELSE IF pc[u] \in Opening THEN seen[u] \cup {p} ELSE seen[u]]
    /\ clean' = (clean /\ \A u \in Threads : ~Connecting(u))
    /\ supplied' = supplied \cup {p}
    /\ UNCHANGED <<connect_params_, idle_, in_use_, conn, opened, healthy, acquires,
                   warmed>>

\* PqConnection::Connect succeeds for thread t: connection c is open.
Opens(t, c) ==
    /\ \E k \in Mix(seen[t]) : opened' = [opened EXCEPT ![c] = k]
    /\ healthy' = healthy \cup {c}
    /\ seen' = [seen EXCEPT ![t] = {}]

WarmOk(t, c) ==
    /\ pc[t] = "warming"
    /\ Opens(t, c)
    /\ idle_' = Append(idle_, c)
    /\ pc' = [pc EXCEPT ![t] = "storing"]
    /\ warmed' = warmed + 1
    /\ UNCHANGED <<params_, connect_params_, in_use_, conn, request, connects,
                   acquires, clean, supplied>>

\* Mutant of WarmFail: the null connection is pushed all the same.
WarmFailPushesNull(t) ==
    /\ pc[t] = "warming"
    /\ idle_' = Append(idle_, NoConn)
    /\ pc' = [pc EXCEPT ![t] = "out"]
    /\ seen' = [seen EXCEPT ![t] = {}]
    /\ request' = [request EXCEPT ![t] = NoCreds]
    /\ clean' = FALSE
    /\ UNCHANGED <<params_, connect_params_, in_use_, conn, opened, healthy, connects,
                   acquires, warmed, supplied>>

\* PqConnection::Connect returned null: params_ stays as Configure left it.
WarmFail(t) ==
    /\ pc[t] = "warming"
    /\ pc' = [pc EXCEPT ![t] = "out"]
    /\ seen' = [seen EXCEPT ![t] = {}]
    /\ request' = [request EXCEPT ![t] = NoCreds]
    /\ clean' = FALSE
    /\ UNCHANGED <<params_, connect_params_, idle_, in_use_, conn, opened, healthy,
                   connects, acquires, warmed, supplied>>

\* Mutant of StoreParams: only the first Connect stores its credentials.
StoreParamsOnce(t) ==
    /\ pc[t] = "storing"
    /\ pc' = [pc EXCEPT ![t] = "out"]
    /\ connect_params_' = IF connect_params_ = NoCreds THEN request[t] ELSE connect_params_
    /\ request' = [request EXCEPT ![t] = NoCreds]
    /\ UNCHANGED <<params_, idle_, in_use_, conn, seen, opened, healthy, connects,
                   acquires, warmed, clean, supplied>>

StoreParams(t) ==
    /\ pc[t] = "storing"
    /\ pc' = [pc EXCEPT ![t] = "out"]
    /\ connect_params_' = request[t]
    /\ request' = [request EXCEPT ![t] = NoCreds]
    /\ UNCHANGED <<params_, idle_, in_use_, conn, seen, opened, healthy, connects,
                   acquires, warmed, clean, supplied>>

-----------------------------------------------------------------------------
(***************************************************************************)
(* Acquire.  A thread evaluates the predicate of cv_.wait when it enters   *)
(* and each time it is released.                                           *)
(***************************************************************************)

BeginAcquire(t) ==
    /\ pc[t] = "out"
    /\ acquires < MaxAcquires
    /\ acquires' = acquires + 1
    /\ pc' = [pc EXCEPT ![t] = "acquire"]
    /\ UNCHANGED <<connectVars, idle_, in_use_, conn, seen, opened, healthy>>

Sleep(t) ==
    /\ pc[t] \in {"acquire", "woken"}
    /\ idle_ = <<>>
    /\ in_use_ >= pool_size_
    /\ pc' = [pc EXCEPT ![t] = "waiting"]
    /\ UNCHANGED <<connectVars, idle_, in_use_, conn, seen, opened, healthy,
                   acquires>>

\* A condition variable may release a waiting thread without a notification.
SpuriousWakeup(t) ==
    /\ pc[t] = "waiting"
    /\ pc' = [pc EXCEPT ![t] = "woken"]
    /\ UNCHANGED <<connectVars, idle_, in_use_, conn, seen, opened, healthy,
                   acquires>>

\* Mutant of TakeIdle: front() without pop_front().
TakeIdleKeeps(t) ==
    /\ pc[t] \in {"acquire", "woken"}
    /\ idle_ # <<>>
    /\ conn' = [conn EXCEPT ![t] = Head(idle_)]
    /\ in_use_' = in_use_ + 1
    /\ pc' = [pc EXCEPT ![t] = "holding"]
    /\ UNCHANGED <<connectVars, idle_, seen, opened, healthy, acquires>>

TakeIdle(t) ==
    /\ pc[t] \in {"acquire", "woken"}
    /\ idle_ # <<>>
    /\ conn' = [conn EXCEPT ![t] = Head(idle_)]
    /\ idle_' = Tail(idle_)
    /\ in_use_' = in_use_ + 1
    /\ pc' = [pc EXCEPT ![t] = "holding"]
    /\ UNCHANGED <<connectVars, seen, opened, healthy, acquires>>

\* Mutant of Reserve: <= where the predicate has <.
ReserveOneMore(t) ==
    /\ pc[t] \in {"acquire", "woken"}
    /\ idle_ = <<>>
    /\ in_use_ <= pool_size_
    /\ in_use_' = in_use_ + 1
    /\ pc' = [pc EXCEPT ![t] = "creating"]
    /\ seen' = [seen EXCEPT ![t] = {params_}]
    /\ UNCHANGED <<connectVars, idle_, conn, opened, healthy, acquires>>

Reserve(t) ==
    /\ pc[t] \in {"acquire", "woken"}
    /\ idle_ = <<>>
    /\ in_use_ < pool_size_
    /\ in_use_' = in_use_ + 1
    /\ pc' = [pc EXCEPT ![t] = "creating"]
    /\ seen' = [seen EXCEPT ![t] = {params_}]
    /\ UNCHANGED <<connectVars, idle_, conn, opened, healthy, acquires>>

CreateOk(t, c) ==
    /\ pc[t] = "creating"
    /\ Opens(t, c)
    /\ conn' = [conn EXCEPT ![t] = c]
    /\ pc' = [pc EXCEPT ![t] = "holding"]
    /\ UNCHANGED <<connectVars, idle_, in_use_, acquires>>

\* Mutants of CreateFail: the slot is not handed back; nobody is notified.
CreateFailKeepsSlot(t) ==
    /\ pc[t] = "creating"
    /\ pc' \in NotifyOne([pc EXCEPT ![t] = "out"])
    /\ seen' = [seen EXCEPT ![t] = {}]
    /\ UNCHANGED <<connectVars, idle_, in_use_, conn, opened, healthy, acquires>>

CreateFailSilently(t) ==
    /\ pc[t] = "creating"
    /\ in_use_' = in_use_ - 1
    /\ pc' = [pc EXCEPT ![t] = "out"]
    /\ seen' = [seen EXCEPT ![t] = {}]
    /\ UNCHANGED <<connectVars, idle_, conn, opened, healthy, acquires>>

\* CreateConnection failed: the slot is handed back and Acquire returns null.
CreateFail(t) ==
    /\ pc[t] = "creating"
    /\ in_use_' = in_use_ - 1
    /\ pc' \in NotifyOne([pc EXCEPT ![t] = "out"])
    /\ seen' = [seen EXCEPT ![t] = {}]
    /\ UNCHANGED <<connectVars, idle_, conn, opened, healthy, acquires>>

-----------------------------------------------------------------------------
(***************************************************************************)
(* Release, and what the borrower's queries may do to the connection.      *)
(***************************************************************************)

\* The last shared_ptr to connection c goes away: ~PqConnection.
Destroy(c) ==
    /\ opened' = [opened EXCEPT ![c] = NoCreds]
    /\ healthy' = healthy \ {c}

\* Mutant of Release: a healthy connection goes back without notify_one.
ReleaseSilently(t, broken) ==
    /\ pc[t] = "holding"
    /\ in_use_' = in_use_ - 1
    /\ conn' = [conn EXCEPT ![t] = NoConn]
    /\ \/ /\ broken \/ conn[t] \notin healthy
          /\ pc' \in NotifyOne([pc EXCEPT ![t] = "out"])
          /\ Destroy(conn[t])
          /\ UNCHANGED idle_
       \/ /\ ~broken /\ conn[t] \in healthy
          /\ pc' = [pc EXCEPT ![t] = "out"]
          /\ idle_' = Append(idle_, conn[t])
          /\ UNCHANGED <<opened, healthy>>
    /\ UNCHANGED <<connectVars, seen, acquires>>

Release(t, broken) ==
    /\ pc[t] = "holding"
    /\ in_use_' = in_use_ - 1
    /\ pc' \in NotifyOne([pc EXCEPT ![t] = "out"])
    /\ conn' = [conn EXCEPT ![t] = NoConn]
    /\ \/ /\ broken \/ conn[t] \notin healthy
          /\ Destroy(conn[t])
          /\ UNCHANGED idle_
       \/ /\ ~broken /\ conn[t] \in healthy
          /\ idle_' = Append(idle_, conn[t])
          /\ UNCHANGED <<opened, healthy>>
    /\ UNCHANGED <<connectVars, seen, acquires>>

\* libpq notices, during a query of the borrower, that the link is gone.
LinkLost(t) ==
    /\ pc[t] = "holding"
    /\ conn[t] \in healthy
    /\ healthy' = healthy \ {conn[t]}
    /\ UNCHANGED <<connectVars, idle_, in_use_, pc, conn, seen, opened, acquires>>

-----------------------------------------------------------------------------
(***************************************************************************)
(* The pool with the most general borrowers.  A query is only accepted     *)
(* once some Connect RPC has succeeded (mtdd_shard_service.cpp:199).       *)
(***************************************************************************)

Closed == Conn \ Referenced

ConnectStep(t) ==
    \/ \E p \in ClientCreds : Configure(t, p)
    \/ \E c \in Closed : WarmOk(t, c)
    \/ WarmFail(t)
    \/ StoreParams(t)

AcquireStep(t) ==
    \/ Sleep(t)
    \/ TakeIdle(t)
    \/ Reserve(t)
    \/ \E c \in Closed : CreateOk(t, c)
    \/ CreateFail(t)

Next == \E t \in Threads :
    \/ ConnectStep(t)
    \/ connect_params_ # NoCreds /\ BeginAcquire(t)
    \/ SpuriousWakeup(t)
    \/ AcquireStep(t)
    \/ \E broken \in BOOLEAN : Release(t, broken)
    \/ LinkLost(t)

Spec == PoolInit /\ [][Next]_poolVars

(***************************************************************************)
(* Fairness: a thread that is not blocked on the mutex or on cv_ goes on   *)
(* (the scheduler runs it, PQconnectdb returns within connect_timeout, and *)
(* a borrower gives its connection back).  Nothing forces an RPC to start, *)
(* a link to fail or a spurious wakeup.                                    *)
(***************************************************************************)
ThreadFairness(t) ==
    /\ WF_poolVars(AcquireStep(t))
    /\ WF_poolVars(\E broken \in BOOLEAN : Release(t, broken))

FairSpec == Spec /\ \A t \in Threads : ThreadFairness(t)

-----------------------------------------------------------------------------
\* Type invariant of the pool, the Connect RPCs and the borrowers.
TypeOK ==
    /\ params_ \in Creds \cup {NoCreds}
    /\ connect_params_ \in Creds \cup {NoCreds}
    /\ idle_ \in Seq(Conn)
    /\ in_use_ \in Int
    /\ pc \in [Threads -> PoolPC]
    /\ conn \in [Threads -> Conn \cup {NoConn}]
    /\ request \in [Threads -> Creds \cup {NoCreds}]
    /\ seen \in [Threads -> SUBSET Creds]
    /\ opened \in [Conn -> Creds \cup {NoCreds}]
    /\ healthy \in SUBSET Conn
    /\ connects \in Nat
    /\ acquires \in Nat
    /\ warmed \in Nat
    /\ clean \in BOOLEAN
    /\ supplied \in SUBSET Creds

\* in_use_ is exactly the number of threads that own a slot: those opening a
\* connection inside Acquire and those holding one.  No path of Acquire or
\* Release loses or invents a slot.
SlotAccounting == in_use_ = Cardinality(Holders)

\* A connection has one owner: it is idle once, or borrowed by one thread, and
\* it is open as long as somebody owns it.
ExclusiveOwnership ==
    /\ IsInjective(idle_)
    /\ \A t, u \in Threads : conn[t] = conn[u] /\ conn[t] # NoConn => t = u
    /\ \A t \in Threads : conn[t] \notin Range(idle_)
    /\ \A c \in Conn : opened[c] # NoCreds <=> c \in Referenced

\* What pool_size_ really bounds: idle and borrowed connections together
\* exceed it by at most one for each Connect RPC after the first, because
\* Connect pushes to idle_ without looking at pool_size_ and Acquire takes
\* what is idle without looking at it either.
CapacityBound ==
    IF warmed = 0 THEN in_use_ + Len(idle_) = 0
    ELSE in_use_ + Len(idle_) < pool_size_ + warmed

\* No thread is left asleep beside a free slot: for every free slot there is a
\* thread that was released and has yet to look.
FreeSlotHasWakeup ==
    Sleeping # {} => Cardinality(Woken) >= pool_size_ - in_use_

\* No thread is left asleep beside idle connections, except for those that
\* Connect RPCs after the first one pushed without notifying cv_.
IdleHasWakeup == Sleeping # {} => Len(idle_) < Cardinality(Woken) + warmed

\* Between Connect RPCs the pool opens connections with the credentials that
\* QueryStream hands to the session store, as long as every Connect succeeded
\* and none overlapped another.
CredentialsAgree ==
    clean /\ (\A t \in Threads : ~Connecting(t)) => params_ = connect_params_

\* Every call of Acquire comes back with a connection or with null, whatever
\* the interleaving of releases, failures to connect and Connect RPCs.  This is
\* about finitely many calls (MaxAcquires): cv_ has no queue, and borrowers that
\* keep arriving could take the slot before a woken thread for ever.
AcquireReturns ==
    \A t \in Threads :
        pc[t] \in {"acquire", "waiting", "woken", "creating"}
            ~> pc[t] \in {"holding", "out"}
=============================================================================
