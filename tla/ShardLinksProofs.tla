--------------------------- MODULE ShardLinksProofs ---------------------------
(***************************************************************************)
(* Proofs about the connections of the query path: what libpq knows of     *)
(* them, which streams share one, what a stream that acquires or lets go   *)
(* of a connection leaves alone, and the life ConnectionLife allows them.  *)
(***************************************************************************)
EXTENDS ShardServiceProofs

\* Most of what follows is first-order: Zenon proves it unless a leaf says SMT.
USE Zenon

\* What libpq knows of a connection that is open; who else uses a pinned one.
Links ==
    /\ \A c \in Conn : opened[c] # NoCreds /\ c \notin healthy => c \in dead
    /\ \A t \in Threads : sconn[t] \in healthy => sconn[t] \in Range(sessions_)
    /\ \A t, u \in Threads : sconn[t] = sconn[u] /\ sconn[t] # NoConn /\ t # u => sconn[t] \in shared

-----------------------------------------------------------------------------
(***************************************************************************)
(* Links and sharing.                                                      *)
(***************************************************************************)

\* The types the proofs about links and transactions use.
LEMMA LinkTypes ==
    ASSUME OwnedInv
    PROVE  /\ HandlerInv /\ Apart /\ Places
           /\ rpc \in [Threads -> {"idle", "open"} \cup Streaming]
           /\ conn \in [Threads -> Conn \cup {NoConn}]
           /\ sconn \in [Threads -> Conn \cup {NoConn}]
           /\ sessions_ \in [Sessions -> Conn \cup {NoConn}]
           /\ opened \in [Conn -> Creds \cup {NoCreds}]
           /\ session_id \in [Threads -> Sessions \cup {NoSession}]
           /\ pg \in [Conn -> PgState]
           /\ healthy \in SUBSET Conn /\ shared \in SUBSET Conn
           /\ NoConn \notin Conn
           /\ Range(sessions_) = {sessions_[s] : s \in Sessions}
<1>1. HandlerInv /\ Apart
      BY OwnersApart DEF OwnedInv
<1>2. Range(sessions_) = {sessions_[s] : s \in Sessions}
      BY <1>1 DEF HandlerInv, ShardTypeOK, Range
<1> QED
    BY <1>1, <1>2, ConstantsAssumption DEF HandlerInv, ShardTypeOK, TypeOK, PgState

\* A step that neither pins nor unpins a connection.
LEMMA LinksFrame ==
    ASSUME Links, UNCHANGED <<sconn, sessions_, shared>>,
           \A c \in Conn : opened'[c] # NoCreds /\ c \notin healthy' => c \in dead',
           \A t \in Threads : sconn[t] \in healthy' => sconn[t] \in healthy
    PROVE  Links'
BY DEF Links

\* A connection is closed: it is neither open nor dead any more.
LEMMA ClosedLink ==
    ASSUME OwnedInv, Links, NEW c \in Conn, Destroy(c), EndBackend(c)
    PROVE  /\ \A d \in Conn : opened'[d] # NoCreds /\ d \notin healthy' => d \in dead'
           /\ healthy' \subseteq healthy
BY LinkTypes DEF Destroy, EndBackend, Links

\* The steps of the pool keep what is known of links.
LEMMA PoolStepLinks ==
    ASSUME OwnedInv, Links, NEW t \in Threads, PoolStep(t)
    PROVE  Links'
<1>0. /\ HandlerInv /\ Apart /\ Places
      /\ conn \in [Threads -> Conn \cup {NoConn}]
      /\ sconn \in [Threads -> Conn \cup {NoConn}]
      /\ sessions_ \in [Sessions -> Conn \cup {NoConn}]
      /\ session_id \in [Threads -> Sessions \cup {NoSession}]
      /\ healthy \in SUBSET Conn /\ NoConn \notin Conn
      /\ Range(sessions_) = {sessions_[s] : s \in Sessions}
      BY LinkTypes
<1>1. ASSUME UNCHANGED <<sconn, sessions_, shared, opened, healthy, dead>>
      PROVE  Links'
      BY <1>1 DEF Links
<1>2. CASE \E p \in ClientCreds : ConnectRpc(t, p)
      BY <1>1, <1>2
      DEF ConnectRpc, Configure, WarmFail, StoreParams, streamVars, histVars
<1>3. CASE \E k \in SqlKinds : QueryStream(t, k, NoSession)
      BY <1>1, <1>3 DEF QueryStream, BeginAcquire, histVars
<1>4. CASE AcquireSpurious(t) \/ AcquirePending(t)
      BY <1>1, <1>4
      DEF AcquireSpurious, AcquirePending, SpuriousWakeup, Sleep, Reserve, streamVars,
          histVars
<1>5. CASE AcquireFailed(t)
  <2>1. sconn' = sconn
    <3>1. sconn[t] = NoConn /\ sconn' = [sconn EXCEPT ![t] = NoConn]
          BY <1>0, <1>5 DEF AcquireFailed, Return, Places, Streaming
    <3> QED
        BY <1>0, <3>1
  <2> QED
      BY <1>1, <1>5, <2>1 DEF AcquireFailed, CreateFail, histVars
<1>6. CASE AcquireIdle(t)
      BY <1>1, <1>6 DEF AcquireIdle, TakeIdle, Goto, histVars
<1>7. ASSUME NEW c \in Unused, ConnectWarmed(t, c) \/ AcquireCreated(t, c)
      PROVE  Links'
  <2>1. c \in Conn /\ \A u \in Threads : sconn[u] # c
        BY <1>0, UnusedUnowned
  <2>2. /\ UNCHANGED <<sconn, sessions_, shared, dead>> /\ healthy' = healthy \cup {c}
        /\ Opens(t, c)
        BY <1>7
        DEF ConnectWarmed, WarmOk, AcquireCreated, CreateOk, NewBackend, Goto, Opens,
            streamVars, histVars
  <2>3. \A d \in Conn : opened'[d] # NoCreds <=> d = c \/ opened[d] # NoCreds
        BY <1>0, <2>1, <2>2, OpensEffect
  <2> QED
      BY <2>1, <2>2, <2>3, LinksFrame DEF Links
<1>8. CASE SessionFound(t)
  <2>1. PICK s \in Sessions : s = session_id[t]
        BY <1>0, <1>8 DEF SessionFound, Pooled
  <2>2. /\ UNCHANGED <<sessions_, opened, healthy, dead>>
        /\ sconn' = [sconn EXCEPT ![t] = sessions_[s]]
        /\ sessions_[s] \in healthy
        /\ shared' = shared \cup {c \in {sessions_[s]} : HeldByOther(t, c)}
        BY <1>8, <2>1 DEF SessionFound, poolVars
  <2>3. \A u \in Threads : u # t /\ sconn[u] = sessions_[s] => sessions_[s] \in shared'
        BY <2>2 DEF HeldByOther
  <2> QED
      BY <1>0, <2>2, <2>3 DEF Links
<1>9. CASE ReleasePooled(t)
  <2>1. PICK c \in Conn : c = conn[t]
        BY <1>0, <1>9 DEF ReleasePooled, Places, Streaming
  <2>2. UNCHANGED <<sconn, sessions_, shared>>
    <3>1. sconn[t] = NoConn /\ sconn' = [sconn EXCEPT ![t] = NoConn]
          BY <1>0, <1>9 DEF ReleasePooled, Return, Places
    <3> QED
        BY <1>0, <1>9, <3>1 DEF ReleasePooled, histVars
  <2>3. CASE idle_' = idle_
    <3>1. Destroy(c) /\ EndBackend(c)
      <4>1. idle_ \in Seq(Conn)
            BY <1>0, OwnerTypes
      <4>2. idle_ # Append(idle_, c)
        <5>1. Len(Append(idle_, c)) = Len(idle_) + 1 /\ Len(idle_) \in Nat
              BY SMT, <4>1
        <5> QED
            BY SMT, <5>1
      <4> QED
          BY <1>9, <2>1, <2>3, <4>2 DEF ReleasePooled, Release
    <3> QED
        BY <2>2, <3>1, ClosedLink, LinksFrame
  <2>4. CASE idle_' # idle_
        BY <1>1, <1>9, <2>2, <2>4 DEF ReleasePooled, Release
  <2> QED
      BY <2>3, <2>4
<1> QED
    BY <1>2, <1>3, <1>4, <1>5, <1>6, <1>7, <1>8, <1>9 DEF PoolStep

\* What the session store does to links, when it opens c or none.
LEMMA StoreLinks ==
    ASSUME OwnedInv, Links, NEW t \in Threads, NEW s \in Sessions,
           sconn[t] = NoConn, sessions_[s] \notin healthy,
           NEW c \in Conn \cup {NoConn}, StoreConnections(t, s, c)
    PROVE  /\ \A d \in Conn : opened'[d] # NoCreds /\ d \notin healthy' => d \in dead'
           /\ \A d \in Conn : d \in healthy' => d = c \/ d \in healthy
           /\ \A u \in Threads : sconn[u] \in shared => sconn[u] \in shared'
<1>0. HandlerInv /\ NoConn \notin Conn /\ shared \in SUBSET Conn
      BY LinkTypes
<1>1. \A d \in Conn : d \in Closes(t, s) <=>
          d = sessions_[s] /\ \A u \in Threads : sconn[u] # d
      BY <1>0, ErasedEffect
<1>2. /\ opened' = [d \in Conn |-> IF d = c THEN session_defaults_[t]
                                   ELSE IF d \in Closes(t, s) THEN NoCreds ELSE opened[d]]
      /\ healthy' = (healthy \ Closes(t, s)) \cup ({c} \cap Conn)
      /\ dead' = dead \ Closes(t, s)
      /\ shared' = shared \ Closes(t, s)
      BY DEF StoreConnections, Closes
<1>3. \A u \in Threads : sconn[u] \in shared => sconn[u] \in shared'
      BY <1>0, <1>1, <1>2
<1> QED
    BY <1>0, <1>2, <1>3 DEF Links

\* So do the steps of the session store and the other ways to let go.
LEMMA StoreStepLinks ==
    ASSUME OwnedInv, Links, NEW t \in Threads, StoreStep(t)
    PROVE  Links'
<1>0. /\ HandlerInv /\ Apart /\ Places
      /\ conn \in [Threads -> Conn \cup {NoConn}]
      /\ sconn \in [Threads -> Conn \cup {NoConn}]
      /\ sessions_ \in [Sessions -> Conn \cup {NoConn}]
      /\ session_id \in [Threads -> Sessions \cup {NoSession}]
      /\ healthy \in SUBSET Conn /\ shared \in SUBSET Conn /\ NoConn \notin Conn
      /\ Range(sessions_) = {sessions_[s] : s \in Sessions}
      BY LinkTypes
<1>1. CASE \E k \in SqlKinds, s \in Sessions : QueryStream(t, k, s)
  <2>1. UNCHANGED <<sconn, sessions_, shared, opened, healthy, dead>>
        BY <1>1, ShardAssumption DEF QueryStream, histVars
  <2> QED
      BY <2>1 DEF Links
<1>2. ASSUME NEW c \in Unused, SessionCreated(t, c)
      PROVE  Links'
  <2>1. /\ c \in Conn
        /\ \A u \in Threads : sconn[u] # c
        BY <1>0, UnusedUnowned
  <2>2. PICK s \in Sessions : s = session_id[t]
        BY <1>0, <1>2 DEF SessionCreated, Pooled
  <2>3. /\ sconn[t] = NoConn /\ sessions_[s] \notin healthy
        /\ StoreConnections(t, s, c)
        BY <1>0, <1>2, <2>2 DEF SessionCreated, Places, Streaming
  <2>4. /\ sconn' = [sconn EXCEPT ![t] = c]
        /\ sessions_' = [sessions_ EXCEPT ![s] = c]
        BY <1>2, <2>2 DEF SessionCreated
  <2>5. /\ \A d \in Conn : opened'[d] # NoCreds /\ d \notin healthy' => d \in dead'
        /\ \A d \in Conn : d \in healthy' => d = c \/ d \in healthy
        /\ \A u \in Threads : sconn[u] \in shared => sconn[u] \in shared'
        BY <2>1, <2>3, StoreLinks
  <2>6. \A u \in Threads : sconn'[u] \in healthy' => sconn'[u] \in Range(sessions_')
    <3> SUFFICES ASSUME NEW u \in Threads, sconn'[u] \in healthy'
                 PROVE  \E r \in Sessions : sessions_'[r] = sconn'[u]
        BY <1>0, <2>4 DEF Range
    <3>1. CASE u = t
          BY <1>0, <2>4, <3>1
    <3>2. CASE u # t
      <4>1. sconn'[u] = sconn[u] /\ sconn[u] # c
            BY <1>0, <2>1, <2>4, <3>2
      <4>2. sconn[u] \in healthy
            BY <1>0, <2>1, <2>3, <3>2, <4>1 DEF StoreConnections
      <4>3. PICK r \in Sessions : sessions_[r] = sconn[u]
            BY <1>0, <4>2 DEF Links
      <4> QED
          BY <1>0, <2>3, <2>4, <4>1, <4>2, <4>3
    <3> QED
        BY <3>1, <3>2
  <2>7. \A u, v \in Threads : sconn'[u] = sconn'[v] /\ sconn'[u] # NoConn /\ u # v
                                => sconn'[u] \in shared'
        BY SMTT(30), <1>0, <2>1, <2>4, <2>5 DEF Links
  <2> QED
      BY <2>5, <2>6, <2>7 DEF Links
<1>3. CASE SessionRefused(t)
  <2>2. PICK s \in Sessions : s = session_id[t]
        BY <1>0, <1>3 DEF SessionRefused, Pooled
  <2>3. /\ sconn[t] = NoConn /\ sessions_[s] \notin healthy
        /\ StoreConnections(t, s, NoConn)
        BY <1>0, <1>3, <2>2 DEF SessionRefused, Places, Streaming
  <2>4. /\ sconn' = [sconn EXCEPT ![t] = NoConn]
        /\ sessions_' = [sessions_ EXCEPT ![s] = NoConn]
        BY <1>0, <1>3, <2>2, <2>3, ErasedEffect DEF SessionRefused, Return
  <2>5. /\ \A d \in Conn : opened'[d] # NoCreds /\ d \notin healthy' => d \in dead'
        /\ \A d \in Conn : d \in healthy' => d = NoConn \/ d \in healthy
        /\ \A u \in Threads : sconn[u] \in shared => sconn[u] \in shared'
        BY <2>3, StoreLinks
  <2>s. sconn' = sconn
        BY <1>0, <2>3, <2>4
  <2>6. \A u \in Threads : sconn[u] \in healthy' => sconn[u] \in Range(sessions_')
    <3> SUFFICES ASSUME NEW u \in Threads, sconn[u] \in healthy'
                 PROVE  \E r \in Sessions : sessions_'[r] = sconn[u]
        BY <1>0, <2>4 DEF Range
    <3>1. sconn[u] \in healthy
          BY <1>0, <2>3, <2>5 DEF StoreConnections
    <3>2. PICK r \in Sessions : sessions_[r] = sconn[u]
          BY <1>0, <3>1 DEF Links
    <3> QED
        BY <1>0, <2>3, <2>4, <3>1, <3>2
  <2> QED
      BY <2>5, <2>6, <2>s DEF Links
<1>4. CASE ReleasePinned(t)
  <2>1. PICK c \in Conn : c = sconn[t]
        BY <1>0, <1>4 DEF ReleasePinned, Places, Streaming
  <2>2. sessions_' = sessions_ /\ sconn' = [sconn EXCEPT ![t] = NoConn]
        BY <1>4 DEF ReleasePinned, Return
  <2>3. /\ \A d \in Conn : opened'[d] # NoCreds /\ d \notin healthy' => d \in dead'
        /\ healthy' \subseteq healthy
        /\ \A u \in Threads \ {t} : sconn[u] \in shared => sconn[u] \in shared'
    <3>1. CASE c \notin Range(sessions_) /\ ~HeldByOther(t, c)
      <4>1. Destroy(c) /\ EndBackend(c) /\ shared' = shared \ {c}
            BY <1>4, <2>1, <3>1 DEF ReleasePinned
      <4>2. \A u \in Threads \ {t} : sconn[u] # c
            BY <3>1 DEF HeldByOther
      <4> QED
          BY <4>1, <4>2, ClosedLink
    <3>2. CASE c \in Range(sessions_) \/ HeldByOther(t, c)
      <4>1. UNCHANGED <<opened, healthy, pg, dead, shared>>
            BY <1>4, <2>1, <3>2 DEF ReleasePinned
      <4> QED
          BY <4>1 DEF Links
    <3> QED
        BY <3>1, <3>2
  <2> QED
      BY <1>0, <2>2, <2>3 DEF Links
<1>5. CASE DropPooled(t)
  <2>1. PICK c \in Conn : c = conn[t]
        BY <1>0, <1>5 DEF DropPooled, Places, Streaming
  <2>2. UNCHANGED <<sconn, sessions_, shared>>
    <3>1. sconn[t] = NoConn /\ sconn' = [sconn EXCEPT ![t] = NoConn]
          BY <1>0, <1>5 DEF DropPooled, Return, Places
    <3> QED
        BY <1>0, <1>5, <3>1 DEF DropPooled
  <2>3. Destroy(c) /\ EndBackend(c)
        BY <1>5, <2>1 DEF DropPooled
  <2> QED
      BY <2>2, <2>3, ClosedLink, LinksFrame
<1> QED
    BY <1>1, <1>2, <1>3, <1>4, <1>5 DEF StoreStep

LinkedInv == OwnedInv /\ Links

\* Every step keeps what is known of links and sharing.
LEMMA LinksNext == LinkedInv /\ [ShardNext]_vars => LinkedInv'
<1> SUFFICES ASSUME OwnedInv, Links, [ShardNext]_vars
             PROVE  Links'
    BY OwnersNext DEF LinkedInv
<1>0. healthy \in SUBSET Conn
      BY LinkTypes
<1>1. ASSUME NEW t \in Threads, StreamStep(t)
      PROVE  Links'
  <2>1. OnConnection(t, connection_(t))
        BY <1>1, StreamStepEffect DEF OwnedInv
  <2>2. UNCHANGED <<sconn, sessions_, shared, opened, dead>>
        BY <2>1 DEF OnConnection, StreamFrame, poolSlots, histVars
  <2>3. /\ healthy' \subseteq healthy
        /\ \A d \in healthy \ healthy' : d \in dead
        BY <2>1 DEF OnConnection
  <2> QED
      BY <2>2, <2>3, LinksFrame DEF Links
<1>2. ASSUME (\E c \in Conn : BackendLost(c)) \/ UNCHANGED vars
      PROVE  Links'
  <2>1. UNCHANGED <<poolVars, streamVars, sessions_, histVars>> /\ dead \subseteq dead'
        BY <1>2 DEF BackendLost, vars
  <2>2. UNCHANGED <<sconn, sessions_, shared, opened, healthy>>
        BY <2>1 DEF poolVars, streamVars, histVars
  <2> QED
      BY <2>1, <2>2, LinksFrame DEF Links
<1>3. ASSUME NEW t \in Threads, PoolStep(t) \/ StoreStep(t)
      PROVE  Links'
      BY <1>3, PoolStepLinks, StoreStepLinks
<1> QED
    BY <1>1, <1>2, <1>3, StepKinds

\* libpq's view of an open connection: one that is marked bad has lost its
\* backend, a healthy pinned one is in the store, two streams that hold the same
\* one are recorded.
THEOREM LinksKnown == ShardSpec => []LinkedInv
<1>1. ShardInit => Links
  <2> SUFFICES ASSUME ShardInit PROVE Links
      OBVIOUS
  <2> QED
      BY ConstantsAssumption DEF ShardInit, PoolInit, Links
<1> QED
    BY <1>1, OwnersUnique, LinksNext, PTL DEF LinkedInv, ShardSpec

-----------------------------------------------------------------------------
(***************************************************************************)
(* What a thread that acquires or lets go of a connection leaves alone.    *)
(***************************************************************************)

\* Two streams on one connection make it a shared one.
LEMMA Alone ==
    ASSUME LinkedInv, NEW t \in Threads, NEW u \in Threads, t # u,
           rpc[t] \in Streaming, rpc[u] \in Streaming, connection_(t) = connection_(u)
    PROVE  connection_(t) \in shared
<1>0. Apart /\ Places /\ NoConn \notin Conn
      BY LinkTypes DEF LinkedInv
<1>1. connection_(t) \in Conn /\ connection_(u) \in Conn
      BY StreamHasConnection DEF LinkedInv, OwnedInv
<1>2. CASE Pooled(t) /\ Pooled(u)
      BY SMTT(30), <1>0, <1>1, <1>2 DEF Apart, connection_
<1>3. CASE Pooled(t) /\ ~Pooled(u)
      BY <1>0, <1>1, <1>3 DEF Apart, connection_
<1>4. CASE ~Pooled(t) /\ Pooled(u)
      BY <1>0, <1>1, <1>4 DEF Apart, connection_
<1>5. CASE ~Pooled(t) /\ ~Pooled(u)
      BY <1>0, <1>1, <1>5 DEF connection_, LinkedInv, Links
<1> QED
    BY <1>2, <1>3, <1>4, <1>5

\* The pool closes the connection it does not take back.
LEMMA ReleaseEffect ==
    ASSUME HandlerInv, NEW t \in Threads, ReleasePooled(t)
    PROVE  /\ conn[t] \in Conn
           /\ \/ /\ Destroy(conn[t]) /\ EndBackend(conn[t]) /\ idle_' = idle_
              \/ /\ UNCHANGED <<opened, healthy, pg, dead>>
                 /\ idle_' = Append(idle_, conn[t])
                 /\ commit[t] /\ conn[t] \in healthy
<1>0. /\ idle_ \in Seq(Conn) /\ Places
      /\ conn \in [Threads -> Conn \cup {NoConn}]
      BY OwnerTypes
<1>1. conn[t] \in Conn
      BY <1>0 DEF ReleasePooled, Places, Streaming
<1>2. idle_ # Append(idle_, conn[t])
  <2>1. Len(Append(idle_, conn[t])) = Len(idle_) + 1 /\ Len(idle_) \in Nat
        BY SMT, <1>0, <1>1
  <2> QED
      BY SMT, <2>1
<1>3. CASE idle_' = idle_
      BY <1>1, <1>2, <1>3 DEF ReleasePooled, Release
<1>4. CASE idle_' # idle_
      BY <1>1, <1>4 DEF ReleasePooled, Release
<1> QED
    BY <1>3, <1>4

\* Thread t closes connection c: a pooled one it streams on, or a pinned one that
\* it refers to last.
Closing(t, c) ==
    \/ rpc[t] \in Streaming /\ Pooled(t) /\ c = conn[t]
    \/ c = sconn[t] /\ c \notin Range(sessions_) /\ ~HeldByOther(t, c)

\* Thread t has the session store erase the bad entry of s and open c, or none.
Storing(t, s, c) ==
    /\ sconn[t] = NoConn
    /\ sessions_[s] \notin healthy
    /\ session_defaults_[t] # NoCreds
    /\ StoreConnections(t, s, c)

\* What acquiring and letting go of a connection does to connections.
QuietKind(t) ==
    \/ UNCHANGED <<opened, healthy, pg, dead>> /\ shared \subseteq shared'
    \/ \E c \in Unused : Opens(t, c) /\ NewBackend(c) /\ shared' = shared
    \/ \E c \in Conn : /\ Closing(t, c) /\ Destroy(c) /\ EndBackend(c)
                       /\ shared \ {c} \subseteq shared'
    \/ \E s \in Sessions, c \in Unused \cup {NoConn} : Storing(t, s, c)

\* The steps of the pool open one connection, close one or touch none.
LEMMA PoolKind ==
    ASSUME LinkedInv, NEW t \in Threads, PoolStep(t)
    PROVE  QuietKind(t)
<1>1. ASSUME UNCHANGED <<opened, healthy, pg, dead, shared>>
      PROVE  QuietKind(t)
      BY <1>1 DEF QuietKind
<1>2. CASE \E p \in ClientCreds : ConnectRpc(t, p)
      BY <1>1, <1>2 DEF ConnectRpc, Configure, WarmFail, StoreParams, histVars
<1>3. CASE \E k \in SqlKinds : QueryStream(t, k, NoSession)
      BY <1>1, <1>3 DEF QueryStream, BeginAcquire, histVars
<1>4. CASE AcquireSpurious(t) \/ AcquirePending(t)
      BY <1>1, <1>4
      DEF AcquireSpurious, AcquirePending, SpuriousWakeup, Sleep, Reserve, histVars
<1>5. CASE AcquireFailed(t) \/ AcquireIdle(t)
      BY <1>1, <1>5 DEF AcquireFailed, CreateFail, AcquireIdle, TakeIdle, histVars
<1>6. ASSUME NEW c \in Unused, ConnectWarmed(t, c) \/ AcquireCreated(t, c)
      PROVE  QuietKind(t)
  <2>1. Opens(t, c) /\ NewBackend(c) /\ shared' = shared
        BY <1>6 DEF ConnectWarmed, WarmOk, AcquireCreated, CreateOk, histVars
  <2> QED
      BY <2>1 DEF QuietKind
<1>7. CASE SessionFound(t)
      BY <1>7 DEF SessionFound, poolVars, QuietKind
<1>8. CASE ReleasePooled(t)
  <2>1. rpc[t] \in Streaming /\ Pooled(t) /\ shared' = shared
        BY <1>8 DEF ReleasePooled, Streaming, histVars
  <2>2. Closing(t, conn[t]) /\ shared \ {conn[t]} \subseteq shared'
        BY <2>1 DEF Closing
  <2>3. /\ conn[t] \in Conn
        /\ \/ Destroy(conn[t]) /\ EndBackend(conn[t])
           \/ UNCHANGED <<opened, healthy, pg, dead>>
        BY <1>8, ReleaseEffect DEF LinkedInv, OwnedInv
  <2> QED
      BY <1>1, <2>1, <2>2, <2>3 DEF QuietKind
<1> QED
    BY <1>2, <1>3, <1>4, <1>5, <1>6, <1>7, <1>8 DEF PoolStep

\* So do the steps of the session store and the other ways to let go.
LEMMA StoreKind ==
    ASSUME LinkedInv, NEW t \in Threads, StoreStep(t)
    PROVE  QuietKind(t)
<1>0. /\ Places /\ session_id \in [Threads -> Sessions \cup {NoSession}]
      /\ sconn \in [Threads -> Conn \cup {NoConn}]
      /\ conn \in [Threads -> Conn \cup {NoConn}]
      BY LinkTypes DEF LinkedInv
<1>1. CASE \E k \in SqlKinds, s \in Sessions : QueryStream(t, k, s)
      BY <1>1, ShardAssumption DEF QueryStream, histVars, QuietKind
<1>2. ASSUME NEW c \in Unused, SessionCreated(t, c)
      PROVE  QuietKind(t)
  <2>1. PICK s \in Sessions : s = session_id[t]
        BY <1>0, <1>2 DEF SessionCreated, Pooled
  <2>2. Storing(t, s, c)
        BY <1>0, <1>2, <2>1 DEF SessionCreated, Places, Streaming, Storing
  <2> QED
      BY <2>2 DEF QuietKind
<1>3. CASE SessionRefused(t)
  <2>1. PICK s \in Sessions : s = session_id[t]
        BY <1>0, <1>3 DEF SessionRefused, Pooled
  <2>2. Storing(t, s, NoConn)
        BY <1>0, <1>3, <2>1 DEF SessionRefused, Places, Streaming, Storing
  <2> QED
      BY <2>2 DEF QuietKind
<1>4. CASE ReleasePinned(t)
  <2>1. PICK c \in Conn : c = sconn[t]
        BY <1>0, <1>4 DEF ReleasePinned, Places, Streaming
  <2> QED
      BY <1>4, <2>1 DEF ReleasePinned, Closing, QuietKind
<1>5. CASE DropPooled(t)
  <2>1. rpc[t] \in Streaming /\ Pooled(t) /\ conn[t] \in Conn
        BY <1>0, <1>5 DEF DropPooled, Places, Streaming
  <2>2. Closing(t, conn[t]) /\ Destroy(conn[t]) /\ EndBackend(conn[t]) /\ shared' = shared
        BY <1>5, <2>1 DEF DropPooled, Closing
  <2> QED
      BY <2>1, <2>2 DEF QuietKind
<1> QED
    BY <1>1, <1>2, <1>3, <1>4, <1>5 DEF StoreStep

\* Connection d keeps its state, its link and its history.
Untouched(d) ==
    /\ pg'[d] = pg[d]
    /\ d \in healthy' <=> d \in healthy
    /\ d \in dead => d \in dead'
    /\ d \in shared => d \in shared'

\* A connection is closed, and only that one.
LEMMA DestroyTouches ==
    ASSUME LinkedInv, NEW c \in Conn, Destroy(c), EndBackend(c),
           NEW d \in Conn, d # c, d \in shared => d \in shared'
    PROVE  Untouched(d)
<1>1. pg \in [Conn -> PgState]
      BY LinkTypes DEF LinkedInv
<1> QED
    BY <1>1 DEF Destroy, EndBackend, Untouched

\* The session store touches only what it opens and what it closes.
LEMMA StoreTouches ==
    ASSUME LinkedInv, NEW t \in Threads, NEW s \in Sessions,
           sconn[t] = NoConn, sessions_[s] \notin healthy,
           NEW c \in Conn \cup {NoConn}, StoreConnections(t, s, c),
           NEW d \in Conn, d # c,
           d = sessions_[s] => \E u \in Threads : sconn[u] = d
    PROVE  Untouched(d)
<1>1. d \notin Closes(t, s)
      BY ErasedEffect DEF LinkedInv, OwnedInv
<1>2. /\ healthy' = (healthy \ Closes(t, s)) \cup ({c} \cap Conn)
      /\ pg' = [e \in Conn |-> IF e = c \/ e \in Closes(t, s) THEN Fresh ELSE pg[e]]
      /\ dead' = dead \ Closes(t, s)
      /\ shared' = shared \ Closes(t, s)
      BY DEF StoreConnections, Closes
<1> QED
    BY <1>1, <1>2 DEF Untouched

\* A step of thread t that acquires or lets go of a connection does not touch
\* the connection another stream is using.
LEMMA OthersUntouched ==
    ASSUME LinkedInv, NEW t \in Threads, PoolStep(t) \/ StoreStep(t),
           NEW u \in Threads, u # t, NEW d \in Conn, d = conn[u] \/ d = sconn[u]
    PROVE  Untouched(d)
<1>0. HandlerInv /\ Apart /\ NoConn \notin Conn /\ pg \in [Conn -> PgState]
      BY LinkTypes DEF LinkedInv
<1>1. CASE UNCHANGED <<opened, healthy, pg, dead>> /\ shared \subseteq shared'
      BY <1>1 DEF Untouched
<1>2. ASSUME NEW c \in Unused, Opens(t, c), NewBackend(c), shared' = shared
      PROVE  Untouched(d)
  <2>1. c \in Conn /\ d # c
        BY <1>0, UnusedUnowned
  <2> QED
      BY <1>0, <1>2, <2>1 DEF Opens, NewBackend, Untouched
<1>3. ASSUME NEW c \in Conn, Closing(t, c), Destroy(c), EndBackend(c),
             shared \ {c} \subseteq shared'
      PROVE  Untouched(d)
  <2>1. d # c
        BY SMT, <1>0, <1>3 DEF Apart, Closing, HeldByOther
  <2> QED
      BY <1>3, <2>1, DestroyTouches
<1>4. ASSUME NEW s \in Sessions, NEW c \in Unused \cup {NoConn}, Storing(t, s, c)
      PROVE  Untouched(d)
  <2>1. c \in Conn \cup {NoConn} /\ d # c
        BY <1>0, UnusedUnowned
  <2>2. d = sessions_[s] => d = sconn[u]
        BY SMT, <1>0 DEF Apart
  <2> QED
      BY <1>4, <2>1, <2>2, StoreTouches DEF Storing
<1>5. QuietKind(t)
      BY PoolKind, StoreKind
<1> QED
    BY <1>1, <1>2, <1>3, <1>4, <1>5 DEF QuietKind

\* Thread u stays where it is, with its request and its connection.
Stays(u) ==
    /\ rpc'[u] = rpc[u] /\ sql'[u] = sql[u] /\ session_id'[u] = session_id[u]
    /\ conn'[u] = conn[u] /\ sconn'[u] = sconn[u]
    /\ started_local_txn_'[u] = started_local_txn_[u]
    /\ commit'[u] = commit[u]

\* The steps of the pool move the stream of the thread that takes them.
LEMMA QuietStream ==
    ASSUME LinkedInv, NEW t \in Threads, PoolStep(t) \/ StoreStep(t),
           NEW u \in Threads, u # t, conn'[u] = conn[u]
    PROVE  Stays(u)
<1>0. /\ rpc \in [Threads -> {"idle", "open"} \cup Streaming]
      /\ sql \in [Threads -> SqlKinds]
      /\ session_id \in [Threads -> Sessions \cup {NoSession}]
      /\ sconn \in [Threads -> Conn \cup {NoConn}]
      /\ started_local_txn_ \in [Threads -> BOOLEAN]
      /\ commit \in [Threads -> BOOLEAN]
      BY DEF LinkedInv, OwnedInv, HandlerInv, ShardTypeOK, TypeOK
<1>1. CASE UNCHANGED streamVars
      BY <1>1 DEF streamVars, Stays
<1>2. CASE \E k \in SqlKinds, s \in Sessions \cup {NoSession} : QueryStream(t, k, s)
      BY <1>0, <1>2 DEF QueryStream, Stays
<1>3. CASE \E l \in Streaming : Goto(t, l)
      BY <1>0, <1>3 DEF Goto, Stays
<1>4. CASE SessionFound(t) \/ \E c \in Unused : SessionCreated(t, c)
      BY <1>0, <1>4 DEF SessionFound, SessionCreated, Stays
<1>5. CASE Return(t)
      BY <1>0, <1>5 DEF Return, Stays
<1>6. AfterAcquire(t) \in Streaming
      BY DEF AfterAcquire, Streaming
<1> QED
    BY <1>1, <1>2, <1>3, <1>4, <1>5, <1>6
    DEF PoolStep, StoreStep, ConnectRpc, ConnectWarmed, AcquireSpurious, AcquirePending,
        AcquireIdle, AcquireCreated, AcquireFailed, ReleasePooled, SessionRefused,
        ReleasePinned, DropPooled

\* They give and take the pooled connection of that thread only.
LEMMA QuietConn ==
    ASSUME LinkedInv, NEW t \in Threads, PoolStep(t) \/ StoreStep(t),
           NEW u \in Threads, u # t
    PROVE  conn'[u] = conn[u]
<1>0. conn \in [Threads -> Conn \cup {NoConn}]
      BY LinkTypes DEF LinkedInv
<1>1. CASE \E c \in Conn \cup {NoConn} : conn' = [conn EXCEPT ![t] = c]
      BY <1>0, <1>1
<1>2. CASE conn' = conn
      BY <1>2
<1>3. CASE (\E p \in ClientCreds : ConnectRpc(t, p)) \/ \E c \in Unused : ConnectWarmed(t, c)
      BY <1>2, <1>3 DEF ConnectRpc, Configure, WarmFail, StoreParams, ConnectWarmed, WarmOk
<1>4. CASE \E k \in SqlKinds, s \in Sessions \cup {NoSession} : QueryStream(t, k, s)
      BY <1>2, <1>4, ShardAssumption DEF QueryStream, BeginAcquire
<1>5. CASE AcquireSpurious(t) \/ AcquirePending(t) \/ AcquireFailed(t)
      BY <1>2, <1>5
      DEF AcquireSpurious, AcquirePending, SpuriousWakeup, Sleep, Reserve, AcquireFailed,
          CreateFail
<1>6. CASE AcquireIdle(t) \/ \E c \in Unused : AcquireCreated(t, c)
      BY <1>0, <1>6 DEF AcquireIdle, TakeIdle, AcquireCreated, CreateOk
<1>7. CASE SessionFound(t) \/ ReleasePinned(t)
      BY <1>2, <1>7 DEF SessionFound, ReleasePinned, poolVars
<1>8. CASE SessionRefused(t) \/ \E c \in Unused : SessionCreated(t, c)
      BY <1>2, <1>8 DEF SessionRefused, SessionCreated, StoreConnections
<1>9. CASE ReleasePooled(t) \/ DropPooled(t)
      BY <1>0, <1>9 DEF ReleasePooled, Release, DropPooled
<1> QED
    BY <1>3, <1>4, <1>5, <1>6, <1>7, <1>8, <1>9 DEF PoolStep, StoreStep

\* Every handler but the one that takes the step stays where it is.
LEMMA OthersStay ==
    ASSUME LinkedInv, NEW t \in Threads, PoolStep(t) \/ StoreStep(t),
           NEW u \in Threads, u # t
    PROVE  Stays(u)
BY QuietConn, QuietStream

\* Thread t is at the beginning or at the end of a stream after a step.
Outside(t) ==
    /\ rpc'[t] \in {"idle", "open", "begin", "exec"}
    /\ rpc'[t] = "begin" => sql'[t] = "rows"
    /\ rpc'[t] = "exec" => sql'[t] # "rows"
    /\ \/ ~started_local_txn_'[t]
       \/ /\ rpc[t] \in {"idle", "open"}
          /\ started_local_txn_'[t] = started_local_txn_[t]

\* The handler that acquires or lets go is at the beginning or at the end.
LEMMA SelfMoves ==
    ASSUME LinkedInv, NEW t \in Threads, PoolStep(t) \/ StoreStep(t)
    PROVE  Outside(t)
<1>0. /\ rpc \in [Threads -> {"idle", "open"} \cup Streaming]
      /\ sql \in [Threads -> SqlKinds]
      /\ started_local_txn_ \in [Threads -> BOOLEAN]
      /\ Places
      BY DEF LinkedInv, OwnedInv, HandlerInv, ShardTypeOK, TypeOK
<1>1. CASE \E p \in ClientCreds : ConnectRpc(t, p)
      BY <1>1 DEF ConnectRpc, streamVars, Outside
<1>2. CASE \E c \in Unused : ConnectWarmed(t, c)
  <2>1. pc[t] = "warming" /\ UNCHANGED streamVars
        BY <1>2 DEF ConnectWarmed, WarmOk
  <2>2. rpc[t] = "idle"
        BY <1>0, <2>1 DEF Places
  <2> QED
      BY <2>1, <2>2 DEF streamVars, Outside
<1>3. CASE \E k \in SqlKinds, s \in Sessions \cup {NoSession} : QueryStream(t, k, s)
      BY <1>0, <1>3 DEF QueryStream, Outside
<1>4. CASE AcquireSpurious(t) \/ AcquirePending(t)
      BY <1>4 DEF AcquireSpurious, AcquirePending, streamVars, Outside
<1>5. CASE AcquireIdle(t) \/ \E c \in Unused : AcquireCreated(t, c)
      BY <1>0, <1>5 DEF AcquireIdle, AcquireCreated, Goto, AfterAcquire, Outside
<1>6. CASE SessionFound(t) \/ \E c \in Unused : SessionCreated(t, c)
      BY <1>0, <1>6 DEF SessionFound, SessionCreated, AfterAcquire, Outside
<1>7. CASE Return(t)
      BY <1>0, <1>7 DEF Return, Outside
<1> QED
    BY <1>1, <1>2, <1>3, <1>4, <1>5, <1>6, <1>7
    DEF PoolStep, StoreStep, AcquireFailed, ReleasePooled, SessionRefused, ReleasePinned,
        DropPooled

\* Connection d is closed or dead, or a pooled stream has it.
Lost(d) ==
    \/ opened[d] = NoCreds
    \/ d \in dead
    \/ \E u \in Threads : rpc[u] \in Streaming /\ Pooled(u) /\ d = conn[u]

\* Connection d keeps its state, or is opened or closed.
Reset(d) ==
    \/ pg'[d] = pg[d] /\ (opened'[d] = NoCreds => opened[d] = NoCreds)
    \/ pg'[d] = Fresh /\ Lost(d)

\* The session store resets what it opens and the dead connection it closes.
LEMMA StoreResets ==
    ASSUME LinkedInv, NEW t \in Threads, NEW s \in Sessions, NEW c \in Conn \cup {NoConn},
           Storing(t, s, c), c \in Conn => opened[c] = NoCreds, NEW d \in Conn
    PROVE  Reset(d)
<1>0. HandlerInv /\ Apart /\ Links /\ NoConn \notin Conn
      BY LinkTypes DEF LinkedInv
<1>1. /\ opened' = [e \in Conn |-> IF e = c THEN session_defaults_[t]
                                   ELSE IF e \in Closes(t, s) THEN NoCreds ELSE opened[e]]
      /\ pg' = [e \in Conn |-> IF e = c \/ e \in Closes(t, s) THEN Fresh ELSE pg[e]]
      BY DEF Storing, StoreConnections, Closes
<1>2. CASE d = c
      BY <1>1, <1>2 DEF Reset, Lost
<1>3. CASE d # c /\ d \in Closes(t, s)
  <2>1. d = sessions_[s]
        BY <1>0, <1>3, ErasedEffect DEF Storing
  <2>2. opened[d] # NoCreds
        BY <1>0, <2>1 DEF Apart
  <2>3. d \in dead
        BY <1>0, <2>1, <2>2 DEF Links, Storing
  <2> QED
      BY <1>1, <1>3, <2>3 DEF Reset, Lost
<1>4. CASE d # c /\ d \notin Closes(t, s)
      BY <1>1, <1>4 DEF Reset
<1> QED
    BY <1>2, <1>3, <1>4

\* Acquiring and letting go resets the connections that are opened or closed,
\* and no connection of a live session.
LEMMA QuietConnections ==
    ASSUME LinkedInv, NEW t \in Threads, PoolStep(t) \/ StoreStep(t), NEW d \in Conn
    PROVE  Reset(d)
<1>0. /\ HandlerInv /\ Apart /\ Links
      /\ opened \in [Conn -> Creds \cup {NoCreds}]
      /\ pg \in [Conn -> PgState]
      BY LinkTypes DEF LinkedInv
<1>1. CASE UNCHANGED <<opened, healthy, pg, dead>>
      BY <1>1 DEF Reset
<1>2. \A c \in Unused : c \in Conn /\ opened[c] = NoCreds
      BY <1>0, UnusedUnowned DEF Apart
<1>3. ASSUME NEW c \in Unused, Opens(t, c), NewBackend(c)
      PROVE  Reset(d)
  <2>1. opened'[d] # NoCreds <=> d = c \/ opened[d] # NoCreds
        BY <1>0, <1>2, <1>3, OpensEffect
  <2> QED
      BY <1>0, <1>2, <1>3, <2>1 DEF NewBackend, Reset, Lost
<1>4. ASSUME NEW c \in Conn, Closing(t, c), Destroy(c), EndBackend(c)
      PROVE  Reset(d)
  <2>1. Lost(c)
    <3>1. CASE rpc[t] \in Streaming /\ Pooled(t) /\ c = conn[t]
          BY <3>1 DEF Lost
    <3>2. CASE c = sconn[t] /\ c \notin Range(sessions_) /\ ~HeldByOther(t, c)
      <4>1. c \notin healthy /\ opened[c] # NoCreds
            BY <1>0, <3>2 DEF Links, Apart
      <4> QED
          BY <1>0, <4>1 DEF Links, Lost
    <3> QED
        BY <1>4, <3>1, <3>2 DEF Closing
  <2> QED
      BY <1>0, <1>4, <2>1 DEF Destroy, EndBackend, Reset
<1>5. ASSUME NEW s \in Sessions, NEW c \in Unused \cup {NoConn}, Storing(t, s, c)
      PROVE  Reset(d)
  <2>1. c \in Conn \cup {NoConn} /\ (c \in Conn => opened[c] = NoCreds)
        BY <1>2, ConstantsAssumption
  <2> QED
      BY <1>5, <2>1, StoreResets
<1>6. QuietKind(t)
      BY PoolKind, StoreKind
<1> QED
    BY <1>1, <1>3, <1>4, <1>5, <1>6 DEF QuietKind

-----------------------------------------------------------------------------
(***************************************************************************)
(* The life of a connection.                                               *)
(***************************************************************************)

\* Who has a connection.
IsLent(c) == \E t \in Threads : conn[t] = c
InStore(c) == \E s \in Sessions : sessions_[s] = c
InStream(c) == \E t \in Threads : sconn[t] = c

PlaceNames == {"idle", "lent", "pinned", "left", "closed"}

\* The place of a connection, from who has it.
LEMMA PlaceValue ==
    ASSUME NEW c \in Conn
    PROVE  /\ c \in Range(idle_) => PlaceOf[c] = "idle"
           /\ c \notin Range(idle_) /\ IsLent(c) => PlaceOf[c] = "lent"
           /\ c \notin Range(idle_) /\ ~IsLent(c) /\ InStore(c) => PlaceOf[c] = "pinned"
           /\ c \notin Range(idle_) /\ ~IsLent(c) /\ ~InStore(c) /\ InStream(c)
                 => PlaceOf[c] = "left"
           /\ c \notin Range(idle_) /\ ~IsLent(c) /\ ~InStore(c) /\ ~InStream(c)
                 => PlaceOf[c] = "closed"
<1>1. PlaceOf[c] =
        IF c \in Range(idle_) THEN "idle"
        ELSE IF \E t \in Threads : conn[t] = c THEN "lent"
        ELSE IF \E s \in Sessions : sessions_[s] = c THEN "pinned"
        ELSE IF \E t \in Threads : sconn[t] = c THEN "left"
        ELSE "closed"
      BY DEF PlaceOf
<1> QED
    BY <1>1 DEF IsLent, InStore, InStream

\* The same after a step.
LEMMA PlaceValuePrime ==
    ASSUME NEW c \in Conn
    PROVE  /\ c \in Range(idle_') => PlaceOf'[c] = "idle"
           /\ c \notin Range(idle_') /\ IsLent(c)' => PlaceOf'[c] = "lent"
           /\ c \notin Range(idle_') /\ ~IsLent(c)' /\ InStore(c)' => PlaceOf'[c] = "pinned"
           /\ c \notin Range(idle_') /\ ~IsLent(c)' /\ ~InStore(c)' /\ InStream(c)'
                 => PlaceOf'[c] = "left"
           /\ c \notin Range(idle_') /\ ~IsLent(c)' /\ ~InStore(c)' /\ ~InStream(c)'
                 => PlaceOf'[c] = "closed"
<1>1. PlaceOf'[c] =
        IF c \in Range(idle_') THEN "idle"
        ELSE IF \E t \in Threads : conn'[t] = c THEN "lent"
        ELSE IF \E s \in Sessions : sessions_'[s] = c THEN "pinned"
        ELSE IF \E t \in Threads : sconn'[t] = c THEN "left"
        ELSE "closed"
      BY DEF PlaceOf
<1> QED
    BY <1>1 DEF IsLent, InStore, InStream

\* A connection whose owners stay keeps its place.
LEMMA PlaceKept ==
    ASSUME NEW c \in Conn,
           c \in Range(idle_') <=> c \in Range(idle_),
           IsLent(c)' <=> IsLent(c),
           InStore(c)' <=> InStore(c),
           InStore(c) \/ (InStream(c)' <=> InStream(c))
    PROVE  PlaceOf'[c] = PlaceOf[c]
BY SMT, PlaceValue, PlaceValuePrime

\* A step that moves one connection, or none.
LEMMA PlaceMoved ==
    /\ \A c \in Conn, x \in PlaceNames :
          PlaceOf'[c] = x /\ (\A d \in Conn \ {c} : PlaceOf'[d] = PlaceOf[d])
             => PlaceOf' = [PlaceOf EXCEPT ![c] = x]
    /\ (\A d \in Conn : PlaceOf'[d] = PlaceOf[d]) => PlaceOf' = PlaceOf
<1>1. PlaceOf = [d \in Conn |-> PlaceOf[d]]
      BY DEF PlaceOf
<1>2. PlaceOf' = [d \in Conn |-> PlaceOf'[d]]
      BY DEF PlaceOf
<1> DEFINE f == PlaceOf
           g == PlaceOf'
<1>3. f = [d \in Conn |-> f[d]] /\ g = [d \in Conn |-> g[d]]
      BY <1>1, <1>2
<1> HIDE DEF f, g
<1>4. /\ \A c \in Conn, x \in PlaceNames :
            g[c] = x /\ (\A d \in Conn \ {c} : g[d] = f[d]) => g = [f EXCEPT ![c] = x]
      /\ (\A d \in Conn : g[d] = f[d]) => g = f
      BY <1>3
<1> QED
    BY <1>4 DEF f, g

\* The steps of ConnectionLife, and none.
LifeStep == Life!Next \/ UNCHANGED <<PlaceOf, conn, sessions_, opened>>

\* A step that changes no owner is no step of ConnectionLife.
LEMMA LifeQuiet ==
    ASSUME UNCHANGED <<idle_, conn, sessions_, opened>>,
           \A c \in Conn : InStore(c) \/ (InStream(c)' <=> InStream(c))
    PROVE  LifeStep
<1>1. \A c \in Conn : (IsLent(c)' <=> IsLent(c)) /\ (InStore(c)' <=> InStore(c))
      BY DEF IsLent, InStore
<1>2. \A c \in Conn : PlaceOf'[c] = PlaceOf[c]
      BY <1>1, PlaceKept
<1> QED
    BY <1>2, PlaceMoved DEF LifeStep

\* The steps of the pool.
LEMMA PoolStepLife ==
    ASSUME HandlerInv, Owners, NEW t \in Threads, PoolStep(t)
    PROVE  LifeStep
<1>0. /\ idle_ \in Seq(Conn)
      /\ conn \in [Threads -> Conn \cup {NoConn}]
      /\ sconn \in [Threads -> Conn \cup {NoConn}]
      /\ sessions_ \in [Sessions -> Conn \cup {NoConn}]
      /\ opened \in [Conn -> Creds \cup {NoCreds}]
      /\ session_id \in [Threads -> Sessions \cup {NoSession}]
      /\ NoConn \notin Conn /\ NoConn \notin Range(idle_)
      /\ Places
      BY OwnerTypes
<1>a. IsInjective(idle_) /\ Apart
      BY OwnersApart
<1>q. ASSUME UNCHANGED <<idle_, conn, sconn, sessions_, opened>>
      PROVE  LifeStep
      BY <1>q, LifeQuiet DEF InStream
<1>2. CASE \/ \E p \in ClientCreds : ConnectRpc(t, p)
           \/ \E k \in SqlKinds : QueryStream(t, k, NoSession)
           \/ AcquireSpurious(t) \/ AcquirePending(t)
      BY <1>q, <1>2
      DEF ConnectRpc, Configure, WarmFail, StoreParams, QueryStream, BeginAcquire,
          AcquireSpurious, AcquirePending, SpuriousWakeup, Sleep, Reserve, streamVars
<1>3. CASE AcquireFailed(t)
  <2>1. sconn[t] = NoConn /\ sconn' = [sconn EXCEPT ![t] = NoConn]
        BY <1>0, <1>3 DEF AcquireFailed, Return, Places, Streaming
  <2>2. sconn' = sconn
        BY <1>0, <2>1
  <2> QED
      BY <1>q, <1>3, <2>2 DEF AcquireFailed, CreateFail
<1>m. ASSUME NEW c \in Conn, NEW k, Opens(t, c), opened' = [opened EXCEPT ![c] = k]
      PROVE  opened'[c] \in Creds /\ opened' = [opened EXCEPT ![c] = opened'[c]]
  <2>1. PICK j \in Mix(seen[t]) : opened' = [opened EXCEPT ![c] = j]
        BY <1>m DEF Opens
  <2>2. seen[t] \in SUBSET Creds
        BY DEF HandlerInv, ShardTypeOK, TypeOK
  <2>3. j \in Creds
        BY <2>2, MixType
  <2> QED
      BY <1>0, <2>1, <2>3
<1>4. ASSUME NEW c \in Unused, ConnectWarmed(t, c)
      PROVE  LifeStep
  <2>1. /\ c \in Conn /\ c # NoConn /\ c \notin Range(idle_)
        /\ \A u \in Threads : conn[u] # c /\ sconn[u] # c
        /\ \A s \in Sessions : sessions_[s] # c
        BY UnusedUnowned
  <2>2. Range(idle_') = Range(idle_) \cup {c}
        BY SMTT(30), <1>0, <1>a, <1>4, <2>1, PushInjective DEF ConnectWarmed, WarmOk
  <2>3. conn' = conn /\ sconn' = sconn /\ sessions_' = sessions_
        BY <1>4 DEF ConnectWarmed, WarmOk, streamVars
  <2>4. opened'[c] \in Creds /\ opened' = [opened EXCEPT ![c] = opened'[c]]
        BY <1>4, <1>m, <2>1 DEF ConnectWarmed, WarmOk, Opens
  <2>5. PlaceOf[c] = "closed"
        BY <2>1, PlaceValue DEF IsLent, InStore, InStream
  <2>6. PlaceOf'[c] = "idle"
        BY <2>1, <2>2, PlaceValuePrime
  <2>7. \A d \in Conn \ {c} : PlaceOf'[d] = PlaceOf[d]
        BY <2>2, <2>3, PlaceKept DEF IsLent, InStore, InStream
  <2>8. PlaceOf' = [PlaceOf EXCEPT ![c] = "idle"]
        BY <2>1, <2>6, <2>7, PlaceMoved DEF PlaceNames
  <2>9. Life!Warm(c, opened'[c])
        BY <2>3, <2>4, <2>5, <2>8 DEF Life!Warm
  <2> QED
      BY <2>1, <2>4, <2>9 DEF LifeStep, Life!Next
<1>5. ASSUME NEW c \in Unused, AcquireCreated(t, c)
      PROVE  LifeStep
  <2>1. /\ c \in Conn /\ c # NoConn /\ c \notin Range(idle_)
        /\ \A u \in Threads : conn[u] # c /\ sconn[u] # c
        /\ \A s \in Sessions : sessions_[s] # c
        BY UnusedUnowned
  <2>2. /\ idle_' = idle_ /\ sconn' = sconn /\ sessions_' = sessions_
        /\ conn' = [conn EXCEPT ![t] = c] /\ conn[t] = NoConn
        BY <1>0, <1>5 DEF AcquireCreated, CreateOk, Goto, Places
  <2>3. opened'[c] \in Creds /\ opened' = [opened EXCEPT ![c] = opened'[c]]
        BY <1>5, <1>m, <2>1 DEF AcquireCreated, CreateOk, Opens
  <2>5. PlaceOf[c] = "closed"
        BY <2>1, PlaceValue DEF IsLent, InStore, InStream
  <2>6. PlaceOf'[c] = "lent"
        BY <1>0, <2>1, <2>2, PlaceValuePrime DEF IsLent
  <2>7. \A d \in Conn \ {c} : PlaceOf'[d] = PlaceOf[d]
    <3>1. \A d \in Conn \ {c} : IsLent(d)' <=> IsLent(d)
          BY <1>0, <2>2 DEF IsLent
    <3> QED
        BY <2>2, <3>1, PlaceKept DEF InStore, InStream
  <2>8. PlaceOf' = [PlaceOf EXCEPT ![c] = "lent"]
        BY <2>1, <2>6, <2>7, PlaceMoved DEF PlaceNames
  <2>9. Life!Lend(t, c)
        BY <2>2, <2>3, <2>5, <2>8 DEF Life!Lend
  <2> QED
      BY <2>1, <2>9 DEF LifeStep, Life!Next
<1>6. CASE AcquireIdle(t)
  <2> DEFINE c == Head(idle_)
  <2>1. /\ c \in Range(idle_) /\ c \in Conn
        /\ Range(idle_') = Range(idle_) \ {c}
        BY SMTT(30), <1>0, <1>a, <1>6, PopInjective DEF AcquireIdle, TakeIdle
  <2>2. /\ sconn' = sconn /\ sessions_' = sessions_ /\ opened' = opened
        /\ conn' = [conn EXCEPT ![t] = c] /\ conn[t] = NoConn
        BY <1>0, <1>6 DEF AcquireIdle, TakeIdle, Goto, Places
  <2> HIDE DEF c
  <2>5. PlaceOf[c] = "idle"
        BY <2>1, PlaceValue
  <2>6. PlaceOf'[c] = "lent"
        BY <1>0, <2>1, <2>2, PlaceValuePrime DEF IsLent
  <2>7. \A d \in Conn \ {c} : PlaceOf'[d] = PlaceOf[d]
    <3>1. \A d \in Conn \ {c} : IsLent(d)' <=> IsLent(d)
          BY <1>0, <2>2 DEF IsLent
    <3> QED
        BY <2>1, <2>2, <3>1, PlaceKept DEF InStore, InStream
  <2>8. PlaceOf' = [PlaceOf EXCEPT ![c] = "lent"]
        BY <2>1, <2>6, <2>7, PlaceMoved DEF PlaceNames
  <2>9. Life!Lend(t, c)
        BY <2>2, <2>5, <2>8 DEF Life!Lend
  <2> QED
      BY <2>1, <2>9 DEF LifeStep, Life!Next
<1>7. CASE SessionFound(t)
  <2>1. /\ UNCHANGED <<idle_, conn, sessions_, opened>>
        /\ sconn' = [sconn EXCEPT ![t] = sessions_[session_id[t]]]
        /\ session_id[t] \in Sessions
        /\ sconn[t] = NoConn
        BY <1>0, <1>7 DEF SessionFound, poolVars, Pooled, Places, Streaming
  <2>2. \A c \in Conn : InStore(c) \/ (InStream(c)' <=> InStream(c))
        BY <1>0, <2>1 DEF InStore, InStream
  <2> QED
      BY <2>1, <2>2, LifeQuiet
<1>8. CASE ReleasePooled(t)
  <2>0. PICK c \in Conn : c = conn[t]
        BY <1>0, <1>8 DEF ReleasePooled, Release, Places
  <2>1. /\ c # NoConn /\ c \notin Range(idle_)
        /\ conn' = [conn EXCEPT ![t] = NoConn] /\ sessions_' = sessions_
        BY SMTT(30), <1>0, <1>a, <1>8, <2>0 DEF ReleasePooled, Release, Places, Apart
  <2>2. sconn' = sconn
    <3>1. sconn[t] = NoConn /\ sconn' = [sconn EXCEPT ![t] = NoConn]
          BY <1>0, <1>8 DEF ReleasePooled, Return, Places
    <3> QED
        BY <1>0, <3>1
  <2>3. \A u \in Threads : u # t => conn[u] # c
        BY SMTT(30), <1>a, <1>0, <2>0, <2>1 DEF Apart
  <2>4. /\ \A s \in Sessions : sessions_[s] # c
        /\ \A u \in Threads : sconn[u] # c
        BY <1>a, <1>0, <2>0, <2>1 DEF Apart
  <2>5. /\ \A d \in Conn \ {c} : IsLent(d)' <=> IsLent(d)
        /\ ~IsLent(c)' /\ ~InStore(c)' /\ ~InStream(c)'
        BY <1>0, <2>0, <2>1, <2>2, <2>3, <2>4 DEF IsLent, InStore, InStream
  <2>6. CASE opened' = [opened EXCEPT ![c] = NoCreds] /\ idle_' = idle_
    <3>1. PlaceOf'[c] = "closed"
          BY <2>1, <2>5, <2>6, PlaceValuePrime
    <3>2. \A d \in Conn \ {c} : PlaceOf'[d] = PlaceOf[d]
          BY <2>1, <2>2, <2>5, <2>6, PlaceKept DEF InStore, InStream
    <3>3. PlaceOf' = [PlaceOf EXCEPT ![c] = "closed"]
          BY <2>1, <3>1, <3>2, PlaceMoved DEF PlaceNames
    <3>4. Life!Discard(t)
          BY <2>0, <2>1, <2>6, <3>3 DEF Life!Discard
    <3> QED
        BY <3>4 DEF LifeStep, Life!Next
  <2>7. CASE opened' = opened /\ idle_' = Append(idle_, c)
    <3>1. Range(idle_') = Range(idle_) \cup {c}
          BY SMTT(30), <1>0, <1>a, <2>1, <2>7, PushInjective
    <3>2. PlaceOf'[c] = "idle"
          BY <2>1, <3>1, PlaceValuePrime
    <3>3. \A d \in Conn \ {c} : PlaceOf'[d] = PlaceOf[d]
          BY <2>1, <2>2, <2>5, <3>1, PlaceKept DEF InStore, InStream
    <3>4. PlaceOf' = [PlaceOf EXCEPT ![c] = "idle"]
          BY <2>1, <3>2, <3>3, PlaceMoved DEF PlaceNames
    <3>5. Life!GiveBack(t)
          BY <2>0, <2>1, <2>7, <3>4 DEF Life!GiveBack
    <3> QED
        BY <3>5 DEF LifeStep, Life!Next
  <2> QED
      BY <1>8, <2>0, <2>6, <2>7 DEF ReleasePooled, Release, Destroy
<1> QED
    BY <1>2, <1>3, <1>4, <1>5, <1>6, <1>7, <1>8 DEF PoolStep

\* GetOrCreate that gives session s connection c, or none: a step of the
\* abstract specification when the entry changes.
LEMMA StoreLife ==
    ASSUME HandlerInv, Apart, Apart', NEW t \in Threads, NEW s \in Sessions,
           NEW c \in Conn \cup {NoConn},
           c \in Conn => /\ c \notin Range(idle_)
                         /\ \A u \in Threads : conn[u] # c /\ sconn[u] # c
                         /\ \A r \in Sessions : sessions_[r] # c,
           StoreConnections(t, s, c), sconn[t] = NoConn, sessions_[s] \notin healthy,
           session_defaults_[t] \in Creds, c # sessions_[s],
           sconn' = [sconn EXCEPT ![t] = c],
           sessions_' = [sessions_ EXCEPT ![s] = c]
    PROVE  Life!Repin(s, c)
<1>0. /\ idle_ \in Seq(Conn)
      /\ conn \in [Threads -> Conn \cup {NoConn}]
      /\ sconn \in [Threads -> Conn \cup {NoConn}]
      /\ sessions_ \in [Sessions -> Conn \cup {NoConn}]
      /\ opened \in [Conn -> Creds \cup {NoCreds}]
      /\ NoConn \notin Conn
      BY OwnerTypes
<1> DEFINE k == session_defaults_[t]
           fate == IF \E u \in Threads : sconn[u] = sessions_[s] THEN "left" ELSE "closed"
<1>1. idle_' = idle_ /\ conn' = conn
      BY DEF StoreConnections
<1>2. \A d \in Conn : \/ d = c /\ opened'[d] = k
                      \/ d # c /\ opened'[d] \in {opened[d], NoCreds}
      BY DEF StoreConnections
<1>3. \A d \in Conn \ {c} : /\ InStream(d)' <=> InStream(d)
                            /\ d # sessions_[s] => (InStore(d)' <=> InStore(d))
      BY <1>0 DEF InStream, InStore
<1>4. \A d \in Conn : IsLent(d)' <=> IsLent(d)
      BY <1>1 DEF IsLent
<1>5. c # NoConn => PlaceOf[c] = "closed"
      BY PlaceValue DEF IsLent, InStore, InStream
<1>6. c \in Conn => PlaceOf'[c] = "pinned"
  <2>1. c \in Conn => InStore(c)' /\ ~IsLent(c)' /\ c \notin Range(idle_')
        BY <1>0, <1>1 DEF InStore, IsLent
  <2> QED
      BY <2>1, PlaceValuePrime
<1>7. ASSUME NEW d \in Conn, d # c, d = sessions_[s]
      PROVE  PlaceOf'[d] = fate
  <2>0. d # NoConn
        BY <1>0
  <2>2. /\ \A r \in Sessions : sessions_[r] = d => r = s
        /\ d \notin Range(idle_) /\ \A u \in Threads : conn[u] # d
        BY SMTT(30), <1>7, <2>0 DEF Apart
  <2>1. d \notin Range(idle_') /\ ~IsLent(d)'
        BY <1>1, <2>2 DEF IsLent
  <2>4. ~InStore(d)'
        BY <1>0, <1>7, <2>2 DEF InStore
  <2>3. InStream(d)' <=> \E u \in Threads : sconn[u] = sessions_[s]
        BY <1>3, <1>7 DEF InStream
  <2> QED
      BY <2>1, <2>3, <2>4, PlaceValuePrime
<1>8. ASSUME NEW d \in Conn, d # c, d # sessions_[s]
      PROVE  PlaceOf'[d] = PlaceOf[d]
      BY <1>1, <1>3, <1>4, <1>8, PlaceKept
<1>9. PlaceOf' = [d \in Conn |-> IF d = c THEN "pinned"
                                 ELSE IF d = sessions_[s] THEN fate ELSE PlaceOf[d]]
  <2>1. PlaceOf' = [d \in Conn |-> PlaceOf'[d]]
        BY DEF PlaceOf
  <2> HIDE DEF fate
  <2>2. \A d \in Conn : PlaceOf'[d] = IF d = c THEN "pinned"
                                      ELSE IF d = sessions_[s] THEN fate ELSE PlaceOf[d]
        BY <1>6, <1>7, <1>8
  <2> QED
      BY <2>1, <2>2
<1>10. \A d \in Conn : PlaceOf'[d] = "closed" <=> opened'[d] = NoCreds
  <2>1. \A d \in Conn : PlaceOf'[d] = "closed" <=>
           ~(d \in Range(idle_') \/ IsLent(d)' \/ InStore(d)' \/ InStream(d)')
        BY SMTT(30), PlaceValuePrime
  <2>2. \A d \in Conn : opened'[d] # NoCreds <=>
           (d \in Range(idle_') \/ IsLent(d)' \/ InStore(d)' \/ InStream(d)')
        BY DEF Apart, IsLent, InStore, InStream
  <2> QED
      BY <2>1, <2>2
<1>11. opened' = [d \in Conn |-> IF d = c THEN k
                                 ELSE IF PlaceOf'[d] = "closed" THEN NoCreds ELSE opened[d]]
  <2>1. opened' = [d \in Conn |-> opened'[d]]
        BY DEF StoreConnections
  <2> HIDE DEF k
  <2>2. \A d \in Conn : opened'[d] = IF d = c THEN k
                                     ELSE IF PlaceOf'[d] = "closed" THEN NoCreds ELSE opened[d]
        BY <1>2, <1>10
  <2> QED
      BY <2>1, <2>2
<1>12. k \in Creds /\ fate \in {"left", "closed"}
       OBVIOUS
<1> HIDE DEF k, fate
<1> QED
    BY <1>1, <1>5, <1>9, <1>11, <1>12 DEF Life!Repin

\* The steps of the session store and the other ways to let go.
LEMMA StoreStepLife ==
    ASSUME HandlerInv, Apart, Apart', NEW t \in Threads, StoreStep(t)
    PROVE  LifeStep
<1>0. /\ idle_ \in Seq(Conn)
      /\ conn \in [Threads -> Conn \cup {NoConn}]
      /\ sconn \in [Threads -> Conn \cup {NoConn}]
      /\ sessions_ \in [Sessions -> Conn \cup {NoConn}]
      /\ opened \in [Conn -> Creds \cup {NoCreds}]
      /\ session_id \in [Threads -> Sessions \cup {NoSession}]
      /\ NoConn \notin Conn
      /\ Places
      BY OwnerTypes
<1>d. session_defaults_[t] \in Creds \cup {NoCreds}
      BY DEF HandlerInv, ShardTypeOK
<1>1. CASE \E k \in SqlKinds, s \in Sessions : QueryStream(t, k, s)
  <2>1. UNCHANGED <<idle_, conn, sconn, sessions_, opened>>
        BY <1>1, ShardAssumption DEF QueryStream
  <2> QED
      BY <2>1, LifeQuiet DEF InStream
<1>2. ASSUME NEW c \in Unused, SessionCreated(t, c)
      PROVE  LifeStep
  <2>1. /\ c \in Conn /\ c # NoConn /\ c \notin Range(idle_)
        /\ \A u \in Threads : conn[u] # c /\ sconn[u] # c
        /\ \A r \in Sessions : sessions_[r] # c
        BY UnusedUnowned
  <2>2. PICK s \in Sessions : s = session_id[t]
        BY <1>0, <1>2 DEF SessionCreated, Pooled
  <2>3. /\ sconn[t] = NoConn /\ session_defaults_[t] \in Creds
        /\ sessions_[s] \notin healthy
        BY <1>0, <1>d, <1>2, <2>2 DEF SessionCreated, Places, Streaming
  <2>4. /\ sconn' = [sconn EXCEPT ![t] = c]
        /\ sessions_' = [sessions_ EXCEPT ![s] = c]
        /\ StoreConnections(t, s, c)
        BY <1>2, <2>2 DEF SessionCreated
  <2>5. Life!Repin(s, c)
        BY <2>1, <2>3, <2>4, StoreLife
  <2> QED
      BY <2>1, <2>5 DEF LifeStep, Life!Next
<1>3. CASE SessionRefused(t)
  <2>2. PICK s \in Sessions : s = session_id[t]
        BY <1>0, <1>3 DEF SessionRefused, Pooled
  <2>3. /\ sconn[t] = NoConn /\ session_defaults_[t] \in Creds
        /\ sessions_[s] \notin healthy
        BY <1>0, <1>d, <1>3, <2>2 DEF SessionRefused, Places, Streaming
  <2>6. /\ Erased(s) = [sessions_ EXCEPT ![s] = NoConn]
        /\ \A d \in Conn : d \in Closes(t, s) <=>
              d = sessions_[s] /\ \A u \in Threads : sconn[u] # d
        BY <2>3, ErasedEffect
  <2>4. /\ sconn' = [sconn EXCEPT ![t] = NoConn]
        /\ sessions_' = [sessions_ EXCEPT ![s] = NoConn]
        /\ StoreConnections(t, s, NoConn)
        BY <1>3, <2>2, <2>6 DEF SessionRefused, Return
  <2>5. CASE sessions_[s] # NoConn
    <3>1. Life!Repin(s, NoConn)
          BY <1>0, <2>3, <2>4, <2>5, StoreLife
    <3> QED
        BY <3>1 DEF LifeStep, Life!Next
  <2>7. CASE sessions_[s] = NoConn
    <3>1. sconn' = sconn /\ sessions_' = sessions_
          BY <1>0, <2>3, <2>4, <2>7
    <3>2. \A d \in Conn : d \notin Closes(t, s)
          BY <1>0, <2>6, <2>7
    <3>3. opened' = [d \in Conn |-> IF d = NoConn THEN session_defaults_[t]
                                    ELSE IF d \in Closes(t, s) THEN NoCreds ELSE opened[d]]
          BY <2>4 DEF StoreConnections, Closes
    <3>4. opened' = opened
          BY <1>0, <3>2, <3>3
    <3> QED
        BY <2>4, <3>1, <3>4, LifeQuiet DEF InStream, StoreConnections
  <2> QED
      BY <2>5, <2>7
<1>4. CASE ReleasePinned(t)
  <2>1. PICK c \in Conn : c = sconn[t]
        BY <1>0, <1>4 DEF ReleasePinned, Places, Streaming
  <2>2. /\ UNCHANGED <<idle_, conn, sessions_>>
        /\ sconn' = [sconn EXCEPT ![t] = NoConn]
        BY <1>4 DEF ReleasePinned, Return
  <2>3. Range(sessions_) = {sessions_[s] : s \in Sessions}
        BY <1>0 DEF Range
  <2>9. \A d \in Conn \ {c} : InStream(d)' <=> InStream(d)
        BY <1>0, <2>1, <2>2 DEF InStream
  <2>4. CASE c \notin Range(sessions_) /\ ~HeldByOther(t, c)
    <3>1. opened' = [opened EXCEPT ![c] = NoCreds]
          BY <1>4, <2>1, <2>4 DEF ReleasePinned, Destroy
    <3>2. /\ \A s \in Sessions : sessions_[s] # c
          /\ \A u \in Threads : u # t => sconn[u] # c
          /\ c \notin Range(idle_) /\ \A u \in Threads : conn[u] # c
          BY SMTT(30), <1>0, <2>1, <2>3, <2>4 DEF HeldByOther, Apart
    <3>3. PlaceOf[c] = "left"
          BY <2>1, <3>2, PlaceValue DEF IsLent, InStore, InStream
    <3>4. ~IsLent(c)' /\ ~InStore(c)' /\ ~InStream(c)'
          BY <1>0, <2>2, <3>2 DEF IsLent, InStore, InStream
    <3>5. PlaceOf'[c] = "closed"
          BY <2>2, <3>2, <3>4, PlaceValuePrime
    <3>6. \A d \in Conn \ {c} : PlaceOf'[d] = PlaceOf[d]
          BY <2>2, <2>9, PlaceKept DEF IsLent, InStore
    <3>7. PlaceOf' = [PlaceOf EXCEPT ![c] = "closed"]
          BY <3>5, <3>6, PlaceMoved DEF PlaceNames
    <3>8. Life!Finish(c)
          BY <2>2, <3>1, <3>3, <3>7 DEF Life!Finish
    <3> QED
        BY <3>8 DEF LifeStep, Life!Next
  <2>5. CASE c \in Range(sessions_) \/ HeldByOther(t, c)
    <3>1. opened' = opened
          BY <1>4, <2>1, <2>5 DEF ReleasePinned
    <3>2. InStore(c) \/ \E u \in Threads : u # t /\ sconn[u] = c
          BY <2>3, <2>5 DEF HeldByOther, InStore
    <3>3. InStore(c) \/ (InStream(c)' <=> InStream(c))
          BY <1>0, <2>1, <2>2, <3>2 DEF InStream
    <3> QED
        BY <2>2, <2>9, <3>1, <3>3, LifeQuiet
  <2> QED
      BY <2>4, <2>5
<1>5. CASE DropPooled(t)
  <2>1. PICK c \in Conn : c = conn[t]
        BY <1>0, <1>5 DEF DropPooled, Places, Streaming
  <2>2. /\ UNCHANGED <<idle_, sessions_>>
        /\ conn' = [conn EXCEPT ![t] = NoConn]
        /\ opened' = [opened EXCEPT ![c] = NoCreds]
        BY <1>5, <2>1 DEF DropPooled, Destroy
  <2>3. sconn' = sconn
    <3>1. sconn[t] = NoConn /\ sconn' = [sconn EXCEPT ![t] = NoConn]
          BY <1>0, <1>5 DEF DropPooled, Return, Places
    <3> QED
        BY <1>0, <3>1
  <2>4. /\ \A u \in Threads : u # t => conn[u] # c
        /\ c \notin Range(idle_)
        /\ \A s \in Sessions : sessions_[s] # c
        /\ \A u \in Threads : sconn[u] # c
        BY SMTT(30), <1>0, <2>1 DEF Apart
  <2>5. /\ \A d \in Conn \ {c} : IsLent(d)' <=> IsLent(d)
        /\ ~IsLent(c)' /\ ~InStore(c)' /\ ~InStream(c)'
        BY <1>0, <2>1, <2>2, <2>3, <2>4 DEF IsLent, InStore, InStream
  <2>6. PlaceOf'[c] = "closed"
        BY <2>2, <2>4, <2>5, PlaceValuePrime
  <2>7. \A d \in Conn \ {c} : PlaceOf'[d] = PlaceOf[d]
        BY <2>2, <2>3, <2>5, PlaceKept DEF InStore, InStream
  <2>8. PlaceOf' = [PlaceOf EXCEPT ![c] = "closed"]
        BY <2>6, <2>7, PlaceMoved DEF PlaceNames
  <2>9. Life!Discard(t)
        BY <1>0, <2>1, <2>2, <2>8 DEF Life!Discard
  <2> QED
      BY <2>9 DEF LifeStep, Life!Next
<1> QED
    BY <1>1, <1>2, <1>3, <1>4, <1>5 DEF StoreStep

\* Every step of the service is a step of ConnectionLife or none.
LEMMA LifeNext ==
    ASSUME OwnedInv, OwnedInv', [ShardNext]_vars
    PROVE  [Life!Next]_(Life!lifeVars)
<1>0. HandlerInv /\ Owners /\ Apart /\ Apart'
      BY OwnersApart, OwnersApartPrime DEF OwnedInv
<1>1. ASSUME UNCHANGED <<idle_, conn, sconn, sessions_, opened>>
      PROVE  LifeStep
      BY <1>1, LifeQuiet DEF InStream
<1>2. ASSUME NEW t \in Threads, StreamStep(t)
      PROVE  LifeStep
      BY <1>0, <1>1, <1>2, StreamStepEffect DEF OnConnection, StreamFrame, poolSlots
<1>3. ASSUME (\E c \in Conn : BackendLost(c)) \/ UNCHANGED vars
      PROVE  LifeStep
  <2>1. UNCHANGED <<poolVars, streamVars, sessions_>>
        BY <1>3 DEF BackendLost, vars
  <2> QED
      BY <1>1, <2>1 DEF poolVars, streamVars
<1>4. LifeStep
      BY <1>0, <1>2, <1>3, PoolStepLife, StoreStepLife, StepKinds
<1> QED
    BY <1>4 DEF LifeStep, Life!lifeVars

\* The service implements ConnectionLife: a connection is closed, idle, lent to
\* one stream, pinned to one session or left to the streams of a session the
\* store gave up, and every step of the pool, the store and the streams moves
\* it between these places as the abstract specification allows.
THEOREM ServiceImplementsConnectionLife == ShardSpec => ImplementsConnectionLife
<1>1. ShardInit => Life!Init
  <2> SUFFICES ASSUME ShardInit PROVE Life!Init
      OBVIOUS
  <2>1. idle_ = <<>> /\ Range(idle_) = {}
        BY SMT DEF ShardInit, PoolInit, Range
  <2>2. \A c \in Conn : ~IsLent(c) /\ ~InStore(c) /\ ~InStream(c)
        BY ConstantsAssumption DEF ShardInit, PoolInit, IsLent, InStore, InStream
  <2>3. \A c \in Conn : PlaceOf[c] = "closed"
        BY <2>1, <2>2, PlaceValue
  <2>4. PlaceOf = [c \in Conn |-> "closed"]
        BY <2>3 DEF PlaceOf
  <2> QED
      BY <2>4 DEF ShardInit, PoolInit, Life!Init
<1> QED
    BY <1>1, OwnersUnique, LifeNext, PTL DEF ShardSpec, ImplementsConnectionLife, Life!Spec
=============================================================================
