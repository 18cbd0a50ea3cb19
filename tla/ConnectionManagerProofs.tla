----------------------- MODULE ConnectionManagerProofs -----------------------
(***************************************************************************)
(* Proofs about the connection pool, for any number of threads, any pool   *)
(* size and any number of Connect and Acquire calls.                       *)
(***************************************************************************)
EXTENDS ConnectionManager, FiniteSetTheorems, TLAPS

-----------------------------------------------------------------------------
(***************************************************************************)
(* Facts about the helpers.                                                *)
(***************************************************************************)

\* The effective pool size is at least one, whatever Configure was given.
LEMMA PoolSizePositive == pool_size_ \in Nat /\ pool_size_ >= 1
BY ConstantsAssumption DEF pool_size_

\* A thread that opens a connection ends up with well-typed credentials.
LEMMA MixType ==
    ASSUME NEW S \in SUBSET Creds
    PROVE  Mix(S) \subseteq Creds
BY DEF Mix, Creds

\* notify_one changes the program counter of at most one thread, from asleep
\* to woken; it releases a thread whenever one is asleep.
LEMMA NotifyOneEffect ==
    ASSUME NEW f \in [Threads -> PoolPC], NEW g \in NotifyOne(f)
    PROVE  \/ /\ g = f
              /\ \A u \in Threads : f[u] # "waiting"
           \/ \E u \in Threads : f[u] = "waiting" /\ g = [f EXCEPT ![u] = "woken"]
BY DEF NotifyOne

\* A thread that leaves the pool's code and calls notify_one keeps the program
\* counters well typed.
LEMMA NotifyOutType ==
    ASSUME pc \in [Threads -> PoolPC], NEW t \in Threads,
           NEW g \in NotifyOne([pc EXCEPT ![t] = "out"])
    PROVE  g \in [Threads -> PoolPC]
<1>1. [pc EXCEPT ![t] = "out"] \in [Threads -> PoolPC]
      BY DEF PoolPC
<1> DEFINE f == [pc EXCEPT ![t] = "out"]
<1> HIDE DEF f
<1>2. CASE g = f
      BY <1>1, <1>2 DEF f
<1>3. CASE \E u \in Threads : g = [f EXCEPT ![u] = "woken"]
      BY <1>1, <1>3 DEF f, PoolPC
<1> QED
    BY Zenon, <1>1, <1>2, <1>3, NotifyOneEffect DEF f

-----------------------------------------------------------------------------
(***************************************************************************)
(* Type correctness.  It rests on the order of the calls: params_ is set   *)
(* before anybody opens a connection with it, and a connection was warmed  *)
(* before anybody acquires one.                                            *)
(***************************************************************************)

\* The order of the calls that type correctness rests on.
CallOrder ==
    /\ warmed = 0 => /\ \A t \in Threads : pc[t] \in {"out", "warming"}
                     /\ connect_params_ = NoCreds
    /\ params_ = NoCreds => warmed = 0 /\ \A t \in Threads : pc[t] = "out"
    /\ params_ # NoCreds => params_ \in supplied

TypeInv == TypeOK /\ CallOrder

\* The pool starts well typed, with no thread inside it.
LEMMA TypeInvInit == PoolInit => TypeInv
<1> SUFFICES ASSUME PoolInit PROVE TypeInv
    OBVIOUS
<1>1. clean \in BOOLEAN
      BY Zenon DEF PoolInit
<1>2. idle_ \in Seq(Conn)
      BY DEF PoolInit
<1> QED
    BY <1>1, <1>2, ConstantsAssumption
    DEF PoolInit, TypeInv, TypeOK, CallOrder, PoolPC

\* Every step of a Connect RPC or a borrower keeps types and call order.
LEMMA TypeInvNext == TypeInv /\ [Next]_poolVars => TypeInv'
<1> SUFFICES ASSUME TypeInv, [Next]_poolVars
             PROVE  TypeInv'
    OBVIOUS
<1> USE ConstantsAssumption DEF TypeInv, TypeOK, CallOrder, connectVars
<1>1. ASSUME NEW t \in Threads, NEW p \in ClientCreds, Configure(t, p)
      PROVE  TypeInv'
      BY <1>1 DEF Configure, PoolPC, Opening
<1>2. ASSUME NEW t \in Threads, NEW c \in Closed, WarmOk(t, c)
      PROVE  TypeInv'
  <2>1. c \in Conn
        BY DEF Closed
  <2>2. opened' \in [Conn -> Creds \cup {NoCreds}]
        BY <1>2, MixType, <2>1 DEF WarmOk, Opens
  <2>3. idle_' \in Seq(Conn)
        BY <1>2, <2>1 DEF WarmOk
  <2> QED
      BY <1>2, <2>1, <2>2, <2>3 DEF WarmOk, Opens, PoolPC
<1>3. ASSUME NEW t \in Threads, WarmFail(t)
      PROVE  TypeInv'
      BY Zenon, <1>3 DEF WarmFail, PoolPC
<1>s. ASSUME NEW t \in Threads, StoreParams(t)
      PROVE  TypeInv'
      BY <1>s DEF StoreParams, PoolPC
<1>4. ASSUME NEW t \in Threads, connect_params_ # NoCreds, BeginAcquire(t)
      PROVE  TypeInv'
      BY <1>4 DEF BeginAcquire, PoolPC
<1>5. ASSUME NEW t \in Threads, SpuriousWakeup(t)
      PROVE  TypeInv'
      BY <1>5 DEF SpuriousWakeup, PoolPC
<1>6. ASSUME NEW t \in Threads, Sleep(t)
      PROVE  TypeInv'
      BY <1>6 DEF Sleep, PoolPC
<1>7. ASSUME NEW t \in Threads, TakeIdle(t)
      PROVE  TypeInv'
  <2>1. Head(idle_) \in Conn /\ idle_' \in Seq(Conn)
        BY <1>7 DEF TakeIdle
  <2> QED
      BY <1>7, <2>1 DEF TakeIdle, PoolPC, Occupied
<1>8. ASSUME NEW t \in Threads, Reserve(t)
      PROVE  TypeInv'
      BY <1>8 DEF Reserve, PoolPC, Occupied
<1>9. ASSUME NEW t \in Threads, NEW c \in Closed, CreateOk(t, c)
      PROVE  TypeInv'
  <2>1. c \in Conn
        BY DEF Closed
  <2>2. opened' \in [Conn -> Creds \cup {NoCreds}]
        BY <1>9, MixType, <2>1 DEF CreateOk, Opens
  <2> QED
      BY <1>9, <2>1, <2>2 DEF CreateOk, Opens, PoolPC, Occupied
<1>10. ASSUME NEW t \in Threads, CreateFail(t)
       PROVE  TypeInv'
  <2>1. pc' \in [Threads -> PoolPC]
        BY Zenon, <1>10, NotifyOutType DEF CreateFail
  <2>2. warmed # 0 /\ params_ # NoCreds
        BY <1>10 DEF CreateFail
  <2>3. in_use_' \in Int
        BY <1>10 DEF CreateFail
  <2>4. seen' \in [Threads -> SUBSET Creds]
        BY <1>10 DEF CreateFail
  <2>5. UNCHANGED <<connectVars, idle_, conn, opened, healthy, acquires>>
        BY <1>10 DEF CreateFail
  <2> QED
      BY <2>1, <2>2, <2>3, <2>4, <2>5
<1>11. ASSUME NEW t \in Threads, NEW broken \in BOOLEAN, Release(t, broken)
       PROVE  TypeInv'
  <2>1. pc' \in [Threads -> PoolPC]
        BY Zenon, <1>11, NotifyOutType DEF Release
  <2>2. warmed # 0 /\ params_ # NoCreds
        BY <1>11 DEF Release
  <2>3. in_use_' \in Int /\ conn' \in [Threads -> Conn \cup {NoConn}]
        BY <1>11 DEF Release
  <2>4. /\ idle_' \in Seq(Conn)
        /\ opened' \in [Conn -> Creds \cup {NoCreds}]
        /\ healthy' \in SUBSET Conn
    <3>1. CASE Destroy(conn[t]) /\ idle_' = idle_
          BY Zenon, <3>1 DEF Destroy
    <3>2. CASE /\ idle_' = Append(idle_, conn[t]) /\ conn[t] \in healthy
               /\ opened' = opened /\ healthy' = healthy
          BY <3>2
    <3> QED
        BY <1>11, <3>1, <3>2 DEF Release
  <2>5. UNCHANGED <<connectVars, seen, acquires>>
        BY <1>11 DEF Release
  <2> QED
      BY <2>1, <2>2, <2>3, <2>4, <2>5
<1>12. ASSUME NEW t \in Threads, LinkLost(t)
       PROVE  TypeInv'
       BY <1>12 DEF LinkLost
<1>13. CASE UNCHANGED poolVars
       BY <1>13 DEF poolVars, connectVars
<1> QED
    BY ZenonT(30), <1>1, <1>2, <1>3, <1>s, <1>4, <1>5, <1>6, <1>7, <1>8, <1>9, <1>10, <1>11,
       <1>12, <1>13 DEF Next, ConnectStep, AcquireStep

\* Every variable of the pool keeps its type, and the calls keep their order.
THEOREM TypeCorrect == Spec => []TypeInv
BY TypeInvInit, TypeInvNext, PTL DEF Spec

\* Every variable of the pool keeps its type.
THEOREM WellTyped == Spec => []TypeOK
BY TypeCorrect, PTL DEF TypeInv

-----------------------------------------------------------------------------
(***************************************************************************)
(* Counting threads: what each action does to the sets of threads that     *)
(* sleep, that were woken and that own a slot.                             *)
(***************************************************************************)

\* The sets of threads are finite, so that their sizes can be compared.
LEMMA ThreadSetsFinite ==
    /\ IsFiniteSet(Woken) /\ Cardinality(Woken) \in Nat
    /\ IsFiniteSet(Holders) /\ Cardinality(Holders) \in Nat
<1>1. Woken \subseteq Threads /\ Holders \subseteq Threads
      BY DEF Woken, Holders, At
<1> QED
    BY <1>1, ConstantsAssumption, FS_Subset, FS_CardinalityType

\* A thread that leaves the pool's code gives up its slot and hands the
\* notification to a sleeping thread, if there is one.
LEMMA NotifyOutSets ==
    ASSUME pc \in [Threads -> PoolPC], NEW t \in Threads, pc[t] \in Occupied,
           pc' \in NotifyOne([pc EXCEPT ![t] = "out"])
    PROVE  /\ Holders' = Holders \ {t}
           /\ \/ Sleeping' = {}
              \/ \E u \in Threads \ Woken : Woken' = Woken \cup {u}
<1> DEFINE f == [pc EXCEPT ![t] = "out"]
<1>1. f \in [Threads -> PoolPC]
      BY DEF PoolPC
<1>2. CASE pc' = f /\ \A u \in Threads : f[u] # "waiting"
      BY <1>2 DEF Holders, Sleeping, At, Occupied
<1>3. CASE \E u \in Threads : f[u] = "waiting" /\ pc' = [f EXCEPT ![u] = "woken"]
  <2>1. PICK u \in Threads : f[u] = "waiting" /\ pc' = [f EXCEPT ![u] = "woken"]
        BY <1>3
  <2>2. u # t /\ pc[u] = "waiting"
        BY <2>1
  <2>3. \A v \in Threads : pc'[v] = IF v = u THEN "woken"
                                    ELSE IF v = t THEN "out" ELSE pc[v]
        BY <2>1, <2>2
  <2>4. Woken' = Woken \cup {u} /\ u \notin Woken
        BY <2>2, <2>3 DEF Woken, At, Occupied
  <2>5. Holders' = Holders \ {t}
        BY <2>2, <2>3 DEF Holders, Occupied
  <2> QED
      BY <2>4, <2>5
<1> HIDE DEF f
<1> QED
    BY Zenon, <1>1, <1>2, <1>3, NotifyOneEffect DEF f

-----------------------------------------------------------------------------
(***************************************************************************)
(* in_use_ counts the threads that own a slot.                             *)
(***************************************************************************)

\* Every step keeps in_use_ equal to the number of slot owners.
LEMMA SlotAccountingNext ==
    TypeInv /\ SlotAccounting /\ [Next]_poolVars => SlotAccounting'
<1> SUFFICES ASSUME TypeInv, SlotAccounting, [Next]_poolVars
             PROVE  SlotAccounting'
    OBVIOUS
<1> USE DEF SlotAccounting
<1>0. pc \in [Threads -> PoolPC] /\ in_use_ \in Int
      BY DEF TypeInv, TypeOK
<1>1. ASSUME Holders' = Holders, in_use_' = in_use_
      PROVE  SlotAccounting'
      BY <1>1
<1>2. ASSUME NEW t \in Threads, TakeIdle(t) \/ Reserve(t)
      PROVE  SlotAccounting'
  <2>1. Holders' = Holders \cup {t} /\ t \notin Holders
        BY <1>0, <1>2 DEF TakeIdle, Reserve, Holders, Occupied
  <2>2. in_use_' = in_use_ + 1
        BY <1>2 DEF TakeIdle, Reserve
  <2> QED
      BY Zenon, <2>1, <2>2, ThreadSetsFinite, FS_AddElement
<1>3. ASSUME NEW t \in Threads, pc[t] \in Occupied, in_use_' = in_use_ - 1,
             pc' \in NotifyOne([pc EXCEPT ![t] = "out"])
      PROVE  SlotAccounting'
  <2>1. Holders' = Holders \ {t} /\ t \in Holders
        BY Zenon, <1>0, <1>3, NotifyOutSets DEF Holders
  <2> QED
      BY Zenon, <1>3, <2>1, ThreadSetsFinite, FS_RemoveElement
<1>4. ASSUME NEW t \in Threads, NEW p \in ClientCreds, Configure(t, p)
      PROVE  SlotAccounting'
      BY <1>0, <1>1, <1>4 DEF Configure, Holders, Occupied
<1>5. ASSUME NEW t \in Threads, NEW c \in Closed,
             WarmOk(t, c) \/ CreateOk(t, c)
      PROVE  SlotAccounting'
      BY <1>0, <1>1, <1>5 DEF WarmOk, CreateOk, Holders, Occupied
<1>6. ASSUME NEW t \in Threads, WarmFail(t) \/ StoreParams(t) \/ BeginAcquire(t) \/ Sleep(t)
      PROVE  SlotAccounting'
      BY <1>0, <1>1, <1>6 DEF WarmFail, StoreParams, BeginAcquire, Sleep, Holders, Occupied
<1>7. ASSUME NEW t \in Threads, SpuriousWakeup(t) \/ LinkLost(t)
      PROVE  SlotAccounting'
      BY <1>0, <1>1, <1>7 DEF SpuriousWakeup, LinkLost, Holders, Occupied
<1>8. ASSUME NEW t \in Threads, CreateFail(t)
      PROVE  SlotAccounting'
      BY <1>3, <1>8 DEF CreateFail, Occupied
<1>9. ASSUME NEW t \in Threads, NEW broken \in BOOLEAN, Release(t, broken)
      PROVE  SlotAccounting'
      BY <1>3, <1>9 DEF Release, Occupied
<1>10. CASE UNCHANGED poolVars
       BY <1>1, <1>10 DEF poolVars, Holders
<1> QED
    BY <1>2, <1>4, <1>5, <1>6, <1>7, <1>8, <1>9, <1>10
    DEF Next, ConnectStep, AcquireStep

\* No interleaving of Connect, Acquire and Release, and no failure to connect,
\* loses or invents a slot of the pool.
THEOREM SlotsAccounted == Spec => []SlotAccounting
<1>1. PoolInit => SlotAccounting
  <2>1. PoolInit => Holders = {}
        BY DEF PoolInit, Holders, Occupied
  <2> QED
      BY Zenon, <2>1, FS_EmptySet DEF PoolInit, SlotAccounting
<1> QED
    BY <1>1, TypeCorrect, SlotAccountingNext, PTL DEF Spec

-----------------------------------------------------------------------------
(***************************************************************************)
(* How many connections the pool may own.                                  *)
(***************************************************************************)

\* Every step keeps the number of pooled connections within its bound.
LEMMA CapacityNext ==
    TypeInv /\ CapacityBound /\ [Next]_poolVars => CapacityBound'
<1> SUFFICES ASSUME TypeInv, CapacityBound, [Next]_poolVars
             PROVE  CapacityBound'
    OBVIOUS
<1> USE PoolSizePositive DEF CapacityBound, connectVars
<1>0. /\ idle_ \in Seq(Conn) /\ Len(idle_) \in Nat
      /\ in_use_ \in Int /\ warmed \in Nat
      /\ \A t \in Threads : pc[t] \notin {"out", "warming"} => warmed > 0
      BY DEF TypeInv, TypeOK, CallOrder
<1>1. ASSUME UNCHANGED <<idle_, in_use_, warmed>>
      PROVE  CapacityBound'
      BY <1>1
<1>2. ASSUME NEW t \in Threads, NEW c \in Closed, WarmOk(t, c)
      PROVE  CapacityBound'
  <2>1. Len(idle_') = Len(idle_) + 1
        BY <1>0, <1>2 DEF WarmOk, Closed
  <2> QED
      BY <1>0, <1>2, <2>1 DEF WarmOk
<1>3. ASSUME NEW t \in Threads, TakeIdle(t)
      PROVE  CapacityBound'
  <2>1. Len(idle_') = Len(idle_) - 1
        BY <1>0, <1>3 DEF TakeIdle
  <2> QED
      BY <1>0, <1>3, <2>1 DEF TakeIdle
<1>4. ASSUME NEW t \in Threads, Reserve(t)
      PROVE  CapacityBound'
  <2>1. Len(idle_) = 0 /\ warmed > 0
        BY <1>0, <1>4 DEF Reserve
  <2> QED
      BY <1>0, <1>4, <2>1 DEF Reserve
<1>5. ASSUME NEW t \in Threads, CreateFail(t)
      PROVE  CapacityBound'
  <2>1. warmed > 0
        BY <1>0, <1>5 DEF CreateFail
  <2> QED
      BY <1>0, <1>5, <2>1 DEF CreateFail
<1>6. ASSUME NEW t \in Threads, NEW broken \in BOOLEAN, Release(t, broken)
      PROVE  CapacityBound'
  <2>1. warmed > 0 /\ warmed' = warmed /\ in_use_' = in_use_ - 1
        BY <1>0, <1>6 DEF Release
  <2>2. Len(idle_') = Len(idle_) \/ Len(idle_') = Len(idle_) + 1
    <3>1. CASE idle_' = idle_
          BY <3>1
    <3>2. CASE idle_' = Append(idle_, conn[t]) /\ conn[t] \in healthy
          BY <1>0, <3>2 DEF TypeInv, TypeOK
    <3> QED
        BY <1>6, <3>1, <3>2 DEF Release
  <2> QED
      BY <1>0, <2>1, <2>2
<1>7. ASSUME NEW t \in Threads, NEW p \in ClientCreds, Configure(t, p)
      PROVE  CapacityBound'
      BY <1>1, <1>7 DEF Configure
<1>8. ASSUME NEW t \in Threads, WarmFail(t) \/ StoreParams(t) \/ BeginAcquire(t) \/ Sleep(t)
      PROVE  CapacityBound'
      BY SMTT(30), <1>1, <1>8 DEF WarmFail, StoreParams, BeginAcquire, Sleep
<1>9. ASSUME NEW t \in Threads, SpuriousWakeup(t) \/ LinkLost(t)
      PROVE  CapacityBound'
      BY <1>1, <1>9 DEF SpuriousWakeup, LinkLost
<1>10. ASSUME NEW t \in Threads, NEW c \in Closed, CreateOk(t, c)
       PROVE  CapacityBound'
       BY <1>1, <1>10 DEF CreateOk
<1>11. CASE UNCHANGED poolVars
       BY <1>1, <1>11 DEF poolVars, connectVars
<1> QED
    BY <1>2, <1>3, <1>4, <1>5, <1>6, <1>7, <1>8, <1>9, <1>10, <1>11
    DEF Next, ConnectStep, AcquireStep

\* The pool owns at most pool_size_ connections, plus one for each Connect RPC
\* after the first.
THEOREM CapacityBounded == Spec => []CapacityBound
<1>1. PoolInit => CapacityBound
      BY DEF PoolInit, CapacityBound
<1> QED
    BY <1>1, TypeCorrect, CapacityNext, PTL DEF Spec

-----------------------------------------------------------------------------
(***************************************************************************)
(* No wakeup of cv_ is lost.                                               *)
(***************************************************************************)

\* Every step keeps a released thread for each free slot and idle connection.
LEMMA WakeupNext ==
    TypeInv /\ FreeSlotHasWakeup /\ [Next]_poolVars => FreeSlotHasWakeup'
<1> SUFFICES ASSUME TypeInv, FreeSlotHasWakeup, [Next]_poolVars
             PROVE  FreeSlotHasWakeup'
    OBVIOUS
<1> USE PoolSizePositive DEF FreeSlotHasWakeup
<1>0. pc \in [Threads -> PoolPC] /\ in_use_ \in Int
      BY DEF TypeInv, TypeOK
<1>c. Cardinality(Woken) \in Nat /\ IsFiniteSet(Woken)
      BY ThreadSetsFinite
<1>1. ASSUME Sleeping' = Sleeping, Woken' = Woken, in_use_' = in_use_
      PROVE  FreeSlotHasWakeup'
      BY <1>1
<1>2. ASSUME NEW t \in Threads, Sleep(t)
      PROVE  FreeSlotHasWakeup'
  <2>1. in_use_' >= pool_size_ /\ in_use_' \in Int
        BY <1>0, <1>2 DEF Sleep
  <2>2. Woken' \subseteq Threads
        BY DEF Woken, At
  <2>3. Cardinality(Woken') \in Nat
        BY <2>2, ConstantsAssumption, FS_Subset, FS_CardinalityType
  <2> QED
      BY <2>1, <2>3
<1>3. ASSUME NEW t \in Threads, SpuriousWakeup(t)
      PROVE  FreeSlotHasWakeup'
  <2>1. Woken' = Woken \cup {t} /\ t \notin Woken /\ Sleeping # {}
        BY <1>0, <1>3 DEF SpuriousWakeup, Woken, Sleeping, At
  <2>2. in_use_' = in_use_
        BY <1>3 DEF SpuriousWakeup
  <2>3. Cardinality(Woken') = Cardinality(Woken) + 1
        BY SMTT(30), <1>c, <2>1, FS_AddElement
  <2> QED
      BY <1>0, <1>c, <2>1, <2>2, <2>3
<1>4. ASSUME NEW t \in Threads, TakeIdle(t) \/ Reserve(t)
      PROVE  FreeSlotHasWakeup'
  <2>1. in_use_' = in_use_ + 1 /\ Sleeping' = Sleeping
        BY <1>0, <1>4 DEF TakeIdle, Reserve, Sleeping, At
  <2>2. Woken' = Woken \ {t}
        BY <1>0, <1>4 DEF TakeIdle, Reserve, Woken, At
  <2>3. Cardinality(Woken') = IF t \in Woken THEN Cardinality(Woken) - 1
                              ELSE Cardinality(Woken)
        BY Zenon, <1>c, <2>2, FS_RemoveElement
  <2> QED
      BY <1>0, <1>c, <2>1, <2>3
<1>5. ASSUME NEW t \in Threads, pc[t] \in Occupied, in_use_' = in_use_ - 1,
             pc' \in NotifyOne([pc EXCEPT ![t] = "out"])
      PROVE  FreeSlotHasWakeup'
  <2>1. CASE Sleeping' = {}
        BY <2>1
  <2>2. CASE \E u \in Threads \ Woken : Woken' = Woken \cup {u}
    <3>1. Cardinality(Woken') = Cardinality(Woken) + 1
          BY <1>c, <2>2, FS_AddElement
    <3>2. Sleeping # {} \/ Sleeping' = {}
      <4>1. SUFFICES ASSUME NEW v \in Sleeping' PROVE Sleeping # {}
            OBVIOUS
      <4>2. pc[v] = "waiting"
        <5> DEFINE f == [pc EXCEPT ![t] = "out"]
        <5>1. f \in [Threads -> PoolPC] /\ pc' \in NotifyOne(f)
              BY <1>0, <1>5 DEF PoolPC
        <5>2. v \in Threads /\ pc'[v] = "waiting"
              BY DEF Sleeping, At
        <5>3. f[v] = "waiting"
          <6> HIDE DEF f
          <6> QED
              BY <5>1, <5>2, NotifyOneEffect
        <5> QED
            BY <1>0, <5>2, <5>3
      <4> QED
          BY <4>2 DEF Sleeping, At
    <3> QED
        BY <1>0, <1>c, <1>5, <3>1, <3>2
  <2> QED
      BY Zenon, <1>0, <1>5, <2>1, <2>2, NotifyOutSets
<1>6. ASSUME NEW t \in Threads, CreateFail(t)
      PROVE  FreeSlotHasWakeup'
      BY <1>5, <1>6 DEF CreateFail, Occupied
<1>7. ASSUME NEW t \in Threads, NEW broken \in BOOLEAN, Release(t, broken)
      PROVE  FreeSlotHasWakeup'
      BY Zenon, <1>5, <1>7 DEF Release, Occupied
<1>8. ASSUME NEW t \in Threads, NEW p \in ClientCreds, Configure(t, p)
      PROVE  FreeSlotHasWakeup'
      BY <1>0, <1>1, <1>8 DEF Configure, Woken, Sleeping, At
<1>9. ASSUME NEW t \in Threads, NEW c \in Closed,
             WarmOk(t, c) \/ CreateOk(t, c)
      PROVE  FreeSlotHasWakeup'
      BY <1>0, <1>1, <1>9 DEF WarmOk, CreateOk, Woken, Sleeping, At
<1>10. ASSUME NEW t \in Threads, WarmFail(t) \/ StoreParams(t) \/ BeginAcquire(t) \/ LinkLost(t)
       PROVE  FreeSlotHasWakeup'
       BY <1>0, <1>1, <1>10
       DEF WarmFail, StoreParams, BeginAcquire, LinkLost, Woken, Sleeping, At
<1>11. CASE UNCHANGED poolVars
       BY <1>1, <1>11 DEF poolVars, Woken, Sleeping, At
<1> QED
    BY <1>2, <1>3, <1>4, <1>6, <1>7, <1>8, <1>9, <1>10, <1>11
    DEF Next, ConnectStep, AcquireStep

\* While a thread sleeps in Acquire, every free slot of the pool has a thread
\* that was released for it.
THEOREM NoLostWakeup == Spec => []FreeSlotHasWakeup
<1>1. PoolInit => FreeSlotHasWakeup
  <2>1. PoolInit => Sleeping = {}
        BY DEF PoolInit, Sleeping, At
  <2> QED
      BY <2>1 DEF FreeSlotHasWakeup
<1> QED
    BY <1>1, TypeCorrect, WakeupNext, PTL DEF Spec

\* A wakeup for every free slot and the bound on the pool's size leave a wakeup
\* for every idle connection that Connect did not push on top of them.
LEMMA IdleFromSlots ==
    TypeInv /\ CapacityBound /\ FreeSlotHasWakeup => IdleHasWakeup
<1> SUFFICES ASSUME TypeInv, CapacityBound, FreeSlotHasWakeup, Sleeping # {}
             PROVE  Len(idle_) < Cardinality(Woken) + warmed
    BY DEF IdleHasWakeup
<1>1. warmed \in Nat /\ in_use_ \in Int /\ Len(idle_) \in Nat
      BY DEF TypeInv, TypeOK
<1>2. warmed # 0
      BY DEF TypeInv, CallOrder, Sleeping, At
<1> QED
    BY <1>1, <1>2, ThreadSetsFinite, PoolSizePositive
    DEF CapacityBound, FreeSlotHasWakeup

\* While a thread sleeps in Acquire, the idle connections nobody was released
\* for are fewer than the Connect RPCs that succeeded: with a single Connect
\* there is none.
THEOREM NoStrandedIdle == Spec => []IdleHasWakeup
BY IdleFromSlots, TypeCorrect, CapacityBounded, NoLostWakeup, PTL

-----------------------------------------------------------------------------
(***************************************************************************)
(* Who owns a connection.                                                  *)
(***************************************************************************)

\* Pushing a new element to a sequence of distinct ones.
LEMMA PushInjective ==
    ASSUME NEW S, NEW s \in Seq(S), NEW e \in S
    PROVE  /\ Range(Append(s, e)) = Range(s) \cup {e}
           /\ IsInjective(s) /\ e \notin Range(s) => IsInjective(Append(s, e))
<1>1. /\ DOMAIN s = 1..Len(s) /\ Len(s) \in Nat
      /\ DOMAIN Append(s, e) = 1..(Len(s) + 1)
      /\ \A i \in 1..Len(s) : Append(s, e)[i] = s[i]
      /\ Append(s, e)[Len(s) + 1] = e
      OBVIOUS
<1>2. Range(Append(s, e)) = Range(s) \cup {e}
  <2>1. \A x \in Range(s) : x \in Range(Append(s, e))
        BY <1>1 DEF Range
  <2>2. e \in Range(Append(s, e))
        BY <1>1 DEF Range
  <2>3. \A x \in Range(Append(s, e)) : x \in Range(s) \cup {e}
        BY <1>1 DEF Range
  <2> QED
      BY <2>1, <2>2, <2>3
<1>3. IsInjective(s) /\ e \notin Range(s) => IsInjective(Append(s, e))
      BY <1>1 DEF IsInjective, Range
<1> QED
    BY <1>2, <1>3

\* Popping the front of a sequence of distinct elements.
LEMMA PopInjective ==
    ASSUME NEW S, NEW s \in Seq(S), s # <<>>, IsInjective(s)
    PROVE  /\ Head(s) \in Range(s)
           /\ Range(Tail(s)) = Range(s) \ {Head(s)}
           /\ IsInjective(Tail(s))
<1>1. /\ DOMAIN s = 1..Len(s) /\ Len(s) \in Nat /\ Len(s) >= 1
      /\ Tail(s) \in Seq(S)
      /\ DOMAIN Tail(s) = 1..(Len(s) - 1)
      /\ \A i \in 1..(Len(s) - 1) : Tail(s)[i] = s[i + 1]
      /\ Head(s) = s[1]
      OBVIOUS
<1>2. Head(s) \in Range(s)
      BY <1>1 DEF Range
<1>3. \A x \in Range(Tail(s)) : x \in Range(s) \ {Head(s)}
      BY <1>1 DEF Range, IsInjective
<1>4. ASSUME NEW x \in Range(s), x # Head(s)
      PROVE  x \in Range(Tail(s))
  <2>1. PICK i \in 1..Len(s) : s[i] = x
        BY <1>1 DEF Range
  <2>2. i - 1 \in 1..(Len(s) - 1) /\ Tail(s)[i - 1] = x
        BY <1>1, <1>4, <2>1
  <2> QED
      BY Zenon, <1>1, <2>2 DEF Range
<1>5. IsInjective(Tail(s))
      BY <1>1 DEF IsInjective
<1> QED
    BY <1>2, <1>3, <1>4, <1>5

\* A thread holds a connection exactly while it is between Acquire and Release.
Holding == \A t \in Threads : conn[t] # NoConn <=> pc[t] = "holding"

OwnershipInv == TypeInv /\ ExclusiveOwnership /\ Holding

\* Every step keeps the owner of each connection unique.
LEMMA OwnershipNext == OwnershipInv /\ [Next]_poolVars => OwnershipInv'
<1> SUFFICES ASSUME OwnershipInv, [Next]_poolVars
             PROVE  ExclusiveOwnership' /\ Holding'
    BY TypeInvNext DEF OwnershipInv
<1> USE ConstantsAssumption DEF ExclusiveOwnership, Holding
<1>0. /\ idle_ \in Seq(Conn)
      /\ pc \in [Threads -> PoolPC]
      /\ conn \in [Threads -> Conn \cup {NoConn}]
      /\ seen \in [Threads -> SUBSET Creds]
      /\ opened \in [Conn -> Creds \cup {NoCreds}]
      /\ ExclusiveOwnership /\ Holding
      BY DEF OwnershipInv, TypeInv, TypeOK
<1>1. ASSUME UNCHANGED <<idle_, conn, opened>>,
             \A t \in Threads : pc'[t] = "holding" <=> pc[t] = "holding"
      PROVE  ExclusiveOwnership' /\ Holding'
      BY SMTT(30), <1>0, <1>1 DEF Referenced
<1>2. ASSUME NEW t \in Threads, NEW c \in Closed, WarmOk(t, c)
      PROVE  ExclusiveOwnership' /\ Holding'
  <2>1. c \in Conn /\ c \notin Range(idle_) /\ \A u \in Threads : conn[u] # c
        BY DEF Closed, Referenced
  <2>2. Range(idle_') = Range(idle_) \cup {c} /\ IsInjective(idle_')
        BY <1>0, <1>2, <2>1, PushInjective DEF WarmOk
  <2>3. conn' = conn
        BY <1>2 DEF WarmOk
  <2>4. \A d \in Conn : opened'[d] # NoCreds <=> (d = c \/ opened[d] # NoCreds)
    <3>1. PICK k \in Mix(seen[t]) : opened' = [opened EXCEPT ![c] = k]
          BY Zenon, <1>2 DEF WarmOk, Opens
    <3>2. k # NoCreds
          BY <1>0, MixType
    <3> QED
        BY <1>0, <2>1, <3>1, <3>2
  <2>5. Referenced' = Referenced \cup {c}
        BY <2>2, <2>3 DEF Referenced
  <2>6. Holding'
        BY <1>0, <1>2 DEF WarmOk
  <2> QED
      BY <1>0, <2>1, <2>2, <2>3, <2>4, <2>5, <2>6
<1>3. ASSUME NEW t \in Threads, NEW c \in Closed, CreateOk(t, c)
      PROVE  ExclusiveOwnership' /\ Holding'
  <2>1. c \in Conn /\ c \notin Range(idle_) /\ \A u \in Threads : conn[u] # c
        BY DEF Closed, Referenced
  <2>2. idle_' = idle_ /\ conn' = [conn EXCEPT ![t] = c] /\ conn[t] = NoConn
        BY <1>0, <1>3 DEF CreateOk
  <2>3. \A d \in Conn : opened'[d] # NoCreds <=> (d = c \/ opened[d] # NoCreds)
    <3>1. PICK k \in Mix(seen[t]) : opened' = [opened EXCEPT ![c] = k]
          BY Zenon, <1>3 DEF CreateOk, Opens
    <3>2. k # NoCreds
          BY <1>0, MixType
    <3> QED
        BY <1>0, <2>1, <3>1, <3>2
  <2>4. \A d \in Conn : d \in Referenced' <=> d = c \/ d \in Referenced
        BY <1>0, <2>1, <2>2 DEF Referenced
  <2>5. Holding'
        BY <1>0, <1>3, <2>1 DEF CreateOk
  <2> QED
      BY <1>0, <2>1, <2>2, <2>3, <2>4, <2>5
<1>4. ASSUME NEW t \in Threads, TakeIdle(t)
      PROVE  ExclusiveOwnership' /\ Holding'
  <2>1. /\ Head(idle_) \in Range(idle_) /\ Head(idle_) \in Conn
        /\ Range(idle_') = Range(idle_) \ {Head(idle_)}
        /\ IsInjective(idle_')
        BY <1>0, <1>4, PopInjective DEF TakeIdle
  <2>2. conn' = [conn EXCEPT ![t] = Head(idle_)] /\ conn[t] = NoConn
        BY <1>0, <1>4 DEF TakeIdle
  <2>3. \A d \in Conn : d \in Referenced' <=> d \in Referenced
        BY <1>0, <2>1, <2>2 DEF Referenced
  <2>4. opened' = opened
        BY <1>4 DEF TakeIdle
  <2>5. Holding'
        BY SMTT(30), <1>0, <1>4, <2>1 DEF TakeIdle
  <2> QED
      BY <1>0, <2>1, <2>2, <2>3, <2>4, <2>5
<1>5. ASSUME NEW t \in Threads, NEW broken \in BOOLEAN, Release(t, broken)
      PROVE  ExclusiveOwnership' /\ Holding'
  <2>1. /\ conn' = [conn EXCEPT ![t] = NoConn]
        /\ conn[t] \in Conn /\ conn[t] \notin Range(idle_)
        BY <1>0, <1>5 DEF Release
  <2>r. NoConn \notin Range(idle_)
        BY <1>0 DEF Range
  <2>2. Holding'
    <3>1. \A u \in Threads : pc'[u] = "holding" <=> pc[u] = "holding" /\ u # t
      <4> DEFINE f == [pc EXCEPT ![t] = "out"]
      <4>1. f \in [Threads -> PoolPC] /\ pc' \in NotifyOne(f)
            BY <1>0, <1>5 DEF Release, PoolPC
      <4>2. \A u \in Threads : pc'[u] = "holding" <=> f[u] = "holding"
        <5> HIDE DEF f
        <5> QED
            BY <4>1, NotifyOneEffect
      <4> QED
          BY <1>0, <4>2
    <3> QED
        BY <1>0, <2>1, <3>1
  <2>3. CASE opened' = [opened EXCEPT ![conn[t]] = NoCreds] /\ idle_' = idle_
    <3>1. \A d \in Conn : d \in Referenced' <=> d \in Referenced /\ d # conn[t]
          BY <1>0, <2>1, <2>3 DEF Referenced
    <3> QED
        BY <1>0, <2>r, <2>1, <2>2, <2>3, <3>1
  <2>4. CASE opened' = opened /\ idle_' = Append(idle_, conn[t])
    <3>1. Range(idle_') = Range(idle_) \cup {conn[t]} /\ IsInjective(idle_')
          BY <1>0, <2>1, <2>4, PushInjective
    <3>2. \A d \in Conn : d \in Referenced' <=> d \in Referenced
          BY <1>0, <2>1, <3>1 DEF Referenced
    <3> QED
        BY <1>0, <2>r, <2>1, <2>2, <2>4, <3>1, <3>2
  <2> QED
      BY <1>5, <2>3, <2>4 DEF Release, Destroy
<1>6. ASSUME NEW t \in Threads, CreateFail(t)
      PROVE  ExclusiveOwnership' /\ Holding'
  <2> DEFINE f == [pc EXCEPT ![t] = "out"]
  <2>1. f \in [Threads -> PoolPC] /\ pc' \in NotifyOne(f)
        BY <1>0, <1>6 DEF CreateFail, PoolPC
  <2>2. \A u \in Threads : pc'[u] = "holding" <=> f[u] = "holding"
    <3> HIDE DEF f
    <3> QED
        BY <2>1, NotifyOneEffect
  <2>3. \A u \in Threads : pc'[u] = "holding" <=> pc[u] = "holding"
        BY <1>0, <1>6, <2>2 DEF CreateFail
  <2> QED
      BY Zenon, <1>1, <1>6, <2>3 DEF CreateFail
<1>7. ASSUME NEW t \in Threads, NEW p \in ClientCreds, Configure(t, p)
      PROVE  ExclusiveOwnership' /\ Holding'
      BY <1>0, <1>1, <1>7 DEF Configure
<1>8. ASSUME NEW t \in Threads, WarmFail(t) \/ StoreParams(t) \/ BeginAcquire(t) \/ Sleep(t)
      PROVE  ExclusiveOwnership' /\ Holding'
      BY <1>0, <1>1, <1>8 DEF WarmFail, StoreParams, BeginAcquire, Sleep
<1>9. ASSUME NEW t \in Threads, SpuriousWakeup(t) \/ LinkLost(t) \/ Reserve(t)
      PROVE  ExclusiveOwnership' /\ Holding'
      BY <1>0, <1>1, <1>9 DEF SpuriousWakeup, LinkLost, Reserve
<1>10. CASE UNCHANGED poolVars
       BY <1>0, <1>1, <1>10 DEF poolVars, connectVars
<1> QED
    BY Zenon, <1>2, <1>3, <1>4, <1>5, <1>6, <1>7, <1>8, <1>9, <1>10
    DEF Next, ConnectStep, AcquireStep

\* A connection is never in the pool twice, borrowed twice, or borrowed and
\* idle at once; it stays open while it has an owner and is closed after.
THEOREM OwnershipExclusive == Spec => []ExclusiveOwnership
<1>1. PoolInit => OwnershipInv
  <2>1. PoolInit => ExclusiveOwnership /\ Holding
        BY ConstantsAssumption
        DEF PoolInit, ExclusiveOwnership, Holding, Referenced, Range, IsInjective
  <2> QED
      BY <2>1, TypeInvInit DEF OwnershipInv
<1>2. OwnershipInv => ExclusiveOwnership
      BY DEF OwnershipInv
<1> QED
    BY <1>1, <1>2, OwnershipNext, PTL DEF Spec

-----------------------------------------------------------------------------
(***************************************************************************)
(* The pool and the sessions use the same credentials.                     *)
(***************************************************************************)

\* As long as every Connect succeeded and none overlapped another, there is at
\* most one in flight and it runs with the credentials the pool has.
OneConnect ==
    clean => /\ \A t, u \in Threads : Connecting(t) /\ Connecting(u) => t = u
             /\ \A t \in Threads : Connecting(t) => request[t] = params_

AgreeInv == TypeInv /\ OneConnect /\ CredentialsAgree

\* Every step keeps the two copies of the credentials equal between Connects.
LEMMA AgreeNext == AgreeInv /\ [Next]_poolVars => AgreeInv'
<1> SUFFICES ASSUME AgreeInv, [Next]_poolVars
             PROVE  OneConnect' /\ CredentialsAgree'
    BY TypeInvNext DEF AgreeInv
<1> USE DEF OneConnect, CredentialsAgree, connectVars, Connecting
<1>0. /\ pc \in [Threads -> PoolPC]
      /\ request \in [Threads -> Creds \cup {NoCreds}]
      /\ OneConnect /\ CredentialsAgree
      BY DEF AgreeInv, TypeInv, TypeOK
<1>1. ASSUME UNCHANGED connectVars,
             \A t \in Threads : Connecting(t)' <=> Connecting(t)
      PROVE  OneConnect' /\ CredentialsAgree'
      BY <1>0, <1>1
<1>2. ASSUME NEW t \in Threads, NEW p \in ClientCreds, Configure(t, p)
      PROVE  OneConnect' /\ CredentialsAgree'
      BY Zenon, <1>0, <1>2 DEF Configure
<1>3. ASSUME NEW t \in Threads, NEW c \in Closed, WarmOk(t, c)
      PROVE  OneConnect' /\ CredentialsAgree'
  <2>1. \A u \in Threads : Connecting(u)' <=> Connecting(u)
        BY <1>0, <1>3 DEF WarmOk
  <2> QED
      BY <1>0, <1>3, <2>1 DEF WarmOk
<1>4. ASSUME NEW t \in Threads, WarmFail(t)
      PROVE  OneConnect' /\ CredentialsAgree'
      BY <1>4 DEF WarmFail
<1>5. ASSUME NEW t \in Threads, StoreParams(t)
      PROVE  OneConnect' /\ CredentialsAgree'
      BY <1>0, <1>5 DEF StoreParams
<1>6. ASSUME NEW t \in Threads, BeginAcquire(t) \/ Sleep(t) \/ SpuriousWakeup(t)
      PROVE  OneConnect' /\ CredentialsAgree'
      BY SMTT(30), <1>0, <1>1, <1>6 DEF BeginAcquire, Sleep, SpuriousWakeup
<1>7. ASSUME NEW t \in Threads, TakeIdle(t) \/ Reserve(t) \/ LinkLost(t)
      PROVE  OneConnect' /\ CredentialsAgree'
      BY <1>0, <1>1, <1>7 DEF TakeIdle, Reserve, LinkLost
<1>8. ASSUME NEW t \in Threads, NEW c \in Closed, CreateOk(t, c)
      PROVE  OneConnect' /\ CredentialsAgree'
      BY <1>0, <1>1, <1>8 DEF CreateOk
<1>9. ASSUME NEW t \in Threads, pc[t] \in Occupied,
             pc' \in NotifyOne([pc EXCEPT ![t] = "out"]), UNCHANGED connectVars
      PROVE  OneConnect' /\ CredentialsAgree'
  <2> DEFINE f == [pc EXCEPT ![t] = "out"]
  <2>1. f \in [Threads -> PoolPC] /\ pc' \in NotifyOne(f)
        BY <1>0, <1>9 DEF PoolPC
  <2>2. \A u \in Threads : Connecting(u)' <=> f[u] \in {"warming", "storing"}
    <3> HIDE DEF f
    <3> QED
        BY <2>1, NotifyOneEffect
  <2>3. \A u \in Threads : Connecting(u)' <=> Connecting(u)
        BY SMTT(30), <1>0, <1>9, <2>2 DEF Occupied
  <2> QED
      BY Zenon, <1>1, <1>9, <2>3
<1>10. ASSUME NEW t \in Threads, CreateFail(t)
       PROVE  OneConnect' /\ CredentialsAgree'
       BY <1>9, <1>10 DEF CreateFail, Occupied
<1>11. ASSUME NEW t \in Threads, NEW broken \in BOOLEAN, Release(t, broken)
       PROVE  OneConnect' /\ CredentialsAgree'
       BY <1>9, <1>11 DEF Release, Occupied
<1>12. CASE UNCHANGED poolVars
       BY <1>0, <1>1, <1>12 DEF poolVars
<1> QED
    BY Zenon, <1>2, <1>3, <1>4, <1>5, <1>6, <1>7, <1>8, <1>10, <1>11, <1>12
    DEF Next, ConnectStep, AcquireStep

\* Connect RPCs that succeed one after the other leave the pool and the
\* session store with the same credentials.
THEOREM CredentialsConsistent == Spec => []CredentialsAgree
<1>1. PoolInit => AgreeInv
  <2>1. PoolInit => OneConnect /\ CredentialsAgree
        BY DEF PoolInit, OneConnect, CredentialsAgree, Connecting
  <2> QED
      BY <2>1, TypeInvInit DEF AgreeInv
<1>2. AgreeInv => CredentialsAgree
      BY DEF AgreeInv
<1> QED
    BY <1>1, <1>2, AgreeNext, PTL DEF Spec
=============================================================================
