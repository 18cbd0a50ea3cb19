---------------------------- MODULE LifecycleProofs ----------------------------
(***************************************************************************)
(* Proofs about Lifecycle, for any sets of Connect and Watch handlers and    *)
(* any bounds.                                                               *)
(***************************************************************************)
EXTENDS Lifecycle, TLAPS

\* Lemma: one step of the process keeps every variable in its type.
LEMMA TypeStep == LifecycleTypeOK /\ [LifecycleNext]_lifeVars => LifecycleTypeOK'
<1> SUFFICES ASSUME LifecycleTypeOK, [LifecycleNext]_lifeVars
             PROVE  LifecycleTypeOK'
  OBVIOUS
<1> USE LifecycleAssumption DEF LifecycleTypeOK, Threads, Services, mainVars, signalVars,
        statusVars, threadVars, connectVars, worldVars, historyVars,
        EnterSetServing
<1>1. ASSUME NEW h \in Handlers, ConnectBegin(h) \/ ConnectStep(h)
      PROVE  LifecycleTypeOK'
  <2>1. CASE ConnectBegin(h)
    BY <2>1 DEF ConnectBegin
  <2>2. CASE PoolConnects(h)
    BY <2>2 DEF PoolConnects
  <2>3. CASE PoolFails(h)
    BY <2>3 DEF PoolFails
  <2>4. CASE ConnectFailed(h)
    BY <2>4 DEF ConnectFailed
  <2>5. CASE StoreParams(h)
    BY <2>5 DEF StoreParams
  <2>6. CASE ConnectProbes(h)
    BY <2>6 DEF ConnectProbes
  <2>7. CASE CheckThread(h)
    BY <2>7 DEF CheckThread
  <2>8. CASE ClearStop(h)
    <3>1. stop_' \in BOOLEAN /\ overtaken' \in BOOLEAN
      BY <2>8, Zenon DEF ClearStop
    <3>2. hpc' \in [Handlers -> {"idle", "connecting", "connected", "failing", "probing",
                                "setting", "starting", "spawning"}]
      BY <2>8 DEF ClearStop
    <3>3. UNCHANGED <<mainVars, signalVars, statusVars, tpc, has_params_, connects,
                      worldVars, probed, overlapped, crashed>>
      BY <2>8, Zenon DEF ClearStop
    <3>4. QED
      BY <3>1, <3>2, <3>3
  <2>9. CASE StartThread(h)
    <3>1. crashed' \in BOOLEAN
      BY <2>9, Zenon DEF StartThread
    <3>2. hpc' \in [Handlers -> {"idle", "connecting", "connected", "failing", "probing",
                                "setting", "starting", "spawning"}]
      BY <2>9 DEF StartThread
    <3>3. tpc' \in {tpc, "loop"}
      BY <2>9, Zenon DEF StartThread
    <3>4. UNCHANGED <<mainVars, signalVars, statusVars, stop_, has_params_, connects,
                      worldVars, historyVars>>
      BY <2>9, Zenon DEF StartThread
    <3>5. QED
      BY <3>1, <3>2, <3>3, <3>4
  <2>10. QED
    BY <1>1, <2>1, <2>2, <2>3, <2>4, <2>5, <2>6, <2>7, <2>8, <2>9 DEF ConnectStep
<1>2. ASSUME NEW t \in Threads, SetServing(t)
      PROVE  LifecycleTypeOK'
  <2>1. at[t] \in 1..3 /\ serving[t] \in BOOLEAN
    BY <1>2 DEF SetServing
  <2>2. ServiceOrder[at[t]] \in Services /\ (at[t] + 1) % 4 \in 0..3
    BY <2>1 DEF ServiceOrder
  <2>3. status' \in [Services -> BOOLEAN] /\ at' \in [Threads -> 0..3]
    BY <1>2, <2>1, <2>2 DEF SetServing
  <2>4. serving' \in [Threads -> BOOLEAN]
    BY <1>2 DEF SetServing
  <2>5. QED
    BY <1>2, <2>3, <2>4 DEF SetServing
<1>3. ASSUME NEW a \in Stoppers, StopStep(a)
      PROVE  LifecycleTypeOK'
  <2>1. stop_' \in BOOLEAN
    BY <1>3, Zenon DEF StopStep, StopFlag, StopCheck, StopJoin
  <2>2. tpc' \in {tpc, "none"}
    BY <1>3, Zenon DEF StopStep, StopFlag, StopCheck, StopJoin
  <2>3. halt' \in [Stoppers -> {"off", "flag", "check", "join", "over"}]
    BY <1>3 DEF StopStep, StopFlag, StopCheck, StopJoin
  <2>4. UNCHANGED <<mainVars, spc, statusVars, connectVars, worldVars, historyVars, crashed>>
    BY <1>3, Zenon DEF StopStep, StopFlag, StopCheck, StopJoin
  <2>5. QED
    BY <2>1, <2>2, <2>3, <2>4
<1>4. ASSUME NEW w \in Watches, WatchBegin(w) \/ WatchEnds(w)
      PROVE  LifecycleTypeOK'
  BY <1>4 DEF WatchBegin, WatchEnds
<1>5. CASE ProbeStep
  BY <1>5 DEF ProbeStep, ProbeTest, ProbeOnce, ProbeSleeps, ProbeWakes
<1>6. CASE MainStep
  <2>1. CASE BuildAndStart
    BY <2>1 DEF BuildAndStart
  <2>2. CASE AttachServer
    BY <2>2 DEF AttachServer
  <2>3. CASE SetServingWithoutPg
    BY <2>3 DEF SetServingWithoutPg
  <2>4. CASE MainWaits
    BY <2>4 DEF MainWaits
  <2>5. CASE WaitReturns
    BY <2>5 DEF WaitReturns, Stoppers
  <2>6. CASE MainExits
    BY <2>6 DEF MainExits
  <2>7. QED
    BY <1>6, <2>1, <2>2, <2>3, <2>4, <2>5, <2>6 DEF MainStep
<1>7. CASE SignalStep \/ HandleSignal
  BY <1>7 DEF SignalStep, CallShutdown, ShutdownReturns, HandleSignal
<1>8. CASE StartupFails
  BY <1>8 DEF StartupFails
<1>9. CASE PgFlips
  BY <1>9 DEF PgFlips
<1>10. CASE UNCHANGED lifeVars
  BY <1>10 DEF lifeVars
<1> HIDE DEF LifecycleTypeOK, Threads, EnterSetServing
<1>11. QED
  BY <1>1, <1>2, <1>3, <1>4, <1>5, <1>6, <1>7, <1>8, <1>9, <1>10 DEF LifecycleNext

\* Every variable of the process and the monitor keeps its type, for any number
\* of handlers.
THEOREM LifecycleTypeCorrect == LifecycleSpec => []LifecycleTypeOK
<1>1. LifecycleInit => LifecycleTypeOK
  <2> SUFFICES ASSUME LifecycleInit PROVE LifecycleTypeOK
    OBVIOUS
  <2>1. status \in [Services -> BOOLEAN]
    BY Zenon DEF LifecycleInit
  <2>2. /\ {health_require_pg, server_, has_params_, stop_, pgUp} \subseteq BOOLEAN
        /\ {probed, overlapped, overtaken, crashed} \subseteq BOOLEAN
    BY Zenon DEF LifecycleInit
  <2>3. serving \in [Threads -> BOOLEAN]
    BY Zenon DEF LifecycleInit
  <2>4. /\ mpc = "building" /\ spc = "none" /\ tpc = "none"
        /\ halt = [a \in Stoppers |-> "off"]
        /\ at = [t \in Threads |-> 0]
        /\ hpc = [h \in Handlers |-> "idle"]
        /\ watch = [w \in Watches |-> "none"]
        /\ connects = 0 /\ flips = 0
    BY Zenon DEF LifecycleInit
  <2>5. QED
    BY <2>1, <2>2, <2>3, <2>4 DEF LifecycleTypeOK
<1>2. QED
  BY <1>1, TypeStep, PTL DEF LifecycleSpec

-----------------------------------------------------------------------------
(* Teardown.                                                                *)

\* A thread is inside SetServing only where its code calls it; main stops the
\* thread after Shutdown has outlasted the handlers, and from the end of that
\* Stop on there is no probe thread and nobody to start one.
TeardownInv ==
    /\ \A h \in Handlers : at[h] # 0 => hpc[h] \in {"failing", "setting"}
    /\ at["probe"] # 0 => tpc = "setting"
    /\ at["main"] # 0 => mpc \in {"attaching", "enabling", "failed"}
    /\ spc = "done" => \A h \in Handlers : hpc[h] = "idle"
    /\ mpc \in {"stopping", "exited"} => spc = "done"
    /\ halt["main"] # "off" => mpc \in {"stopping", "exited"}
    /\ mpc = "exited" => halt["main"] = "over"
    /\ halt["main"] = "over" => tpc = "none"

\* Lemma: one step of the process preserves TeardownInv.
LEMMA TeardownStep ==
    LifecycleTypeOK /\ TeardownInv /\ [LifecycleNext]_lifeVars => TeardownInv'
<1> SUFFICES ASSUME LifecycleTypeOK, TeardownInv, [LifecycleNext]_lifeVars
             PROVE  TeardownInv'
  OBVIOUS
<1>0. /\ at \in [Threads -> 0..3] /\ Handlers \subseteq Threads
      /\ "main" \in Threads /\ "probe" \in Threads
      /\ halt \in [Stoppers -> {"off", "flag", "check", "join", "over"}]
      /\ "main" \in Stoppers /\ "signal" \in Stoppers
      /\ DOMAIN hpc = Handlers
      /\ "main" \notin Handlers /\ "probe" \notin Handlers
  BY LifecycleAssumption DEF LifecycleTypeOK, Threads, Stoppers
<1> USE <1>0 DEF TeardownInv, mainVars, signalVars, statusVars, threadVars, connectVars,
        worldVars, historyVars, EnterSetServing
<1>1. ASSUME NEW h \in Handlers, ConnectBegin(h) \/ ConnectStep(h)
      PROVE  TeardownInv'
  <2>1. CASE ConnectBegin(h)
    BY <2>1 DEF ConnectBegin, Accepting
  <2>2. CASE PoolConnects(h)
    BY <2>2 DEF PoolConnects
  <2>3. CASE PoolFails(h)
    BY <2>3 DEF PoolFails
  <2>4. CASE ConnectFailed(h)
    BY <2>4 DEF ConnectFailed
  <2>5. CASE StoreParams(h)
    BY <2>5 DEF StoreParams
  <2>6. CASE ConnectProbes(h)
    BY <2>6 DEF ConnectProbes
  <2>7. CASE CheckThread(h)
    BY <2>7 DEF CheckThread
  <2>8. CASE ClearStop(h)
    BY <2>8 DEF ClearStop
  <2>9. CASE StartThread(h)
    <3>1. spc # "done" /\ halt["main"] = "off" /\ at[h] = 0
      BY <2>9 DEF StartThread
    <3>2. tpc' = "loop" \/ tpc' = tpc
      BY <2>9 DEF StartThread
    <3>3. tpc = "setting" => tpc' = "setting"
      BY <2>9 DEF StartThread, Joinable
    <3>4. UNCHANGED <<mpc, spc, halt, at>> /\ hpc' = [hpc EXCEPT ![h] = "idle"]
      BY <2>9 DEF StartThread
    <3>5. QED
      BY <3>1, <3>2, <3>3, <3>4
  <2>10. QED
    BY <1>1, <2>1, <2>2, <2>3, <2>4, <2>5, <2>6, <2>7, <2>8, <2>9 DEF ConnectStep
<1>2. ASSUME NEW t \in Threads, SetServing(t)
      PROVE  TeardownInv'
  <2>1. at[t] # 0 /\ \E k \in Int : at' = [at EXCEPT ![t] = k]
    BY <1>2 DEF SetServing
  <2>2. \A u \in Threads : at[u] = 0 => at'[u] = 0
    BY <2>1
  <2>3. UNCHANGED <<mpc, spc, halt, tpc, hpc>>
    BY <1>2 DEF SetServing
  <2>4. QED
    BY <2>2, <2>3
<1>3. ASSUME NEW a \in Stoppers, StopStep(a)
      PROVE  TeardownInv'
  <2>1. CASE StopFlag(a)
    BY <2>1 DEF StopFlag
  <2>2. CASE StopCheck(a)
    BY <2>2 DEF StopCheck, Joinable
  <2>3. CASE StopJoin(a)
    BY <2>3 DEF StopJoin
  <2>4. QED
    BY <1>3, <2>1, <2>2, <2>3 DEF StopStep
<1>4. ASSUME NEW w \in Watches, WatchBegin(w) \/ WatchEnds(w)
      PROVE  TeardownInv'
  BY <1>4 DEF WatchBegin, WatchEnds
<1>5. CASE ProbeStep
  BY <1>5 DEF ProbeStep, ProbeTest, ProbeOnce, ProbeSleeps, ProbeWakes
<1>6. CASE MainStep
  <2>1. CASE BuildAndStart
    BY <2>1 DEF BuildAndStart
  <2>2. CASE AttachServer
    BY <2>2 DEF AttachServer
  <2>3. CASE SetServingWithoutPg
    BY <2>3 DEF SetServingWithoutPg
  <2>4. CASE MainWaits
    BY <2>4 DEF MainWaits
  <2>5. CASE WaitReturns
    BY <2>5 DEF WaitReturns
  <2>6. CASE MainExits
    BY <2>6 DEF MainExits
  <2>7. QED
    BY <1>6, <2>1, <2>2, <2>3, <2>4, <2>5, <2>6 DEF MainStep
<1>7. CASE SignalStep \/ HandleSignal
  BY <1>7 DEF SignalStep, CallShutdown, ShutdownReturns, HandleSignal
<1>8. CASE StartupFails
  BY <1>8 DEF StartupFails
<1>9. CASE PgFlips
  BY <1>9 DEF PgFlips
<1>10. CASE UNCHANGED lifeVars
  BY <1>10 DEF lifeVars
<1> HIDE <1>0 DEF TeardownInv, EnterSetServing
<1>11. QED
  BY <1>1, <1>2, <1>3, <1>4, <1>5, <1>6, <1>7, <1>8, <1>9, <1>10 DEF LifecycleNext

\* When main frees the server, no probe thread exists and no handler or
\* SetServing call is running, for any number of Connect handlers: Stop after
\* Wait also ends a thread that a Connect started after the signal.
THEOREM TeardownIsSafe == LifecycleSpec => []SafeTeardown
<1>1. LifecycleInit => TeardownInv
  BY DEF LifecycleInit, TeardownInv, Threads, Stoppers
<1>2. LifecycleTypeOK /\ TeardownInv => SafeTeardown
  BY DEF TeardownInv, SafeTeardown, Threads
<1>3. QED
  BY <1>1, <1>2, TeardownStep, LifecycleTypeCorrect, PTL DEF LifecycleSpec

-----------------------------------------------------------------------------
(* The assignment of probe_thread_.                                          *)

Starting(h) == hpc[h] \in {"starting", "spawning"}

\* Until two handlers have overlapped, at most one of them is about to assign
\* probe_thread_, and it finds it as it tested it.
OverlapInv ==
    ~overlapped =>
        /\ ~crashed
        /\ \A h \in Handlers : Starting(h) => tpc = "none"
        /\ \A g, h \in Handlers : Starting(g) /\ Starting(h) => g = h

\* Lemma: one step of the process preserves OverlapInv.
LEMMA OverlapStep ==
    LifecycleTypeOK /\ OverlapInv /\ [LifecycleNext]_lifeVars => OverlapInv'
<1> DEFINE Goal == /\ ~crashed'
                   /\ \A h \in Handlers : Starting(h)' => tpc' = "none"
                   /\ \A g, h \in Handlers : Starting(g)' /\ Starting(h)' => g = h
<1> SUFFICES ASSUME LifecycleTypeOK, OverlapInv, [LifecycleNext]_lifeVars, ~overlapped'
             PROVE  Goal
  BY DEF OverlapInv
<1>0. DOMAIN hpc = Handlers
  BY DEF LifecycleTypeOK
<1> USE <1>0 DEF OverlapInv, Starting, mainVars, signalVars, statusVars, threadVars,
        connectVars, worldVars, historyVars
<1>a. ASSUME UNCHANGED <<overlapped, crashed, hpc>>, tpc = "none" => tpc' = "none"
      PROVE  Goal
  BY SMTT(30), <1>a
<1>1. ASSUME NEW h \in Handlers, ConnectBegin(h) \/ ConnectStep(h)
      PROVE  Goal
  <2>a. ASSUME NEW v, hpc' = [hpc EXCEPT ![h] = v], v \notin {"starting", "spawning"},
               UNCHANGED <<overlapped, crashed, tpc>>
        PROVE  Goal
    BY <2>a
  <2>1. CASE ConnectBegin(h)
    BY <2>1, <2>a DEF ConnectBegin
  <2>2. CASE PoolConnects(h)
    BY <2>2, <2>a DEF PoolConnects
  <2>3. CASE PoolFails(h)
    BY <2>3, <2>a DEF PoolFails
  <2>4. CASE ConnectFailed(h)
    BY <2>4, <2>a DEF ConnectFailed
  <2>5. CASE StoreParams(h)
    BY <2>5, <2>a DEF StoreParams
  <2>6. CASE ConnectProbes(h)
    BY <2>6, <2>a DEF ConnectProbes
  <2>7. CASE CheckThread(h)
    <3>1. ~overlapped
      BY Zenon, <2>7 DEF CheckThread
    <3>2. ~Joinable => \A g \in Handlers \ {h} : ~Starting(g)
      BY Zenon, <2>7 DEF CheckThread
    <3>3. UNCHANGED <<crashed, tpc>>
      BY <2>7 DEF CheckThread
    <3>4. hpc' = [hpc EXCEPT ![h] = IF Joinable THEN "idle" ELSE "starting"]
      BY <2>7 DEF CheckThread
    <3>5. QED
      BY <3>1, <3>2, <3>3, <3>4 DEF Joinable
  <2>8. CASE ClearStop(h)
    <3>1. UNCHANGED <<overlapped, crashed, tpc>> /\ hpc[h] = "starting"
      BY <2>8, Zenon DEF ClearStop
    <3>2. hpc' = [hpc EXCEPT ![h] = "spawning"]
      BY <2>8, Zenon DEF ClearStop
    <3>3. QED
      BY <3>1, <3>2
  <2>9. CASE StartThread(h)
    <3>1. ~overlapped /\ hpc[h] = "spawning"
      BY <2>9 DEF StartThread
    <3>2. ~Joinable /\ \A g \in Handlers \ {h} : ~Starting(g)
      BY <3>1 DEF Joinable
    <3>3. UNCHANGED crashed
      BY <2>9, <3>2, Zenon DEF StartThread
    <3>4. hpc' = [hpc EXCEPT ![h] = "idle"]
      BY <2>9, Zenon DEF StartThread
    <3>5. QED
      BY <3>1, <3>2, <3>3, <3>4
  <2>10. QED
    BY <1>1, <2>1, <2>2, <2>3, <2>4, <2>5, <2>6, <2>7, <2>8, <2>9 DEF ConnectStep
<1>2. ASSUME NEW t \in Threads, SetServing(t)
      PROVE  Goal
  BY <1>2, <1>a, Zenon DEF SetServing
<1>3. ASSUME NEW a \in Stoppers, StopStep(a)
      PROVE  Goal
  BY <1>3, <1>a, Zenon DEF StopStep, StopFlag, StopCheck, StopJoin
<1>4. ASSUME NEW w \in Watches, WatchBegin(w) \/ WatchEnds(w)
      PROVE  Goal
  BY <1>4, <1>a, Zenon DEF WatchBegin, WatchEnds
<1>5. CASE ProbeStep
  <2>1. tpc # "none" /\ UNCHANGED <<overlapped, crashed, hpc>>
    BY <1>5 DEF ProbeStep, ProbeTest, ProbeOnce, ProbeSleeps, ProbeWakes
  <2>2. QED
    BY <2>1, <1>a
<1>6. CASE MainStep
  BY <1>6, <1>a, Zenon DEF MainStep, BuildAndStart, AttachServer, SetServingWithoutPg,
                           MainWaits, WaitReturns, MainExits
<1>7. CASE SignalStep \/ HandleSignal
  BY <1>7, <1>a, Zenon DEF SignalStep, CallShutdown, ShutdownReturns, HandleSignal
<1>8. CASE StartupFails
  BY <1>8, <1>a, Zenon DEF StartupFails
<1>9. CASE PgFlips
  BY <1>9, <1>a, Zenon DEF PgFlips
<1>10. CASE UNCHANGED lifeVars
  BY <1>10, <1>a, Zenon DEF lifeVars
<1> HIDE <1>0 DEF Goal, OverlapInv, Starting
<1>11. QED
  BY <1>1, <1>2, <1>3, <1>4, <1>5, <1>6, <1>7, <1>8, <1>9, <1>10 DEF LifecycleNext

\* probe_thread_ is assigned while joinable only after two Connect handlers were
\* both between test and assignment: one Connect at a time never ends the
\* process, whatever signals, probes and Stops it meets.
THEOREM CrashOnlyByOverlap == LifecycleSpec => []CrashNeedsOverlap
<1>1. LifecycleInit => OverlapInv
  <2> SUFFICES ASSUME LifecycleInit PROVE OverlapInv
    OBVIOUS
  <2>1. ~crashed /\ hpc = [h \in Handlers |-> "idle"]
    BY Zenon DEF LifecycleInit
  <2>2. QED
    BY <2>1 DEF OverlapInv, Starting
<1>2. LifecycleTypeOK /\ OverlapInv => CrashNeedsOverlap
  BY DEF OverlapInv, CrashNeedsOverlap
<1>3. QED
  BY <1>1, <1>2, OverlapStep, LifecycleTypeCorrect, PTL DEF LifecycleSpec

-----------------------------------------------------------------------------
(* What health reports before the first successful probe.                    *)

\* With PostgreSQL required and no probe successful yet, nobody is about to
\* report SERVING; the two named services do not, and the overall status does
\* not once AttachServer has written it.
ServingInv ==
    /\ mpc = "attaching" => server_
    /\ mpc = "enabling" => ~health_require_pg
    /\ health_require_pg /\ ~probed =>
        /\ \A t \in Threads : ~serving[t]
        /\ ~status["MtddShard"] /\ ~status["MtddNotify"]
        /\ \/ mpc = "attaching" /\ at["main"] # 1
           \/ mpc \in {"waiting", "stopping", "exited"}
           => ~status["overall"]

\* Lemma: one step of the process preserves ServingInv.
LEMMA ServingStep ==
    LifecycleTypeOK /\ ServingInv /\ [LifecycleNext]_lifeVars => ServingInv'
<1> SUFFICES ASSUME LifecycleTypeOK, ServingInv, [LifecycleNext]_lifeVars
             PROVE  ServingInv'
  OBVIOUS
<1>0. /\ at \in [Threads -> 0..3] /\ serving \in [Threads -> BOOLEAN]
      /\ status \in [Services -> BOOLEAN]
      /\ Handlers \subseteq Threads /\ "main" \in Threads /\ "probe" \in Threads
      /\ "main" \notin Handlers /\ "probe" \notin Handlers
  BY LifecycleAssumption DEF LifecycleTypeOK, Threads
<1> USE <1>0 DEF ServingInv, mainVars, signalVars, statusVars, threadVars, connectVars,
        worldVars, historyVars
<1>a. ASSUME UNCHANGED <<mpc, server_, health_require_pg, probed, serving, status, at>>
      PROVE  ServingInv'
  BY <1>a
\* A probe by a handler or by the probe thread.
<1>b. ASSUME NEW t \in Threads \ {"main"}, NEW v \in BOOLEAN, EnterSetServing(t, v),
             v => probed', probed => probed',
             UNCHANGED <<mpc, server_, health_require_pg, status>>
      PROVE  ServingInv'
  BY <1>b DEF EnterSetServing
<1>1. ASSUME NEW h \in Handlers, ConnectBegin(h) \/ ConnectStep(h)
      PROVE  ServingInv'
  <2>1. CASE PoolFails(h)
    BY Zenon, <2>1, <1>b DEF PoolFails
  <2>2. CASE ConnectProbes(h)
    BY <2>2, <1>b DEF ConnectProbes, LifecycleTypeOK
  <2>3. CASE ~PoolFails(h) /\ ~ConnectProbes(h)
    BY <1>1, <2>3, <1>a, Zenon
    DEF ConnectBegin, ConnectStep, PoolConnects, ConnectFailed, StoreParams, CheckThread,
        ClearStop, StartThread
  <2>4. QED
    BY <2>1, <2>2, <2>3
<1>2. ASSUME NEW t \in Threads, SetServing(t)
      PROVE  ServingInv'
  <2>1. /\ at[t] \in 1..3
        /\ UNCHANGED <<mpc, server_, health_require_pg, probed>>
    BY <1>2 DEF SetServing
  <2>2. \A u \in Threads : serving'[u] => serving[u]
    BY <1>2 DEF SetServing
  <2>3. CASE ~server_
    <3>1. UNCHANGED status /\ mpc # "attaching"
      BY <1>2, <2>3 DEF SetServing
    <3>2. QED
      BY <2>1, <2>2, <3>1
  <2>4. CASE server_
    <3>1. /\ status' = [status EXCEPT ![ServiceOrder[at[t]]] = serving[t]]
          /\ at' = [at EXCEPT ![t] = (at[t] + 1) % 4]
      BY <1>2, <2>4, <2>1 DEF SetServing
    <3>2. ASSUME health_require_pg, ~probed
          PROVE  /\ \A s \in Services : status'[s] => status[s]
                 /\ t = "main" /\ at[t] = 1 => ~status'["overall"]
                 /\ t # "main" => at'["main"] = at["main"]
      BY <3>1, <3>2, <2>1 DEF Services, ServiceOrder
    <3>3. at[t] = 1 \/ at'[t] # 1 \/ t # "main"
      BY <3>1, <2>1
    <3>4. QED
      BY <2>1, <2>2, <3>1, <3>2, <3>3 DEF Services
  <2>5. QED
    BY <2>3, <2>4
<1>3. ASSUME NEW a \in Stoppers, StopStep(a)
      PROVE  ServingInv'
  BY <1>3, <1>a, Zenon DEF StopStep, StopFlag, StopCheck, StopJoin
<1>4. ASSUME NEW w \in Watches, WatchBegin(w) \/ WatchEnds(w)
      PROVE  ServingInv'
  BY <1>4, <1>a, Zenon DEF WatchBegin, WatchEnds
<1>5. CASE ProbeStep
  <2>1. CASE ProbeOnce
    BY <2>1, <1>b DEF ProbeOnce, LifecycleTypeOK
  <2>2. CASE ProbeTest \/ ProbeSleeps \/ ProbeWakes
    BY <2>2, <1>a, Zenon DEF ProbeTest, ProbeSleeps, ProbeWakes
  <2>3. QED
    BY <1>5, <2>1, <2>2 DEF ProbeStep
<1>6. CASE MainStep
  <2>1. CASE BuildAndStart
    BY <2>1 DEF BuildAndStart
  <2>2. CASE AttachServer
    BY <2>2 DEF AttachServer, EnterSetServing
  <2>3. CASE SetServingWithoutPg
    BY <2>3 DEF SetServingWithoutPg, EnterSetServing
  <2>4. CASE MainWaits
    BY <2>4 DEF MainWaits
  <2>5. CASE WaitReturns
    BY <2>5 DEF WaitReturns
  <2>6. CASE MainExits
    BY <2>6 DEF MainExits
  <2>7. QED
    BY <1>6, <2>1, <2>2, <2>3, <2>4, <2>5, <2>6 DEF MainStep
<1>7. CASE SignalStep \/ HandleSignal
  BY <1>7, <1>a, Zenon DEF SignalStep, CallShutdown, ShutdownReturns, HandleSignal
<1>8. CASE StartupFails
  BY <1>8 DEF StartupFails
<1>9. CASE PgFlips
  BY <1>9, <1>a, Zenon DEF PgFlips
<1>10. CASE UNCHANGED lifeVars
  BY <1>10, <1>a, Zenon DEF lifeVars
<1> HIDE <1>0 DEF ServingInv
<1>11. QED
  BY <1>1, <1>2, <1>3, <1>4, <1>5, <1>6, <1>7, <1>8, <1>9, <1>10 DEF LifecycleNext

\* With MTDD_HEALTH_REQUIRE_PG on, main past AttachServer and no probe yet
\* successful, no service is reported SERVING, for any number of concurrent
\* Connects and whatever their order.
THEOREM ServingAfterProbe == LifecycleSpec => []ServingNeedsProbe
<1>1. LifecycleInit => ServingInv
  <2> SUFFICES ASSUME LifecycleInit PROVE ServingInv
    OBVIOUS
  <2>1. mpc = "building" /\ serving = [t \in Threads |-> FALSE]
    BY Zenon DEF LifecycleInit
  <2>2. status = [s \in Services |-> s = "overall"]
    BY Zenon DEF LifecycleInit
  <2>3. \A t \in Threads : ~serving[t]
    BY <2>1, Zenon
  <2>4. ~status["MtddShard"] /\ ~status["MtddNotify"]
    BY Zenon, <2>2 DEF Services
  <2>5. QED
    BY <2>1, <2>3, <2>4 DEF ServingInv
<1>2. LifecycleTypeOK /\ ServingInv => ServingNeedsProbe
  BY DEF ServingInv, ServingNeedsProbe, Services
<1>3. QED
  BY <1>1, <1>2, ServingStep, LifecycleTypeCorrect, PTL DEF LifecycleSpec
=============================================================================
