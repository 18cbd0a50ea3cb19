------------------------------- MODULE Lifecycle -------------------------------
(***************************************************************************)
(* The life of the server process (main.cpp) and the health monitor         *)
(* (health/pg_health_monitor.cpp): startup, the Connect handlers' calls on  *)
(* the monitor, the probe thread, the signal handler, drain and exit.       *)
(*                                                                         *)
(* Nothing but params_ is guarded by a mutex, so SetServing is a step per   *)
(* service, and the test of probe_thread_, the store to stop_ and the       *)
(* assignment of the thread are steps of their own.  Assigning a joinable   *)
(* std::thread ends the process; when two assignments race, one thread may  *)
(* lose its handle instead.  Both are the end of the model (crashed).       *)
(*                                                                         *)
(* The signal handler runs on the main thread, blocked in Wait: that is     *)
(* where Linux delivers the first signal.  A signal before std::signal has  *)
(* the default effect and no code.  gRPC is external: a built server        *)
(* accepts calls at once, its health service reports SERVING for "" until   *)
(* told otherwise, Shutdown refuses new calls and waits for the running     *)
(* ones without a deadline, and Wait returns once Shutdown is over.         *)
(***************************************************************************)
EXTENDS Integers, Sequences, FiniteSets

CONSTANTS
    Handlers,     \* threads that run Connect
    Watches,      \* threads that run Watch
    MaxEvents     \* bound on Connect RPCs and changes of PostgreSQL together

ASSUME LifecycleAssumption ==
    /\ MaxEvents \in Nat
    /\ "main" \notin Handlers
    /\ "probe" \notin Handlers

VARIABLES
    health_require_pg,  \* MTDD_HEALTH_REQUIRE_PG
    mpc,                \* where main is
    spc,                \* where the signal handler is
    halt,               \* where Stop is, in the signal handler and in main
    server_,            \* AttachServer has stored the server
    status,             \* what gRPC health reports per service: SERVING or not
    at,                 \* SetServing per thread: the next service, 0 when outside
    serving,            \* its argument (FALSE when outside)
    has_params_,
    stop_,
    hpc,                \* Connect handlers
    tpc,                \* probe_thread_: "none" when not joinable
    watch,              \* Watch handlers
    pgUp,               \* PostgreSQL accepts connections
    connects, flips,    \* used up of the bound
    probed,             \* history: a probe has found PostgreSQL up
    overlapped,         \* history: two handlers found probe_thread_ free at once
    overtaken,          \* history: stop_ was cleared while a Stop was running
    crashed             \* probe_thread_ was assigned twice: nothing is said of the rest

mainVars == <<mpc, server_, health_require_pg>>
signalVars == <<spc, halt>>
statusVars == <<status, at, serving>>
threadVars == <<stop_, tpc>>
connectVars == <<hpc, has_params_, connects>>
worldVars == <<watch, pgUp, flips>>
historyVars == <<probed, overlapped, overtaken>>
lifeVars == <<mainVars, signalVars, statusVars, threadVars, connectVars, worldVars,
              historyVars, crashed>>

\* "overall" stands for the empty service name.
ServiceOrder == <<"overall", "MtddShard", "MtddNotify">>
Services == {"overall", "MtddShard", "MtddNotify"}
Threads == Handlers \cup {"main", "probe"}
Stoppers == {"signal", "main"}

LifecycleInit ==
    /\ health_require_pg \in BOOLEAN
    /\ mpc = "building"
    /\ spc = "none"
    /\ halt = [a \in Stoppers |-> "off"]
    /\ server_ = FALSE
    /\ status = [s \in Services |-> s = "overall"]
    /\ at = [t \in Threads |-> 0]
    /\ serving = [t \in Threads |-> FALSE]
    /\ has_params_ = FALSE
    /\ stop_ = FALSE
    /\ hpc = [h \in Handlers |-> "idle"]
    /\ tpc = "none"
    /\ watch = [w \in Watches |-> "none"]
    /\ pgUp \in BOOLEAN
    /\ connects = 0
    /\ flips = 0
    /\ probed = FALSE
    /\ overlapped = FALSE
    /\ overtaken = FALSE
    /\ crashed = FALSE

Joinable == tpc # "none"

\* A startup that fails after the server runs destroys the services under the
\* handlers' feet: nothing is said of what they do then.
Running == ~crashed /\ mpc # "failed"

Accepting ==
    /\ mpc \in {"started", "attaching", "enabling", "waiting"}
    /\ spc \notin {"shutting", "done"}

-----------------------------------------------------------------------------
(* SetServing: entered by EnterSetServing, then one step per service.       *)

EnterSetServing(t, value) ==
    /\ at' = [at EXCEPT ![t] = 1]
    /\ serving' = [serving EXCEPT ![t] = value]

SetServingRunsOn(t) ==
    /\ Running
    /\ at[t] # 0
    /\ \/ /\ at[t] = 1 /\ ~server_
          /\ at' = [at EXCEPT ![t] = 0]
          /\ UNCHANGED status
       \/ /\ server_
          /\ status' = [status EXCEPT ![ServiceOrder[at[t]]] = serving[t]]
          /\ at' = [at EXCEPT ![t] = @ + 1]
    /\ serving' = [serving EXCEPT ![t] = @ /\ at'[t] # 0]
    /\ UNCHANGED <<mainVars, signalVars, threadVars, connectVars, worldVars, historyVars,
                   crashed>>

SetServing(t) ==
    /\ Running
    /\ at[t] # 0
    /\ \/ /\ at[t] = 1 /\ ~server_
          /\ at' = [at EXCEPT ![t] = 0]
          /\ UNCHANGED status
       \/ /\ server_
          /\ status' = [status EXCEPT ![ServiceOrder[at[t]]] = serving[t]]
          /\ at' = [at EXCEPT ![t] = (@ + 1) % 4]
    /\ serving' = [serving EXCEPT ![t] = @ /\ at'[t] # 0]
    /\ UNCHANGED <<mainVars, signalVars, threadVars, connectVars, worldVars, historyVars,
                   crashed>>

-----------------------------------------------------------------------------
(* Stop, called by the signal handler, by main, and by the destructor, which *)
(* finds the thread joined and changes nothing.                              *)

StopFlagForgotten(a) ==
    /\ Running
    /\ halt[a] = "flag"
    /\ halt' = [halt EXCEPT ![a] = "check"]
    /\ UNCHANGED <<mainVars, spc, statusVars, threadVars, connectVars, worldVars,
                   historyVars, crashed>>

StopFlag(a) ==
    /\ Running
    /\ halt[a] = "flag"
    /\ stop_' = TRUE
    /\ halt' = [halt EXCEPT ![a] = "check"]
    /\ UNCHANGED <<mainVars, spc, statusVars, tpc, connectVars, worldVars, historyVars,
                   crashed>>

StopCheck(a) ==
    /\ Running
    /\ halt[a] = "check"
    /\ halt' = [halt EXCEPT ![a] = IF Joinable THEN "join" ELSE "over"]
    /\ UNCHANGED <<mainVars, spc, statusVars, threadVars, connectVars, worldVars,
                   historyVars, crashed>>

StopJoin(a) ==
    /\ Running
    /\ halt[a] = "join"
    /\ tpc = "done"
    /\ tpc' = "none"
    /\ halt' = [halt EXCEPT ![a] = "over"]
    /\ UNCHANGED <<mainVars, spc, statusVars, stop_, connectVars, worldVars, historyVars,
                   crashed>>

-----------------------------------------------------------------------------
(* Connect, from pool_.Connect on: OnConnectFailure or OnConnectSuccess.     *)

ConnectBegin(h) ==
    /\ Running
    /\ Accepting
    /\ hpc[h] = "idle"
    /\ connects + flips < MaxEvents
    /\ connects' = connects + 1
    /\ hpc' = [hpc EXCEPT ![h] = "connecting"]
    /\ UNCHANGED <<mainVars, signalVars, statusVars, threadVars, has_params_, worldVars,
                   historyVars, crashed>>

PoolConnects(h) ==
    /\ Running
    /\ hpc[h] = "connecting"
    /\ pgUp
    /\ hpc' = [hpc EXCEPT ![h] = "connected"]
    /\ UNCHANGED <<mainVars, signalVars, statusVars, threadVars, has_params_, connects,
                   worldVars, historyVars, crashed>>

\* PostgreSQL is down, or it rejects the credentials of this request.
PoolFails(h) ==
    /\ Running
    /\ hpc[h] = "connecting"
    /\ EnterSetServing(h, FALSE)
    /\ hpc' = [hpc EXCEPT ![h] = "failing"]
    /\ UNCHANGED <<mainVars, signalVars, status, threadVars, has_params_, connects,
                   worldVars, historyVars, crashed>>

ConnectFailed(h) ==
    /\ Running
    /\ hpc[h] = "failing"
    /\ at[h] = 0
    /\ hpc' = [hpc EXCEPT ![h] = "idle"]
    /\ UNCHANGED <<mainVars, signalVars, statusVars, threadVars, has_params_, connects,
                   worldVars, historyVars, crashed>>

StoreParams(h) ==
    /\ Running
    /\ hpc[h] = "connected"
    /\ has_params_' = TRUE
    /\ hpc' = [hpc EXCEPT ![h] = "probing"]
    /\ UNCHANGED <<mainVars, signalVars, statusVars, threadVars, connects, worldVars,
                   historyVars, crashed>>

ConnectTrusted(h) ==
    /\ Running
    /\ hpc[h] = "probing"
    /\ EnterSetServing(h, TRUE)
    /\ probed' = (probed \/ pgUp)
    /\ hpc' = [hpc EXCEPT ![h] = "setting"]
    /\ UNCHANGED <<mainVars, signalVars, status, threadVars, has_params_, connects,
                   worldVars, overlapped, overtaken, crashed>>

ConnectProbes(h) ==
    /\ Running
    /\ hpc[h] = "probing"
    /\ EnterSetServing(h, pgUp)
    /\ probed' = (probed \/ pgUp)
    /\ hpc' = [hpc EXCEPT ![h] = "setting"]
    /\ UNCHANGED <<mainVars, signalVars, status, threadVars, has_params_, connects,
                   worldVars, overlapped, overtaken, crashed>>

StartUnchecked(h) ==
    /\ Running
    /\ hpc[h] = "setting"
    /\ at[h] = 0
    /\ hpc' = [hpc EXCEPT ![h] = "starting"]
    /\ overlapped' = (overlapped \/ \E g \in Handlers \ {h} : hpc[g] \in {"starting", "spawning"})
    /\ UNCHANGED <<mainVars, signalVars, statusVars, threadVars, has_params_, connects,
                   worldVars, probed, overtaken, crashed>>

CheckThread(h) ==
    /\ Running
    /\ hpc[h] = "setting"
    /\ at[h] = 0
    /\ hpc' = [hpc EXCEPT ![h] = IF Joinable THEN "idle" ELSE "starting"]
    /\ overlapped' = (overlapped \/ /\ ~Joinable
                                    /\ \E g \in Handlers \ {h} :
                                          hpc[g] \in {"starting", "spawning"})
    /\ UNCHANGED <<mainVars, signalVars, statusVars, threadVars, has_params_, connects,
                   worldVars, probed, overtaken, crashed>>

ClearStop(h) ==
    /\ Running
    /\ hpc[h] = "starting"
    /\ stop_' = FALSE
    /\ overtaken' = (overtaken \/ \E a \in Stoppers : halt[a] \in {"check", "join"})
    /\ hpc' = [hpc EXCEPT ![h] = "spawning"]
    /\ UNCHANGED <<mainVars, signalVars, statusVars, tpc, has_params_, connects,
                   worldVars, probed, overlapped, crashed>>

StartThread(h) ==
    /\ Running
    /\ hpc[h] = "spawning"
    /\ \/ /\ Joinable
          /\ crashed' = TRUE
          /\ UNCHANGED tpc
       \/ /\ ~Joinable
          /\ tpc' = "loop"
          /\ UNCHANGED crashed
    /\ hpc' = [hpc EXCEPT ![h] = "idle"]
    /\ UNCHANGED <<mainVars, signalVars, statusVars, stop_, has_params_, connects,
                   worldVars, historyVars>>

-----------------------------------------------------------------------------
(* ProbeLoop.  A sleeping thread wakes after the interval or on stop_.       *)

ProbeTest ==
    /\ Running
    /\ tpc = "loop"
    /\ tpc' = IF stop_ THEN "done" ELSE IF has_params_ THEN "probing" ELSE "sleeping"
    /\ UNCHANGED <<mainVars, signalVars, statusVars, stop_, connectVars, worldVars,
                   historyVars, crashed>>

ProbeOnce ==
    /\ Running
    /\ tpc = "probing"
    /\ EnterSetServing("probe", pgUp)
    /\ probed' = (probed \/ pgUp)
    /\ tpc' = "setting"
    /\ UNCHANGED <<mainVars, signalVars, status, stop_, connectVars, worldVars,
                   overlapped, overtaken, crashed>>

ProbeLoopOnce ==
    /\ Running
    /\ tpc = "setting"
    /\ at["probe"] = 0
    /\ tpc' = "done"
    /\ UNCHANGED <<mainVars, signalVars, statusVars, stop_, connectVars, worldVars,
                   historyVars, crashed>>

ProbeSleeps ==
    /\ Running
    /\ tpc = "setting"
    /\ at["probe"] = 0
    /\ tpc' = "sleeping"
    /\ UNCHANGED <<mainVars, signalVars, statusVars, stop_, connectVars, worldVars,
                   historyVars, crashed>>

ProbeWakes ==
    /\ Running
    /\ tpc = "sleeping"
    /\ tpc' = "loop"
    /\ UNCHANGED <<mainVars, signalVars, statusVars, stop_, connectVars, worldVars,
                   historyVars, crashed>>

-----------------------------------------------------------------------------
(* main.                                                                    *)

BuildAndStart ==
    /\ mpc = "building"
    /\ mpc' = "started"
    /\ UNCHANGED <<server_, health_require_pg, signalVars, statusVars, threadVars,
                   connectVars, worldVars, historyVars, crashed>>

\* Prepare throws or BuildAndStart returns null; or Finalize throws, with the
\* server already running.
StartupFails ==
    /\ Running
    /\ mpc \in {"building", "started"}
    /\ mpc' = "failed"
    /\ UNCHANGED <<server_, health_require_pg, signalVars, statusVars, threadVars,
                   connectVars, worldVars, historyVars, crashed>>

AttachServer ==
    /\ Running
    /\ mpc = "started"
    /\ server_' = TRUE
    /\ EnterSetServing("main", FALSE)
    /\ mpc' = "attaching"
    /\ UNCHANGED <<health_require_pg, signalVars, status, threadVars, connectVars,
                   worldVars, historyVars, crashed>>

SetServingWithoutPg ==
    /\ Running
    /\ mpc = "attaching"
    /\ at["main"] = 0
    /\ ~health_require_pg
    /\ EnterSetServing("main", TRUE)
    /\ mpc' = "enabling"
    /\ UNCHANGED <<server_, health_require_pg, signalVars, status, threadVars,
                   connectVars, worldVars, historyVars, crashed>>

MainWaits ==
    /\ Running
    /\ mpc = "enabling" \/ (mpc = "attaching" /\ health_require_pg)
    /\ at["main"] = 0
    /\ mpc' = "waiting"
    /\ UNCHANGED <<server_, health_require_pg, signalVars, statusVars, threadVars,
                   connectVars, worldVars, historyVars, crashed>>

WaitReturnsToExit ==
    /\ Running
    /\ mpc = "waiting"
    /\ spc = "done"
    /\ mpc' = "stopping"
    /\ halt' = [halt EXCEPT !["main"] = "over"]
    /\ UNCHANGED <<server_, health_require_pg, spc, statusVars, threadVars, connectVars,
                   worldVars, historyVars, crashed>>

WaitReturns ==
    /\ Running
    /\ mpc = "waiting"
    /\ spc = "done"
    /\ mpc' = "stopping"
    /\ halt' = [halt EXCEPT !["main"] = "flag"]
    /\ UNCHANGED <<server_, health_require_pg, spc, statusVars, threadVars, connectVars,
                   worldVars, historyVars, crashed>>

\* g_server.reset() and the return from main.
MainExits ==
    /\ Running
    /\ mpc = "stopping"
    /\ halt["main"] = "over"
    /\ mpc' = "exited"
    /\ UNCHANGED <<server_, health_require_pg, signalVars, statusVars, threadVars,
                   connectVars, worldVars, historyVars, crashed>>

-----------------------------------------------------------------------------
(* The signal handler: Stop, then Shutdown.                                  *)

HandleSignal ==
    /\ Running
    /\ mpc = "waiting"
    /\ spc = "none"
    /\ spc' = "stopping"
    /\ halt' = [halt EXCEPT !["signal"] = "flag"]
    /\ UNCHANGED <<mainVars, statusVars, threadVars, connectVars, worldVars, historyVars,
                   crashed>>

CallShutdown ==
    /\ Running
    /\ spc = "stopping"
    /\ halt["signal"] = "over"
    /\ spc' = "shutting"
    /\ UNCHANGED <<mainVars, halt, statusVars, threadVars, connectVars, worldVars,
                   historyVars, crashed>>

ShutdownReturns ==
    /\ Running
    /\ spc = "shutting"
    /\ \A h \in Handlers : hpc[h] = "idle"
    /\ \A w \in Watches : watch[w] = "none"
    /\ spc' = "done"
    /\ UNCHANGED <<mainVars, halt, statusVars, threadVars, connectVars, worldVars,
                   historyVars, crashed>>

-----------------------------------------------------------------------------
(* Watch: runs until its client cancels, polled by IsCancelled.              *)

WatchBegin(w) ==
    /\ Running
    /\ Accepting
    /\ watch[w] = "none"
    /\ watch' = [watch EXCEPT ![w] = "open"]
    /\ UNCHANGED <<mainVars, signalVars, statusVars, threadVars, connectVars, pgUp, flips,
                   historyVars, crashed>>

\* The client cancels, and the handler finds out at its next look.
WatchEnds(w) ==
    /\ Running
    /\ watch[w] = "open"
    /\ watch' = [watch EXCEPT ![w] = "none"]
    /\ UNCHANGED <<mainVars, signalVars, statusVars, threadVars, connectVars, pgUp, flips,
                   historyVars, crashed>>

\* PostgreSQL goes down or comes back.
PgFlips ==
    /\ Running
    /\ mpc # "exited"
    /\ connects + flips < MaxEvents
    /\ pgUp' = ~pgUp
    /\ flips' = flips + 1
    /\ UNCHANGED <<mainVars, signalVars, statusVars, threadVars, connectVars, watch,
                   historyVars, crashed>>

-----------------------------------------------------------------------------
ConnectStep(h) ==
    \/ PoolConnects(h) \/ PoolFails(h) \/ ConnectFailed(h) \/ StoreParams(h)
    \/ ConnectProbes(h) \/ CheckThread(h) \/ ClearStop(h) \/ StartThread(h)

ProbeStep == ProbeTest \/ ProbeOnce \/ ProbeSleeps \/ ProbeWakes

MainStep ==
    \/ BuildAndStart \/ AttachServer \/ SetServingWithoutPg \/ MainWaits
    \/ WaitReturns \/ MainExits

SignalStep == CallShutdown \/ ShutdownReturns

StopStep(a) == StopFlag(a) \/ StopCheck(a) \/ StopJoin(a)

LifecycleNext ==
    \/ \E h \in Handlers : ConnectBegin(h) \/ ConnectStep(h)
    \/ \E t \in Threads : SetServing(t)
    \/ \E a \in Stoppers : StopStep(a)
    \/ \E w \in Watches : WatchBegin(w) \/ WatchEnds(w)
    \/ ProbeStep
    \/ MainStep
    \/ SignalStep
    \/ StartupFails
    \/ HandleSignal
    \/ PgFlips

\* The scheduler runs every thread that can go on.  No RPC, signal, cancelled
\* Watch, failed startup or change of PostgreSQL is forced.
LifecycleFairness ==
    /\ \A h \in Handlers : WF_lifeVars(ConnectStep(h))
    /\ \A t \in Threads : WF_lifeVars(SetServing(t))
    /\ \A a \in Stoppers : WF_lifeVars(StopStep(a))
    /\ WF_lifeVars(ProbeStep)
    /\ WF_lifeVars(MainStep)
    /\ WF_lifeVars(SignalStep)

LifecycleSpec == LifecycleInit /\ [][LifecycleNext]_lifeVars /\ LifecycleFairness

-----------------------------------------------------------------------------
(* Properties.                                                              *)

\* Every variable has its type: each thread is at a place its code has, and a
\* SetServing call is outside, or before one of its three services.
LifecycleTypeOK ==
    /\ health_require_pg \in BOOLEAN
    /\ mpc \in {"building", "started", "attaching", "enabling", "waiting", "stopping",
                "exited", "failed"}
    /\ spc \in {"none", "stopping", "shutting", "done"}
    /\ halt \in [Stoppers -> {"off", "flag", "check", "join", "over"}]
    /\ server_ \in BOOLEAN
    /\ status \in [Services -> BOOLEAN]
    /\ at \in [Threads -> 0..3]
    /\ serving \in [Threads -> BOOLEAN]
    /\ has_params_ \in BOOLEAN
    /\ stop_ \in BOOLEAN
    /\ hpc \in [Handlers -> {"idle", "connecting", "connected", "failing", "probing",
                             "setting", "starting", "spawning"}]
    /\ tpc \in {"none", "loop", "probing", "setting", "sleeping", "done"}
    /\ watch \in [Watches -> {"none", "open"}]
    /\ pgUp \in BOOLEAN
    /\ connects \in Nat
    /\ flips \in Nat
    /\ probed \in BOOLEAN
    /\ overlapped \in BOOLEAN
    /\ overtaken \in BOOLEAN
    /\ crashed \in BOOLEAN

\* With MTDD_HEALTH_REQUIRE_PG on, no service is SERVING before a probe has
\* found PostgreSQL up, from the moment main has got past AttachServer; whoever
\* writes the statuses and in whatever order.  Between BuildAndStart and
\* AttachServer's SetServing the server answers, and gRPC reports the overall
\* service SERVING, unlike what README.md:136 and docs/OPERATIONS.md:180 say.
ServingNeedsProbe ==
    /\ health_require_pg
    /\ mpc \in {"waiting", "stopping", "exited"}
    /\ \E s \in Services : status[s]
    => probed

\* g_server.reset() frees the server that server_ points to: by then no probe
\* thread exists and no thread is inside Connect or SetServing, even when a
\* Connect started the probe thread again after the signal handler joined it.
SafeTeardown ==
    mpc = "exited" =>
        /\ tpc = "none"
        /\ \A h \in Handlers : hpc[h] = "idle"
        /\ \A t \in Threads : at[t] = 0

\* probe_thread_ is assigned while it is joinable only after two Connect
\* handlers were both between the test of joinable() and the assignment.
CrashNeedsOverlap == crashed => overlapped

\* While the probe thread is left alone the statuses settle on what PostgreSQL
\* does: once Connects and outages are over, all three services report it,
\* whatever stale or mixed values racing SetServing calls left behind.
HealthTracksPg ==
    <>[](\/ crashed \/ stop_ \/ tpc = "none" \/ mpc = "failed"
         \/ \A s \in Services : status[s] = pgUp)

Signalled == spc # "none"

\* After a signal the process drains and exits, if the clients end their
\* Watches and no Connect cleared stop_ while Stop was waiting for the thread.
DrainsAndExits ==
    (\A w \in Watches : []<>(watch[w] # "open"))
        => (Signalled ~> (mpc = "exited" \/ crashed \/ overtaken))

\* docs/OPERATIONS.md:176: "send SIGTERM / SIGINT; gRPC drains in-flight RPCs
\* then exits".
ExitsAfterSignal == Signalled ~> mpc = "exited"
=============================================================================
