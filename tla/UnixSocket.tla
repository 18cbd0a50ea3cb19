------------------------------ MODULE UnixSocket -------------------------------
(***************************************************************************)
(* The unix socket file of mtdd_server, seen from several processes of one *)
(* host that share its path: instances started by mistake next to each     *)
(* other, and the one that follows another that ended or crashed.  It is   *)
(* main's path from LoadConfigFromEnv through ScopedListen and             *)
(* BuildAndStart to the exit (src/main.cpp, src/unix/unix_socket.cpp),     *)
(* a step for every look at the file system and every change of it.        *)
(***************************************************************************)
EXTENDS Config, FiniteSetsExt

CONSTANTS
    Procs,      \* processes; each runs once, a restart is another process
    Envs,       \* environments of the service, numbered
    MaxFaults,  \* processes that may crash, or whose BuildAndStart may just fail
    Levels, InitialDirs,  \* directories above the path and their states at first
    NoNode, OtherFile   \* nothing at the path; something that is not a socket

\* A directory is usable, not writable for the service, or not a directory.
DirStates == {"absent", "dir", "readonly", "file"}

\* Directories above a path, the root not counted: one for every name of the
\* path but the last.
DepthOf(path) == Cardinality({i \in DOMAIN path : path[i] # "/"}) - 1

ASSUME UnixAssumption ==
    /\ NoNode \notin Procs /\ OtherFile \notin Procs
    /\ MaxFaults \in Nat /\ Levels \in Nat
    /\ InitialDirs \subseteq [0..Levels -> DirStates]
    /\ \A d \in InitialDirs : d[0] # "absent"
    /\ \A e \in DOMAIN Envs : \A c \in LoadConfigFromEnv(Envs[e]) :
            c.listen.mode = "Unix" => DepthOf(c.listen.path) \in 0..Levels

VARIABLES
    env,        \* the number of the environment, the same for all of them
    config,     \* what LoadConfigFromEnv makes of it: one ServerConfig or none
    dirs,       \* the directories down to the socket's, the root first
    node,       \* what the path names: the socket of a process, or not a socket
    chmodded,   \* the mode of the socket file has been set
    listening,  \* processes that accept connections on their socket
    pc, level,  \* where a process is; the directory EnsureDirectory is at
    prepared_, finalized_,  \* processes whose ScopedListen has the flag
    faulted,    \* history: processes that crashed or failed to start
    alone       \* history: processes that nobody could disturb once they listened

given == <<env, config>>
fsVars == <<dirs, node, chmodded>>
listenVars == <<prepared_, finalized_>>
history == <<faulted, alone>>
unixVars == <<given, fsVars, listening, pc, level, listenVars, history>>

Setting == CHOOSE c \in config : TRUE

Depth == DepthOf(Setting.listen.path)

\* Bits of a mode that give its owner write, or write and search permission.
OwnerMayWrite(mode) == (mode \div 128) % 2 = 1
OwnerMayUse(mode) == OwnerMayWrite(mode) /\ (mode \div 64) % 2 = 1

UnixInit ==
    /\ env \in DOMAIN Envs
    /\ config = LoadConfigFromEnv(Envs[env])
    /\ dirs \in InitialDirs
    /\ node \in {NoNode, OtherFile}
    /\ node = OtherFile => config # {} /\ dirs[Depth] = "dir"
    /\ chmodded = FALSE
    /\ listening = {}
    /\ pc = [p \in Procs |-> "new"]
    /\ level = [p \in Procs |-> 0]
    /\ prepared_ = {} /\ finalized_ = {}
    /\ faulted = {} /\ alone = {}

-----------------------------------------------------------------------------
(***************************************************************************)
(* Leaving.  The catch block of main calls Abort, then destroys            *)
(* ScopedListen; the server is closed when the process ends.               *)
(***************************************************************************)
Go(p, to) == pc' = [pc EXCEPT ![p] = to]

\* Nothing left to do but to close the server, if there is one.
Ending(p) == Go(p, IF p \in listening THEN "closing" ELSE "exited")

\* An exception, or a null server: Abort cleans up if Prepare has succeeded.
Throw(p) == IF p \in prepared_ THEN Go(p, "cleanup") ELSE Ending(p)

RemoveNode == node' = NoNode /\ chmodded' = FALSE

\* CleanupListen is over, and with it ScopedListen.
EndScope(p) ==
    /\ prepared_' = prepared_ \ {p}
    /\ finalized_' = finalized_ \ {p}
    /\ Ending(p)

\* CleanupListen looks what the path names; a socket, whosever it is, it
\* unlinks.
CleanupStat(p) ==
    /\ pc[p] = "cleanup"
    /\ IF node \in Procs THEN Go(p, "rm") /\ UNCHANGED listenVars ELSE EndScope(p)
    /\ UNCHANGED <<given, fsVars, listening, level, history>>

CleanupUnlink(p) ==
    /\ pc[p] = "rm"
    /\ RemoveNode
    /\ EndScope(p)
    /\ UNCHANGED <<given, dirs, listening, level, history>>

\* gRPC closes the listener (external), and may remove a socket at its path.
\* After Shutdown main destroys ScopedListen.
CloseListener(p) ==
    /\ pc[p] = "closing"
    /\ listening' = listening \ {p}
    /\ \/ UNCHANGED <<node, chmodded>>
       \/ Setting.listen.mode = "Unix" /\ node \in Procs /\ RemoveNode
    /\ Go(p, IF p \in finalized_ THEN "cleanup" ELSE "exited")
    /\ UNCHANGED <<given, dirs, level, listenVars, history>>

-----------------------------------------------------------------------------
(***************************************************************************)
(* Starting: LoadConfigFromEnv, then PrepareListen.                        *)
(***************************************************************************)
Start(p) ==
    /\ pc[p] = "new"
    /\ IF config = {} THEN Go(p, "exited") /\ UNCHANGED level
       ELSE IF Setting.listen.mode = "Unix"
       THEN Go(p, "ensure") /\ level' = [level EXCEPT ![p] = Depth]
       ELSE Go(p, "bind") /\ UNCHANGED level
    /\ UNCHANGED <<given, fsVars, listening, listenVars, history>>

\* The directory at p's level is there: back to the one below, or done.
DirectoryThere(p) ==
    IF level[p] = Depth THEN Go(p, "look") /\ UNCHANGED level
                        ELSE Go(p, "mkdir") /\ level' = [level EXCEPT ![p] = @ + 1]

\* EnsureDirectory: stat and access; a missing directory needs its parent
\* first.
EnsureDirectory(p) ==
    /\ pc[p] = "ensure"
    /\ CASE dirs[level[p]] = "dir" -> DirectoryThere(p)
         [] dirs[level[p]] = "absent" /\ Setting.unix_socket_create_dir ->
                Go(p, "ensure") /\ level' = [level EXCEPT ![p] = @ - 1]
         [] OTHER -> Throw(p) /\ UNCHANGED level
    /\ UNCHANGED <<given, fsVars, listening, listenVars, history>>

\* Mutant of MakeDirectory: EEXIST is an error.
MakeDirectoryOnce(p) ==
    /\ pc[p] = "mkdir"
    /\ IF dirs[level[p]] = "absent"
       THEN dirs' = [dirs EXCEPT ![level[p]] = "dir"] /\ DirectoryThere(p)
       ELSE Throw(p) /\ UNCHANGED <<dirs, level>>
    /\ UNCHANGED <<given, node, chmodded, listening, listenVars, history>>

\* mkdir, where another process may have been faster, then stat and access.
MakeDirectory(p) ==
    LET made == IF dirs[level[p]] # "absent" THEN dirs[level[p]]
                ELSE IF OwnerMayUse(Setting.unix_socket_dir_mode) THEN "dir" ELSE "readonly"
    IN  /\ pc[p] = "mkdir"
        /\ dirs' = [dirs EXCEPT ![level[p]] = made]
        /\ IF made = "dir" THEN DirectoryThere(p) ELSE Throw(p) /\ UNCHANGED level
        /\ UNCHANGED <<given, node, chmodded, listening, listenVars, history>>

Prepared(p) == prepared_' = prepared_ \cup {p} /\ Go(p, "bind")

\* RemoveStaleSocketFile: stat.
LookAtPath(p) ==
    /\ pc[p] = "look"
    /\ CASE node = NoNode -> Prepared(p)
         [] node = OtherFile -> Throw(p) /\ UNCHANGED prepared_
         [] OTHER -> Go(p, "probe") /\ UNCHANGED prepared_
    /\ UNCHANGED <<given, fsVars, listening, level, finalized_, history>>

\* Mutant of IsLiveUnixSocket: the bind in another process counts for nothing
\* before its first chmod.
IsLiveOnceReady == node \in listening /\ chmodded

\* A connect to the path succeeds: its process listens, and the file's mode lets
\* its owner write.
IsLiveUnixSocket ==
    node \in listening /\ (chmodded => OwnerMayWrite(Setting.unix_socket_mode))

Probe(p) ==
    /\ pc[p] = "probe"
    /\ IF IsLiveUnixSocket THEN Throw(p) ELSE Go(p, "unlink")
    /\ UNCHANGED <<given, fsVars, listening, level, listenVars, history>>

\* unlink; it fails if the file has gone.
UnlinkStale(p) ==
    /\ pc[p] = "unlink"
    /\ IF node = NoNode THEN Throw(p) /\ UNCHANGED <<node, chmodded, prepared_>>
                        ELSE RemoveNode /\ Prepared(p)
    /\ UNCHANGED <<given, dirs, listening, level, finalized_, history>>

-----------------------------------------------------------------------------
(***************************************************************************)
(* BuildAndStart (external), then FinalizeListen.                          *)
(***************************************************************************)

\* gRPC binds; a socket in the way it may replace.
BindSocket(p) ==
    /\ pc[p] = "bind" /\ Setting.listen.mode = "Unix"
    /\ node # OtherFile
    /\ node' = p /\ chmodded' = FALSE
    /\ Go(p, "listen")
    /\ UNCHANGED <<given, dirs, listening, level, listenVars, history>>

\* The path or the port is in use: a null server.
BindFails(p) ==
    /\ pc[p] = "bind"
    /\ Setting.listen.mode = "Unix" => node # NoNode
    /\ Throw(p)
    /\ UNCHANGED <<given, fsVars, listening, level, listenVars, history>>

\* A TCP port.
BindPort(p) ==
    /\ pc[p] = "bind" /\ Setting.listen.mode # "Unix"
    /\ listening' = listening \cup {p}
    /\ Go(p, "serving")
    /\ UNCHANGED <<given, fsVars, level, listenVars, history>>

\* Where a process may still change what the path names, whatever it finds.
Meddling == {"unlink", "bind", "listen", "chmod", "verify", "serving", "closing", "cleanup", "rm"}

Listen(p) ==
    /\ pc[p] = "listen"
    /\ listening' = listening \cup {p}
    /\ alone' = IF node = p /\ \A q \in Procs \ {p} : pc[q] \notin Meddling
                THEN alone \cup {p} ELSE alone
    /\ Go(p, "chmod")
    /\ UNCHANGED <<given, fsVars, level, listenVars, faulted>>

\* FinalizeListen: chmod, by name.
ChmodSocket(p) ==
    /\ pc[p] = "chmod"
    /\ IF node = NoNode THEN Throw(p) /\ UNCHANGED chmodded
                        ELSE chmodded' = TRUE /\ Go(p, "verify")
    /\ UNCHANGED <<given, dirs, node, listening, level, listenVars, history>>

\* Mutant of VerifySocketNode: finalized_ is not set.
VerifyForgets(p) ==
    /\ pc[p] = "verify"
    /\ IF node \in Procs THEN Go(p, "serving") ELSE Throw(p)
    /\ UNCHANGED <<given, fsVars, listening, level, listenVars, history>>

\* stat: a socket is there.  A mode other than the one set is only logged.
VerifySocketNode(p) ==
    /\ pc[p] = "verify"
    /\ IF node \in Procs THEN finalized_' = finalized_ \cup {p} /\ Go(p, "serving")
                         ELSE Throw(p) /\ UNCHANGED finalized_
    /\ UNCHANGED <<given, fsVars, listening, level, prepared_, history>>

-----------------------------------------------------------------------------
(***************************************************************************)
(* What the world does: a signal, a crash, a server that does not start.   *)
(***************************************************************************)
Signal(p) ==
    /\ pc[p] = "serving"
    /\ Go(p, "closing")
    /\ UNCHANGED <<given, fsVars, listening, level, listenVars, history>>

Fault(p) == Cardinality(faulted) < MaxFaults /\ faulted' = faulted \cup {p}

Crash(p) ==
    /\ pc[p] \notin {"new", "exited", "crashed"}
    /\ Fault(p)
    /\ listening' = listening \ {p}
    /\ prepared_' = prepared_ \ {p} /\ finalized_' = finalized_ \ {p}
    /\ Go(p, "crashed")
    /\ UNCHANGED <<given, fsVars, level, alone>>

\* A service's constructor throws or BuildAndStart fails for its own reasons.
BuildFails(p) ==
    /\ pc[p] = "bind"
    /\ Fault(p)
    /\ Throw(p)
    /\ UNCHANGED <<given, fsVars, listening, level, listenVars, alone>>

ProcStep(p) ==
    \/ EnsureDirectory(p) \/ MakeDirectory(p) \/ LookAtPath(p) \/ Probe(p) \/ UnlinkStale(p)
    \/ BindSocket(p) \/ BindFails(p) \/ BindPort(p) \/ Listen(p) \/ ChmodSocket(p)
    \/ VerifySocketNode(p) \/ CloseListener(p) \/ CleanupStat(p) \/ CleanupUnlink(p)

UnixNext ==
    \E p \in Procs : Start(p) \/ ProcStep(p) \/ Signal(p) \/ Crash(p) \/ BuildFails(p)

UnixSpec == UnixInit /\ [][UnixNext]_unixVars

\* The main thread of each process runs; nobody has to start or stop one.
UnixFairSpec == UnixSpec /\ \A p \in Procs : WF_unixVars(ProcStep(p))

-----------------------------------------------------------------------------
\* Type invariant of the processes and the path.
UnixTypeOK ==
    /\ env \in DOMAIN Envs
    /\ dirs \in [0..Levels -> DirStates]
    /\ node \in Procs \cup {NoNode, OtherFile}
    /\ chmodded \in BOOLEAN
    /\ listening \subseteq Procs
    /\ pc \in [Procs -> {"new", "ensure", "mkdir", "look", "probe", "unlink", "bind", "listen",
                         "chmod", "verify", "serving", "closing", "cleanup", "rm", "exited",
                         "crashed"}]
    /\ level \in [Procs -> 0..Levels]
    /\ prepared_ \subseteq Procs /\ finalized_ \subseteq Procs
    /\ faulted \subseteq Procs /\ alone \subseteq Procs

\* A process that listened while no other was between its last look at the path
\* and its exit keeps the path: whoever starts later finds it alive and gives up.
\* It needs a MTDD_UNIX_SOCKET_MODE its owner may write with, or the connect of
\* IsLiveUnixSocket is refused and the next process unlinks the live socket.
UndisturbedServes ==
    \A p \in alone :
        pc[p] \in {"chmod", "verify", "serving"} /\ OwnerMayWrite(Setting.unix_socket_mode) =>
            node = p /\ p \in listening

\* A process that ends, in order or by an exception, leaves no socket of its own
\* (docs/OPERATIONS.md:130); only a crash does.
ExitLeavesNoFile == \A p \in Procs : pc[p] = "exited" => node # p

\* The number that digits spell.
NumberWritten(digits, base) ==
    MapThenSumSet(LAMBDA i : digits[i] * base^(Len(digits) - i), DOMAIN digits)

\* A setting is the number that was written, modes being octal, as long as it
\* fits an int; else static_cast<int> makes another number of it (2^32 gives 0)
\* after the test for a positive one (ParsePositiveInt, ParseOctalMode).
SettingsAsWritten ==
    \A c \in config :
        \A s \in {<<"MTDD_HOST_INDEX", c.host_index, 10>>, <<"MTDD_POOL_SIZE", c.pool_size, 10>>,
                  <<"MTDD_STATEMENT_TIMEOUT_MS", c.statement_timeout_ms, 10>>,
                  <<"MTDD_UNIX_SOCKET_MODE", c.unix_socket_mode, 8>>,
                  <<"MTDD_UNIX_SOCKET_DIR_MODE", c.unix_socket_dir_mode, 8>>} :
            /\ Envs[env][s[1]] # Unset
            /\ NumberWritten(Envs[env][s[1]].digits, s[3]) < 2^(IntBits - 1)
            => s[2] = NumberWritten(Envs[env][s[1]].digits, s[3])

\* The directories can be used or made, and the path can be taken.
Usable ==
    /\ config # {} /\ Setting.listen.mode = "Unix"
    /\ node # OtherFile
    /\ \A i \in 0..Depth :
        \/ dirs[i] = "dir"
        \/ dirs[i] = "absent" /\ Setting.unix_socket_create_dir
                              /\ OwnerMayUse(Setting.unix_socket_dir_mode)

\* The process that starts when all others have ended or crashed comes to serve,
\* whatever they left behind: half of the directories, or a stale socket.
RestartServes ==
    \A p \in Procs :
        /\ pc[p] = "ensure" /\ Usable
        /\ \A q \in Procs \ {p} : pc[q] \in {"exited", "crashed"}
        ~> pc[p] = "serving" \/ p \in faulted
=============================================================================
