--------------------------- MODULE UnixSocketProofs ----------------------------
(***************************************************************************)
(* Proofs about UnixSocket, for any number of processes, any environments  *)
(* and any number of crashes.                                              *)
(***************************************************************************)
EXTENDS UnixSocket, TLAPS

\* The directory EnsureDirectory works on is one of those above the path.
OnTheWay ==
    /\ config # {} /\ Setting.listen.mode = "Unix" => Depth \in 0..Levels
    /\ dirs[0] # "absent"
    /\ \A p \in Procs :
        /\ pc[p] = "ensure" => config # {} /\ level[p] \in 0..Depth
        /\ pc[p] = "mkdir" => config # {} /\ level[p] \in 1..Depth
        /\ pc[p] \in {"ensure", "mkdir"} => Setting.listen.mode = "Unix"

\* The flags of ScopedListen and the server, by where the process is.
Flags ==
    \A p \in Procs :
        /\ pc[p] \in {"new", "ensure", "mkdir", "look", "probe", "unlink"} =>
                p \notin prepared_ /\ p \notin listening
        /\ pc[p] \in {"new", "ensure", "mkdir", "look", "probe", "unlink", "bind", "listen"} =>
                p \notin alone
        /\ pc[p] = "bind" => Setting.listen.mode # "Unix" \/ p \in prepared_
        /\ pc[p] \in {"listen", "chmod", "verify"} =>
                Setting.listen.mode = "Unix" /\ p \in prepared_
        /\ p \in alone => Setting.listen.mode = "Unix"

\* A process whose socket the path names is on its way to remove it.
Owned ==
    \A p \in Procs : node = p =>
        /\ pc[p] \in {"listen", "chmod", "verify", "serving", "closing", "cleanup", "rm", "crashed"}
        /\ pc[p] \in {"serving", "closing"} => p \in finalized_

\* Once a process listens undisturbed, no other gets past its look at the path.
Undisturbed ==
    \A p \in alone :
        pc[p] \in {"chmod", "verify", "serving"} /\ OwnerMayWrite(Setting.unix_socket_mode) =>
            /\ node = p /\ p \in listening
            /\ \A q \in Procs \ {p} : pc[q] \notin Meddling

\* The inductive invariant.
UnixInv == UnixTypeOK /\ OnTheWay /\ Flags /\ Owned /\ Undisturbed

\* Where a process is once it is through with the directories.
Later == {"look", "probe", "unlink", "bind", "listen", "chmod", "verify", "serving", "closing",
          "cleanup", "rm", "exited", "crashed"}

\* Lemma: a step that leaves the directories alone and ends past EnsureDirectory
\* keeps the types and OnTheWay.
LEMMA PastDirectories ==
  ASSUME UnixTypeOK, OnTheWay, NEW p \in Procs, NEW to \in Later,
         pc' = [pc EXCEPT ![p] = to],
         Setting' = Setting, Depth' = Depth, config' = config,
         env' = env, dirs' = dirs, level' = level,
         node' \in Procs \cup {NoNode, OtherFile}, chmodded' \in BOOLEAN,
         listening' \subseteq Procs, prepared_' \subseteq Procs, finalized_' \subseteq Procs,
         faulted' \subseteq Procs, alone' \subseteq Procs
  PROVE  UnixTypeOK' /\ OnTheWay'
<1>1. /\ pc' \in [Procs -> {"new", "ensure", "mkdir", "look", "probe", "unlink", "bind", "listen",
                            "chmod", "verify", "serving", "closing", "cleanup", "rm", "exited",
                            "crashed"}]
      /\ pc'[p] = to /\ \A q \in Procs \ {p} : pc'[q] = pc[q]
  BY DEF UnixTypeOK, Later
<1>2. UnixTypeOK'
  BY Zenon, <1>1 DEF UnixTypeOK
<1>3. to \notin {"ensure", "mkdir"}
  BY DEF Later
<1>4. ASSUME NEW q \in Procs
      PROVE  /\ pc'[q] = "ensure" => pc[q] = "ensure"
             /\ pc'[q] = "mkdir" => pc[q] = "mkdir"
  BY <1>1, <1>3
<1>5. OnTheWay'
  BY Zenon, <1>4 DEF OnTheWay
<1>6. QED
  BY <1>2, <1>5

\* Lemma: a step of a process keeps the invariant.
LEMMA ProcessStep ==
  ASSUME UnixInv, NEW p \in Procs,
         Start(p) \/ ProcStep(p) \/ Signal(p) \/ Crash(p) \/ BuildFails(p)
  PROVE  UnixInv'
<1> USE UnixAssumption DEF Go, Throw, Ending, given, fsVars, listenVars, history
<1>0. Setting' = Setting /\ Depth' = Depth /\ config' = config
  BY Zenon DEF ProcStep, Setting, Depth, Start, EnsureDirectory, MakeDirectory, LookAtPath,
     Probe, UnlinkStale, BindSocket, BindFails, BindPort, Listen,
     ChmodSocket, VerifySocketNode, CloseListener, CleanupStat, CleanupUnlink, Signal, Crash, BuildFails
<1>1. CASE Start(p)
  <2>1. UnixTypeOK' /\ OnTheWay'
    <3>1. level' \in [Procs -> 0..Levels]
      BY SMTT(30), <1>1 DEF UnixInv, UnixTypeOK, OnTheWay, Start
    <3>2. UnixTypeOK'
      BY Zenon, <1>1, <3>1 DEF UnixInv, UnixTypeOK, Start
    <3>3. OnTheWay'
      BY SMTT(30), <1>0, <1>1 DEF UnixInv, UnixTypeOK, OnTheWay, Start
    <3>4. QED
      BY SMTT(30), <3>2, <3>3
  <2>2. Flags' /\ Owned'
    BY SMTT(30), <1>0, <1>1 DEF UnixInv, UnixTypeOK, Flags, Owned, Start
  <2>3. Undisturbed'
    BY SMTT(30), <1>0, <1>1 DEF UnixInv, UnixTypeOK, Flags, Undisturbed, Meddling, Start
  <2>4. QED
    BY <2>1, <2>2, <2>3 DEF UnixInv
<1>2. CASE EnsureDirectory(p)
  <2>1. UnixTypeOK' /\ OnTheWay'
    <3>1. /\ pc[p] = "ensure" /\ config # {} /\ Setting.listen.mode = "Unix"
          /\ level[p] \in 0..Depth /\ Depth \in 0..Levels
          /\ dirs[level[p]] = "absent" => level[p] # 0
      BY <1>2 DEF UnixInv, OnTheWay, EnsureDirectory
    <3>2. UNCHANGED <<given, fsVars, listening, listenVars, history>>
      BY <1>2 DEF EnsureDirectory
    <3>3. \/ UNCHANGED level /\ \E to \in {"look", "cleanup", "closing", "exited"} : Go(p, to)
          \/ /\ Go(p, "mkdir") /\ level[p] # Depth
             /\ level' = [level EXCEPT ![p] = level[p] + 1]
          \/ /\ Go(p, "ensure") /\ level[p] # 0
             /\ level' = [level EXCEPT ![p] = level[p] - 1]
      BY SMTT(30), <1>2, <3>1 DEF EnsureDirectory, DirectoryThere
    <3>4. level' \in [Procs -> 0..Levels]
      BY <3>1, <3>3 DEF UnixInv, UnixTypeOK
    <3>5. UnixTypeOK'
      BY ZenonT(30), <3>2, <3>3, <3>4 DEF UnixInv, UnixTypeOK
    <3>6. OnTheWay'
      BY SMTT(30), <1>0, <3>1, <3>2, <3>3 DEF UnixInv, UnixTypeOK, OnTheWay
    <3>7. QED
      BY <3>5, <3>6
  <2>2. Flags' /\ Owned'
    BY SMTT(30), <1>0, <1>2 DEF UnixInv, UnixTypeOK, Flags, Owned, EnsureDirectory, DirectoryThere
  <2>3. Undisturbed'
    BY SMTT(30), <1>0, <1>2 DEF UnixInv, UnixTypeOK, Flags, Undisturbed, Meddling, EnsureDirectory, DirectoryThere
  <2>4. QED
    BY <2>1, <2>2, <2>3 DEF UnixInv
<1>3. CASE MakeDirectory(p)
  <2>1. UnixTypeOK' /\ OnTheWay'
    <3>1. /\ pc[p] = "mkdir" /\ config # {} /\ Setting.listen.mode = "Unix"
          /\ level[p] \in 1..Depth /\ Depth \in 0..Levels
      BY <1>3 DEF UnixInv, OnTheWay, MakeDirectory
    <3>2. UNCHANGED <<given, node, chmodded, listening, listenVars, history>>
      BY <1>3 DEF MakeDirectory
    <3>3. PICK made \in DirStates \ {"absent"} : dirs' = [dirs EXCEPT ![level[p]] = made]
      BY Zenon, <1>3, <3>1 DEF MakeDirectory, UnixInv, UnixTypeOK, DirStates
    <3>4. \/ UNCHANGED level /\ \E to \in {"look", "cleanup", "closing", "exited"} : Go(p, to)
          \/ /\ Go(p, "mkdir") /\ level[p] # Depth
             /\ level' = [level EXCEPT ![p] = level[p] + 1]
      BY SMTT(30), <1>3, <3>1 DEF MakeDirectory, DirectoryThere
    <3>5. level' \in [Procs -> 0..Levels]
      BY SMTT(30), <3>1, <3>4 DEF UnixInv, UnixTypeOK
    <3>6. UnixTypeOK'
      BY SMTT(30), <3>2, <3>3, <3>4, <3>5 DEF UnixInv, UnixTypeOK
    <3>7. OnTheWay'
      BY SMTT(30), <1>0, <3>1, <3>2, <3>3, <3>4 DEF UnixInv, UnixTypeOK, OnTheWay
    <3>8. QED
      BY SMTT(30), <3>6, <3>7
  <2>2. Flags' /\ Owned'
    BY SMTT(30), <1>0, <1>3 DEF UnixInv, UnixTypeOK, Flags, Owned, MakeDirectory, DirectoryThere
  <2>3. Undisturbed'
    BY SMTT(30), <1>0, <1>3 DEF UnixInv, UnixTypeOK, Flags, Undisturbed, Meddling, MakeDirectory, DirectoryThere
  <2>4. QED
    BY <2>1, <2>2, <2>3 DEF UnixInv
<1>4. CASE LookAtPath(p)
  <2>1. UnixTypeOK' /\ OnTheWay'
    <3>1. prepared_' \subseteq Procs
      BY <1>4 DEF UnixInv, UnixTypeOK, LookAtPath, Prepared
    <3>2. \E to \in {"bind", "probe", "cleanup", "closing", "exited"} : Go(p, to)
      BY <1>4 DEF LookAtPath, Prepared
    <3>3. UNCHANGED <<given, fsVars, listening, level, finalized_, history>>
      BY <1>4 DEF LookAtPath
    <3>4. QED
      BY SMTT(30), <1>0, <3>1, <3>2, <3>3 DEF UnixInv, UnixTypeOK, OnTheWay
  <2>2. Flags' /\ Owned'
    BY SMTT(30), <1>0, <1>4 DEF UnixInv, UnixTypeOK, Flags, Owned, LookAtPath, Prepared
  <2>3. Undisturbed'
    BY SMTT(30), <1>0, <1>4 DEF UnixInv, UnixTypeOK, Flags, Undisturbed, Meddling, LookAtPath, Prepared
  <2>4. QED
    BY <2>1, <2>2, <2>3 DEF UnixInv
<1>5. CASE Probe(p)
  <2>1. UnixTypeOK' /\ OnTheWay'
    <3>1. chmodded' \in BOOLEAN
      BY Zenon, <1>5 DEF UnixInv, UnixTypeOK, Probe, IsLiveUnixSocket
    <3>2. /\ node' \in Procs \cup {NoNode, OtherFile} /\ listening' \subseteq Procs
          /\ prepared_' \subseteq Procs /\ finalized_' \subseteq Procs
          /\ faulted' \subseteq Procs /\ alone' \subseteq Procs
      BY <1>5 DEF UnixInv, UnixTypeOK, Probe, IsLiveUnixSocket
    <3>3. \E to \in Later : pc' = [pc EXCEPT ![p] = to]
      BY <1>5 DEF Later, Probe, IsLiveUnixSocket
    <3>4. env' = env /\ dirs' = dirs /\ level' = level
      BY Zenon, <1>5 DEF Probe, IsLiveUnixSocket
    <3>5. QED
      BY Zenon, <1>0, <3>1, <3>2, <3>3, <3>4, PastDirectories DEF UnixInv
  <2>2. Flags' /\ Owned'
    BY <1>0, <1>5 DEF UnixInv, UnixTypeOK, Flags, Owned, Probe, IsLiveUnixSocket
  <2>3. Undisturbed'
    BY SMTT(30), <1>0, <1>5 DEF UnixInv, UnixTypeOK, Flags, Undisturbed, Meddling, Probe, IsLiveUnixSocket
  <2>4. QED
    BY <2>1, <2>2, <2>3 DEF UnixInv
<1>6. CASE UnlinkStale(p)
  <2>1. UnixTypeOK' /\ OnTheWay'
    <3>1. chmodded' \in BOOLEAN
      BY <1>6, Zenon DEF UnixInv, UnixTypeOK, UnlinkStale, RemoveNode
    <3>2. prepared_' \subseteq Procs /\ node' \in Procs \cup {NoNode, OtherFile}
      BY <1>6 DEF UnixInv, UnixTypeOK, UnlinkStale, Prepared, RemoveNode
    <3>3. \E to \in {"bind", "cleanup", "closing", "exited"} : Go(p, to)
      BY <1>6 DEF UnlinkStale, Prepared
    <3>4. UNCHANGED <<given, dirs, listening, level, finalized_, history>>
      BY <1>6 DEF UnlinkStale
    <3>5. QED
      BY SMTT(30), <1>0, <3>1, <3>2, <3>3, <3>4 DEF UnixInv, UnixTypeOK, OnTheWay
  <2>2. Flags' /\ Owned'
    BY <1>0, <1>6 DEF UnixInv, UnixTypeOK, Flags, Owned, UnlinkStale, Prepared, RemoveNode
  <2>3. Undisturbed'
    BY SMTT(30), <1>0, <1>6 DEF UnixInv, UnixTypeOK, Flags, Undisturbed, Meddling, UnlinkStale, Prepared, RemoveNode
  <2>4. QED
    BY <2>1, <2>2, <2>3 DEF UnixInv
<1>7. CASE BindSocket(p)
  <2>1. UnixTypeOK' /\ OnTheWay'
    <3>1. chmodded' \in BOOLEAN
      BY Zenon, <1>7 DEF UnixInv, UnixTypeOK, BindSocket
    <3>2. /\ node' \in Procs \cup {NoNode, OtherFile} /\ listening' \subseteq Procs
          /\ prepared_' \subseteq Procs /\ finalized_' \subseteq Procs
          /\ faulted' \subseteq Procs /\ alone' \subseteq Procs
      BY <1>7 DEF UnixInv, UnixTypeOK, BindSocket
    <3>3. \E to \in Later : pc' = [pc EXCEPT ![p] = to]
      BY <1>7 DEF Later, BindSocket
    <3>4. env' = env /\ dirs' = dirs /\ level' = level
      BY Zenon, <1>7 DEF BindSocket
    <3>5. QED
      BY Zenon, <1>0, <3>1, <3>2, <3>3, <3>4, PastDirectories DEF UnixInv
  <2>2. Flags' /\ Owned'
    BY SMTT(30), <1>0, <1>7 DEF UnixInv, UnixTypeOK, Flags, Owned, BindSocket
  <2>3. Undisturbed'
    BY SMTT(30), <1>0, <1>7 DEF UnixInv, UnixTypeOK, Flags, Undisturbed, Meddling, BindSocket
  <2>4. QED
    BY <2>1, <2>2, <2>3 DEF UnixInv
<1>8. CASE BindFails(p)
  <2>1. UnixTypeOK' /\ OnTheWay'
    <3>1. chmodded' \in BOOLEAN
      BY Zenon, <1>8 DEF UnixInv, UnixTypeOK, BindFails
    <3>2. /\ node' \in Procs \cup {NoNode, OtherFile} /\ listening' \subseteq Procs
          /\ prepared_' \subseteq Procs /\ finalized_' \subseteq Procs
          /\ faulted' \subseteq Procs /\ alone' \subseteq Procs
      BY <1>8 DEF UnixInv, UnixTypeOK, BindFails
    <3>3. \E to \in Later : pc' = [pc EXCEPT ![p] = to]
      BY <1>8 DEF Later, BindFails
    <3>4. env' = env /\ dirs' = dirs /\ level' = level
      BY Zenon, <1>8 DEF BindFails
    <3>5. QED
      BY Zenon, <1>0, <3>1, <3>2, <3>3, <3>4, PastDirectories DEF UnixInv
  <2>2. Flags' /\ Owned'
    BY SMTT(30), <1>0, <1>8 DEF UnixInv, UnixTypeOK, Flags, Owned, BindFails
  <2>3. Undisturbed'
    BY SMTT(30), <1>0, <1>8 DEF UnixInv, UnixTypeOK, Flags, Undisturbed, Meddling, BindFails
  <2>4. QED
    BY <2>1, <2>2, <2>3 DEF UnixInv
<1>9. CASE BindPort(p)
  <2>1. UnixTypeOK' /\ OnTheWay'
    <3>1. chmodded' \in BOOLEAN
      BY Zenon, <1>9 DEF UnixInv, UnixTypeOK, BindPort
    <3>2. /\ node' \in Procs \cup {NoNode, OtherFile} /\ listening' \subseteq Procs
          /\ prepared_' \subseteq Procs /\ finalized_' \subseteq Procs
          /\ faulted' \subseteq Procs /\ alone' \subseteq Procs
      BY <1>9 DEF UnixInv, UnixTypeOK, BindPort
    <3>3. \E to \in Later : pc' = [pc EXCEPT ![p] = to]
      BY <1>9 DEF Later, BindPort
    <3>4. env' = env /\ dirs' = dirs /\ level' = level
      BY Zenon, <1>9 DEF BindPort
    <3>5. QED
      BY Zenon, <1>0, <3>1, <3>2, <3>3, <3>4, PastDirectories DEF UnixInv
  <2>2. Flags' /\ Owned'
    BY SMTT(30), <1>0, <1>9 DEF UnixInv, UnixTypeOK, Flags, Owned, BindPort
  <2>3. Undisturbed'
    BY SMTT(30), <1>0, <1>9 DEF UnixInv, UnixTypeOK, Flags, Undisturbed, Meddling, BindPort
  <2>4. QED
    BY <2>1, <2>2, <2>3 DEF UnixInv
<1>10. CASE Listen(p)
  <2>1. UnixTypeOK' /\ OnTheWay'
    <3>1. chmodded' \in BOOLEAN
      BY Zenon, <1>10 DEF UnixInv, UnixTypeOK, Listen
    <3>2. /\ node' \in Procs \cup {NoNode, OtherFile} /\ listening' \subseteq Procs
          /\ prepared_' \subseteq Procs /\ finalized_' \subseteq Procs
          /\ faulted' \subseteq Procs /\ alone' \subseteq Procs
      BY <1>10 DEF UnixInv, UnixTypeOK, Listen
    <3>3. \E to \in Later : pc' = [pc EXCEPT ![p] = to]
      BY <1>10 DEF Later, Listen
    <3>4. env' = env /\ dirs' = dirs /\ level' = level
      BY Zenon, <1>10 DEF Listen
    <3>5. QED
      BY Zenon, <1>0, <3>1, <3>2, <3>3, <3>4, PastDirectories DEF UnixInv
  <2>2. Flags' /\ Owned'
    BY SMTT(30), <1>0, <1>10 DEF UnixInv, UnixTypeOK, Flags, Owned, Listen
  <2>3. Undisturbed'
    BY SMTT(30), <1>0, <1>10 DEF UnixInv, UnixTypeOK, Flags, Undisturbed, Meddling, Listen
  <2>4. QED
    BY <2>1, <2>2, <2>3 DEF UnixInv
<1>11. CASE ChmodSocket(p)
  <2>1. UnixTypeOK' /\ OnTheWay'
    <3>1. chmodded' \in BOOLEAN
      BY Zenon, <1>11 DEF UnixInv, UnixTypeOK, ChmodSocket
    <3>2. /\ node' \in Procs \cup {NoNode, OtherFile} /\ listening' \subseteq Procs
          /\ prepared_' \subseteq Procs /\ finalized_' \subseteq Procs
          /\ faulted' \subseteq Procs /\ alone' \subseteq Procs
      BY <1>11 DEF UnixInv, UnixTypeOK, ChmodSocket
    <3>3. \E to \in Later : pc' = [pc EXCEPT ![p] = to]
      BY <1>11 DEF Later, ChmodSocket
    <3>4. env' = env /\ dirs' = dirs /\ level' = level
      BY Zenon, <1>11 DEF ChmodSocket
    <3>5. QED
      BY Zenon, <1>0, <3>1, <3>2, <3>3, <3>4, PastDirectories DEF UnixInv
  <2>2. Flags' /\ Owned'
    BY SMTT(30), <1>0, <1>11 DEF UnixInv, UnixTypeOK, Flags, Owned, ChmodSocket
  <2>3. Undisturbed'
    BY SMTT(30), <1>0, <1>11 DEF UnixInv, UnixTypeOK, Flags, Undisturbed, Meddling, ChmodSocket
  <2>4. QED
    BY <2>1, <2>2, <2>3 DEF UnixInv
<1>12. CASE VerifySocketNode(p)
  <2>1. UnixTypeOK' /\ OnTheWay'
    <3>1. chmodded' \in BOOLEAN
      BY Zenon, <1>12 DEF UnixInv, UnixTypeOK, VerifySocketNode
    <3>2. /\ node' \in Procs \cup {NoNode, OtherFile} /\ listening' \subseteq Procs
          /\ prepared_' \subseteq Procs /\ finalized_' \subseteq Procs
          /\ faulted' \subseteq Procs /\ alone' \subseteq Procs
      BY <1>12 DEF UnixInv, UnixTypeOK, VerifySocketNode
    <3>3. \E to \in Later : pc' = [pc EXCEPT ![p] = to]
      BY <1>12 DEF Later, VerifySocketNode
    <3>4. env' = env /\ dirs' = dirs /\ level' = level
      BY Zenon, <1>12 DEF VerifySocketNode
    <3>5. QED
      BY Zenon, <1>0, <3>1, <3>2, <3>3, <3>4, PastDirectories DEF UnixInv
  <2>2. Flags' /\ Owned'
    BY SMTT(30), <1>0, <1>12 DEF UnixInv, UnixTypeOK, Flags, Owned, VerifySocketNode
  <2>3. Undisturbed'
    BY SMTT(30), <1>0, <1>12 DEF UnixInv, UnixTypeOK, Flags, Undisturbed, Meddling, VerifySocketNode
  <2>4. QED
    BY <2>1, <2>2, <2>3 DEF UnixInv
<1>13. CASE CloseListener(p)
  <2>1. UnixTypeOK' /\ OnTheWay'
    <3>1. chmodded' \in BOOLEAN
      BY Zenon, <1>13 DEF UnixInv, UnixTypeOK, CloseListener, RemoveNode
    <3>2. /\ node' \in Procs \cup {NoNode, OtherFile} /\ listening' \subseteq Procs
          /\ prepared_' \subseteq Procs /\ finalized_' \subseteq Procs
          /\ faulted' \subseteq Procs /\ alone' \subseteq Procs
      BY <1>13 DEF UnixInv, UnixTypeOK, CloseListener, RemoveNode
    <3>3. \E to \in Later : pc' = [pc EXCEPT ![p] = to]
      BY Zenon, <1>13 DEF Later, CloseListener, RemoveNode
    <3>4. env' = env /\ dirs' = dirs /\ level' = level
      BY ZenonT(30), <1>13 DEF CloseListener, RemoveNode
    <3>5. QED
      BY Zenon, <1>0, <3>1, <3>2, <3>3, <3>4, PastDirectories DEF UnixInv
  <2>2. Flags' /\ Owned'
    BY SMTT(30), <1>0, <1>13 DEF UnixInv, UnixTypeOK, Flags, Owned, CloseListener, RemoveNode
  <2>3. Undisturbed'
    BY SMTT(30), <1>0, <1>13 DEF UnixInv, UnixTypeOK, Flags, Undisturbed, Meddling, CloseListener, RemoveNode
  <2>4. QED
    BY <2>1, <2>2, <2>3 DEF UnixInv
<1>14. CASE CleanupStat(p)
  <2>1. UnixTypeOK' /\ OnTheWay'
    <3>1. chmodded' \in BOOLEAN
      BY Zenon, <1>14 DEF UnixInv, UnixTypeOK, CleanupStat, EndScope
    <3>2. /\ node' \in Procs \cup {NoNode, OtherFile} /\ listening' \subseteq Procs
          /\ prepared_' \subseteq Procs /\ finalized_' \subseteq Procs
          /\ faulted' \subseteq Procs /\ alone' \subseteq Procs
      BY <1>14 DEF UnixInv, UnixTypeOK, CleanupStat, EndScope
    <3>3. \E to \in Later : pc' = [pc EXCEPT ![p] = to]
      BY <1>14 DEF Later, CleanupStat, EndScope
    <3>4. env' = env /\ dirs' = dirs /\ level' = level
      BY Zenon, <1>14 DEF CleanupStat, EndScope
    <3>5. QED
      BY Zenon, <1>0, <3>1, <3>2, <3>3, <3>4, PastDirectories DEF UnixInv
  <2>2. Flags' /\ Owned'
    BY SMTT(30), <1>0, <1>14 DEF UnixInv, UnixTypeOK, Flags, Owned, CleanupStat, EndScope
  <2>3. Undisturbed'
    BY SMTT(30), <1>0, <1>14 DEF UnixInv, UnixTypeOK, Flags, Undisturbed, Meddling, CleanupStat, EndScope
  <2>4. QED
    BY <2>1, <2>2, <2>3 DEF UnixInv
<1>15. CASE CleanupUnlink(p)
  <2>1. UnixTypeOK' /\ OnTheWay'
    <3>1. chmodded' \in BOOLEAN
      BY Zenon, <1>15 DEF UnixInv, UnixTypeOK, CleanupUnlink, EndScope, RemoveNode
    <3>2. /\ node' \in Procs \cup {NoNode, OtherFile} /\ listening' \subseteq Procs
          /\ prepared_' \subseteq Procs /\ finalized_' \subseteq Procs
          /\ faulted' \subseteq Procs /\ alone' \subseteq Procs
      BY SMTT(30), <1>15 DEF UnixInv, UnixTypeOK, CleanupUnlink, EndScope, RemoveNode
    <3>3. \E to \in Later : pc' = [pc EXCEPT ![p] = to]
      BY Zenon, <1>15 DEF Later, CleanupUnlink, EndScope, RemoveNode
    <3>4. env' = env /\ dirs' = dirs /\ level' = level
      BY ZenonT(30), <1>15 DEF CleanupUnlink, EndScope, RemoveNode
    <3>5. QED
      BY Zenon, <1>0, <3>1, <3>2, <3>3, <3>4, PastDirectories DEF UnixInv
  <2>2. Flags' /\ Owned'
    BY SMTT(30), <1>0, <1>15 DEF UnixInv, UnixTypeOK, Flags, Owned, CleanupUnlink, EndScope, RemoveNode
  <2>3. Undisturbed'
    BY SMTT(30), <1>0, <1>15 DEF UnixInv, UnixTypeOK, Flags, Undisturbed, Meddling, CleanupUnlink, EndScope, RemoveNode
  <2>4. QED
    BY <2>1, <2>2, <2>3 DEF UnixInv
<1>16. CASE Signal(p)
  <2>1. UnixTypeOK' /\ OnTheWay'
    <3>1. chmodded' \in BOOLEAN
      BY Zenon, <1>16 DEF UnixInv, UnixTypeOK, Signal
    <3>2. /\ node' \in Procs \cup {NoNode, OtherFile} /\ listening' \subseteq Procs
          /\ prepared_' \subseteq Procs /\ finalized_' \subseteq Procs
          /\ faulted' \subseteq Procs /\ alone' \subseteq Procs
      BY <1>16 DEF UnixInv, UnixTypeOK, Signal
    <3>3. \E to \in Later : pc' = [pc EXCEPT ![p] = to]
      BY SMTT(30), <1>16 DEF Later, Signal
    <3>4. env' = env /\ dirs' = dirs /\ level' = level
      BY Zenon, <1>16 DEF Signal
    <3>5. QED
      BY Zenon, <1>0, <3>1, <3>2, <3>3, <3>4, PastDirectories DEF UnixInv
  <2>2. Flags' /\ Owned'
    BY SMTT(30), <1>0, <1>16 DEF UnixInv, UnixTypeOK, Flags, Owned, Signal
  <2>3. Undisturbed'
    BY SMTT(30), <1>0, <1>16 DEF UnixInv, UnixTypeOK, Flags, Undisturbed, Meddling, Signal
  <2>4. QED
    BY <2>1, <2>2, <2>3 DEF UnixInv
<1>17. CASE Crash(p)
  <2>1. UnixTypeOK' /\ OnTheWay'
    <3>1. chmodded' \in BOOLEAN
      BY Zenon, <1>17 DEF UnixInv, UnixTypeOK, Crash, Fault
    <3>2. /\ node' \in Procs \cup {NoNode, OtherFile} /\ listening' \subseteq Procs
          /\ prepared_' \subseteq Procs /\ finalized_' \subseteq Procs
          /\ faulted' \subseteq Procs /\ alone' \subseteq Procs
      BY SMTT(30), <1>17 DEF UnixInv, UnixTypeOK, Crash, Fault
    <3>3. \E to \in Later : pc' = [pc EXCEPT ![p] = to]
      BY SMTT(30), <1>17 DEF Later, Crash, Fault
    <3>4. env' = env /\ dirs' = dirs /\ level' = level
      BY Zenon, <1>17 DEF Crash, Fault
    <3>5. QED
      BY Zenon, <1>0, <3>1, <3>2, <3>3, <3>4, PastDirectories DEF UnixInv
  <2>2. Flags' /\ Owned'
    BY SMTT(30), <1>0, <1>17 DEF UnixInv, UnixTypeOK, Flags, Owned, Crash, Fault
  <2>3. Undisturbed'
    BY SMTT(30), <1>0, <1>17 DEF UnixInv, UnixTypeOK, Flags, Undisturbed, Meddling, Crash, Fault
  <2>4. QED
    BY <2>1, <2>2, <2>3 DEF UnixInv
<1>18. CASE BuildFails(p)
  <2>1. UnixTypeOK' /\ OnTheWay'
    <3>1. chmodded' \in BOOLEAN
      BY Zenon, <1>18 DEF UnixInv, UnixTypeOK, BuildFails, Fault
    <3>2. /\ node' \in Procs \cup {NoNode, OtherFile} /\ listening' \subseteq Procs
          /\ prepared_' \subseteq Procs /\ finalized_' \subseteq Procs
          /\ faulted' \subseteq Procs /\ alone' \subseteq Procs
      BY SMTT(30), <1>18 DEF UnixInv, UnixTypeOK, BuildFails, Fault
    <3>3. \E to \in Later : pc' = [pc EXCEPT ![p] = to]
      BY <1>18 DEF Later, BuildFails, Fault
    <3>4. env' = env /\ dirs' = dirs /\ level' = level
      BY Zenon, <1>18 DEF BuildFails, Fault
    <3>5. QED
      BY Zenon, <1>0, <3>1, <3>2, <3>3, <3>4, PastDirectories DEF UnixInv
  <2>2. Flags' /\ Owned'
    BY SMTT(30), <1>0, <1>18 DEF UnixInv, UnixTypeOK, Flags, Owned, BuildFails, Fault
  <2>3. Undisturbed'
    BY SMTT(30), <1>0, <1>18 DEF UnixInv, UnixTypeOK, Flags, Undisturbed, Meddling, BuildFails, Fault
  <2>4. QED
    BY <2>1, <2>2, <2>3 DEF UnixInv
<1>19. QED
  BY SMTT(30), <1>1, <1>2, <1>3, <1>4, <1>5, <1>6, <1>7, <1>8, <1>9, <1>10, <1>11, <1>12,
     <1>13, <1>14, <1>15, <1>16, <1>17, <1>18 DEF ProcStep

\* Theorem: the invariant holds in every behaviour of the processes.
THEOREM UnixCorrect == UnixSpec => []UnixInv
<1>1. UnixInit => UnixInv
  <2> SUFFICES ASSUME UnixInit PROVE UnixInv
    OBVIOUS
  <2>1. chmodded \in BOOLEAN
    BY Zenon DEF UnixInit
  <2>2. UnixTypeOK
    BY SMTT(30), <2>1, UnixAssumption DEF UnixInit, UnixTypeOK
  <2>3. OnTheWay
    <3>1. ASSUME config # {}, Setting.listen.mode = "Unix"
          PROVE  Depth \in 0..Levels
      <4>1. Setting \in LoadConfigFromEnv(Envs[env]) /\ env \in DOMAIN Envs
        BY <3>1 DEF UnixInit, Setting
      <4>2. QED
        BY SMTT(30), <3>1, <4>1, UnixAssumption DEF Depth
    <3>2. QED
      BY SMTT(30), <3>1, UnixAssumption DEF UnixInit, OnTheWay
  <2>4. Flags /\ Owned /\ Undisturbed
    BY UnixAssumption DEF UnixInit, Flags, Owned, Undisturbed
  <2>5. QED
    BY <2>2, <2>3, <2>4 DEF UnixInv
<1>2. UnixInv /\ [UnixNext]_unixVars => UnixInv'
  <2> SUFFICES ASSUME UnixInv, [UnixNext]_unixVars PROVE UnixInv'
    OBVIOUS
  <2>1. CASE UnixNext
    BY <2>1, ProcessStep DEF UnixNext
  <2>2. CASE UNCHANGED unixVars
    <3>1. /\ env' = env /\ config' = config /\ dirs' = dirs /\ node' = node
          /\ chmodded' = chmodded /\ listening' = listening /\ pc' = pc /\ level' = level
          /\ prepared_' = prepared_ /\ finalized_' = finalized_
          /\ faulted' = faulted /\ alone' = alone
      BY Zenon, <2>2 DEF unixVars, given, fsVars, listenVars, history
    <3>2. Setting' = Setting /\ Depth' = Depth
      BY Zenon, <3>1 DEF Setting, Depth
    <3>3. UnixTypeOK' /\ OnTheWay'
      BY Zenon, <3>1, <3>2 DEF UnixInv, UnixTypeOK, OnTheWay
    <3>4. Flags' /\ Owned'
      BY Zenon, <3>1, <3>2 DEF UnixInv, Flags, Owned
    <3>5. Undisturbed'
      BY Zenon, <3>1, <3>2 DEF UnixInv, Undisturbed
    <3>6. QED
      BY Zenon, <3>3, <3>4, <3>5 DEF UnixInv
  <2>3. QED
    BY <2>1, <2>2
<1>3. QED
  BY <1>1, <1>2, PTL DEF UnixSpec

\* Theorem: every variable keeps its type; EnsureDirectory never leaves the
\* directories above the path.
THEOREM UnixTypes == UnixSpec => []UnixTypeOK
<1>1. UnixInv => UnixTypeOK
  BY SMTT(30) DEF UnixInv
<1>2. QED
  BY <1>1, UnixCorrect, PTL

\* Theorem: for any number of processes and crashes, the path of a process that
\* listened undisturbed stays its own as long as it serves.
THEOREM PathKept == UnixSpec => []UndisturbedServes
<1>1. UnixInv => UndisturbedServes
  BY SMTT(30) DEF UnixInv, Undisturbed, UndisturbedServes
<1>2. QED
  BY <1>1, UnixCorrect, PTL

\* Theorem: for any number of processes and crashes, no process that ends leaves
\* its socket.
THEOREM NoFileLeft == UnixSpec => []ExitLeavesNoFile
<1>1. UnixInv => ExitLeavesNoFile
  BY DEF UnixInv, Owned, ExitLeavesNoFile
<1>2. QED
  BY <1>1, UnixCorrect, PTL
=============================================================================
