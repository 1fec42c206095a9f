---------------------------- MODULE DaemonProofs ----------------------------
(***************************************************************************)
(* Proofs about the daemon's machines of MCSystem, for every value of      *)
(* their constants: the background starts of one project (DaemonStartup)   *)
(* and the control mailbox with its loop (DaemonControl).                  *)
(***************************************************************************)
EXTENDS MCSystem, FiniteSetTheorems, WellFoundedInduction, TLAPS
-----------------------------------------------------------------------------
(* DaemonStartup.                                                            *)

Shown == {"publish", "last_check", "ready", "running", "unwind"}
Claimed == {"prepare", "state", "pid", "remove_pid"} \cup Shown
Holding == {"claim", "release"} \cup Claimed
ChildAt == {"none", "acquire", "report_failure", "exiting", "exited"} \cup Holding
Clearing == {"clear_state", "clear_pid", "give_up", "give_back"}
Ending == {"finish", "judge", "reclaim", "recheck", "clean", "failed_clean", "dirty"} \cup Clearing
LaunchAt == {"start", "poll", "pending", "validate", "projections", "probe", "alive", "abort", "grace", "ok",
             "dead"} \cup Ending
Stopping == {"state", "pid", "release"}
FrameFiles == [claimed : Nat \cup {None}, ready : Nat \cup {None}, failed : BOOLEAN, abort : BOOLEAN,
               report : BOOLEAN]
Leases == [proc : Startup!Procs, gen : Nat, state : {"active", "released"}]
Identities == [proc : Startup!Procs, gen : Nat]
States == [proc : Startup!Procs, status : {"running", "stopped"}]
Notes == [claimed : Nat \cup {None}, lease : Leases \cup {None}]

LeaseTyped ==
  /\ suLease \in Leases \cup {None} /\ suLock \in Startup!Procs \cup {None}
  /\ expired \in BOOLEAN /\ genFile \in Nat
FilesTyped == suPidFile \in Identities \cup {None} /\ stateFile \in States \cup {None}
StartsTyped ==
  /\ frames \in [Launchers -> FrameFiles] /\ suGen \in [Launchers -> Nat]
  /\ child \in [Launchers -> ChildAt] /\ launch \in [Launchers -> LaunchAt]
  /\ seen \in [Startup!Procs -> Notes] /\ stop \in {"off", "acquire", "done"} \cup Stopping
  /\ suFailures \in 0..SuMaxFailures /\ suCrashes \in 0..SuMaxCrashes

\* Who acts on the project's files has the lock, and a dead child does not.
OneHolder ==
  /\ \A l \in Launchers : /\ child[l] \in Holding => suLock = Startup!Child(l)
                          /\ suLock = Startup!Child(l) => child[l] \in Holding
                          /\ launch[l] \in Clearing => suLock = Startup!Launcher(l)
  /\ stop \in Stopping => suLock = Startup!Operator

\* The record names the holder of the lock.
HolderLeased ==
  suLock # None =>
    /\ suLease # None /\ suLease.proc = suLock /\ suLease.state = "active"
    /\ \A l \in Launchers : suLock = Startup!Child(l) => suLease.gen = suGen[l]

\* From its first projection to its unwinding the files are the child's.
ProjectionsOwn ==
  \A l \in Launchers :
    /\ child[l] \in Shown \cup {"pid"} => stateFile = [proc |-> Startup!Child(l), status |-> "running"]
    /\ child[l] \in Shown => suPidFile = [proc |-> Startup!Child(l), gen |-> suGen[l]]

\* Without a claimed frame the child has written no projection.
ClaimFirst ==
  \A l \in Launchers : frames[l].claimed = None =>
    /\ child[l] \notin Claimed
    /\ suPidFile # None => suPidFile.proc # Startup!Child(l)
    /\ stateFile # None => stateFile.proc # Startup!Child(l)

\* The launcher judges a start whose child is dead.
ChildReaped ==
  \A l \in Launchers :
    /\ launch[l] = "start" => child[l] = "none"
    /\ launch[l] \in Ending => child[l] = "exited"
    /\ launch[l] = "judge" => seen[Startup!Launcher(l)].claimed = frames[l].claimed

NothingOf(l) ==
  /\ ~(suLease # None /\ suLease.state = "active" /\ suLease.proc = Startup!Child(l))
  /\ suPidFile # None => suPidFile.proc # Startup!Child(l)
  /\ stateFile # None /\ stateFile.status = "running" => stateFile.proc # Startup!Child(l)
NothingLeft == \A l \in Launchers : launch[l] \in {"clean", "failed_clean"} => NothingOf(l)

StartInv ==
  /\ LeaseTyped /\ FilesTyped /\ StartsTyped
  /\ OneHolder /\ HolderLeased /\ ProjectionsOwn /\ ClaimFirst /\ ChildReaped /\ NothingLeft

LEMMA ProcsDiffer ==
  /\ \A l \in Launchers : /\ Startup!Child(l) \in Startup!Procs /\ Startup!Launcher(l) \in Startup!Procs
                          /\ Startup!Child(l) # None /\ Startup!Launcher(l) # None
                          /\ Startup!Child(l) # Startup!Operator /\ Startup!Launcher(l) # Startup!Operator
  /\ \A l, k \in Launchers : /\ Startup!Child(l) # Startup!Launcher(k)
                             /\ Startup!Child(l) = Startup!Child(k) => l = k
                             /\ Startup!Launcher(l) = Startup!Launcher(k) => l = k
  /\ Startup!Operator \in Startup!Procs /\ Startup!Operator # None
BY StartupAssumption DEF Startup!Child, Startup!Launcher, Startup!Operator, Startup!Procs

LEMMA ProcsReal == \A p_ \in Startup!Procs : p_ # None
BY StartupAssumption DEF Startup!Procs, Startup!Child, Startup!Launcher, Startup!Operator

LEMMA RecordsReal == None \notin Leases /\ None \notin States
<1>1. ASSUME NEW r \in Leases, r = None PROVE FALSE
  <2>1. PICK p_ \in Startup!Procs, g \in Nat, s \in {"active", "released"} : r = [proc |-> p_, gen |-> g, state |-> s]
    BY <1>1 DEF Leases
  <2>2. PICK who \in {"child", "launcher", "operator"}, l \in Launchers \cup {None} : p_ = <<who, l>>
    BY DEF Startup!Procs, Startup!Child, Startup!Launcher, Startup!Operator
  <2>3. r \in [proc : {<<who, l>>}, gen : Nat, state : {"active", "released"}]
    BY <2>1, <2>2
  <2> QED BY <1>1, <2>3, StartupAssumption
<1>2. ASSUME NEW r \in States, r = None PROVE FALSE
  <2>1. PICK p_ \in Startup!Procs, s \in {"running", "stopped"} : r = [proc |-> p_, status |-> s]
    BY <1>2 DEF States
  <2>2. PICK who \in {"child", "launcher", "operator"}, l \in Launchers \cup {None} : p_ = <<who, l>>
    BY DEF Startup!Procs, Startup!Child, Startup!Launcher, Startup!Operator
  <2>3. r \in [proc : {<<who, l>>}, status : {"running", "stopped"}]
    BY <2>1, <2>2
  <2> QED BY <1>2, <2>3, StartupAssumption
<1> QED BY <1>1, <1>2

LEMMA NextNat == \A n \in Nat : n + 1 \in Nat
OBVIOUS

LEMMA StartStarts == Startup!Init => StartInv
<1> SUFFICES ASSUME Startup!Init PROVE StartInv
  OBVIOUS
<1>1. LeaseTyped /\ FilesTyped
  BY DEF Startup!Init, LeaseTyped, FilesTyped
<1>2. StartsTyped
  <2>1. Startup!NoFrames \in FrameFiles /\ Startup!NothingSeen \in Notes
    BY DEF Startup!NoFrames, FrameFiles, Startup!NothingSeen, Notes
  <2> QED BY <2>1, StartupAssumption DEF Startup!Init, StartsTyped, ChildAt, LaunchAt
<1>3. OneHolder /\ HolderLeased /\ ProjectionsOwn
  BY ProcsDiffer
     DEF Startup!Init, OneHolder, HolderLeased, ProjectionsOwn, Holding, Claimed, Shown, Clearing, Stopping
<1>4. ClaimFirst /\ ChildReaped /\ NothingLeft
  BY DEF Startup!Init, ClaimFirst, ChildReaped, NothingLeft, Claimed, Shown, Ending, Clearing
<1> QED BY <1>1, <1>2, <1>3, <1>4 DEF StartInv

-----------------------------------------------------------------------------
(* Steps that leave the lease and the projections alone.                     *)

\* The child keeps the lock if it had it, and shows nothing that it did not show.
Harmless(from, to) ==
  /\ to \in ChildAt /\ from \notin {"none", "exited"} /\ to # "pid"
  /\ (to \in Holding <=> from \in Holding) /\ (to \in Shown => from \in Shown)

LEMMA HarmlessMoves ==
  /\ Harmless("acquire", "report_failure") /\ Harmless("claim", "prepare") /\ Harmless("claim", "release")
  /\ Harmless("prepare", "state") /\ Harmless("prepare", "release")
  /\ Harmless("publish", "last_check") /\ Harmless("publish", "unwind")
  /\ Harmless("last_check", "ready") /\ Harmless("last_check", "unwind")
  /\ Harmless("ready", "running") /\ Harmless("ready", "unwind") /\ Harmless("running", "unwind")
  /\ Harmless("report_failure", "exiting") /\ Harmless("exiting", "exited")
BY DEF Harmless, ChildAt, Holding, Claimed, Shown

LEMMA ChildMoves ==
  ASSUME StartInv, NEW l \in Launchers, NEW w,
         child' = [child EXCEPT ![l] = w], Harmless(child[l], w),
         UNCHANGED <<suLease, suLock, expired, genFile, suPidFile, stateFile, launch, seen, stop, suGen>>,
         frames' \in [Launchers -> FrameFiles], \A k \in Launchers \ {l} : frames'[k] = frames[k],
         frames[l].claimed # None => frames'[l].claimed # None,
         w \in Claimed => frames'[l].claimed # None,
         suFailures' \in 0..SuMaxFailures, suCrashes' \in 0..SuMaxCrashes
  PROVE  StartInv'
<1> USE DEF StartInv, Harmless
<1>c. child'[l] = w /\ \A k \in Launchers \ {l} : child'[k] = child[k]
  BY DEF StartsTyped
<1>e. launch[l] \notin Ending /\ launch[l] # "start"
  BY DEF ChildReaped
<1>1. LeaseTyped' /\ FilesTyped'
  BY DEF LeaseTyped, FilesTyped
<1>2. StartsTyped'
  BY DEF StartsTyped
<1>3. OneHolder'
  BY <1>c DEF OneHolder
<1>4. HolderLeased'
  BY DEF HolderLeased
<1>5. ProjectionsOwn'
  BY <1>c DEF ProjectionsOwn
<1>6. ClaimFirst'
  BY <1>c DEF ClaimFirst
<1>7. ChildReaped'
  BY <1>c, <1>e DEF ChildReaped, Ending
<1>8. NothingLeft'
  BY DEF NothingLeft, NothingOf
<1> QED BY <1>1, <1>2, <1>3, <1>4, <1>5, <1>6, <1>7, <1>8

LEMMA LaunchMoves ==
  ASSUME StartInv, NEW l \in Launchers, NEW w \in LaunchAt \ ({"start"} \cup Clearing),
         launch' = [launch EXCEPT ![l] = w],
         UNCHANGED <<suLease, suLock, expired, genFile, suPidFile, stateFile, child, stop, suGen, suFailures, suCrashes>>,
         frames' \in [Launchers -> FrameFiles], \A k \in Launchers : frames'[k].claimed = frames[k].claimed,
         seen' \in [Startup!Procs -> Notes],
         \A k \in Launchers \ {l} : seen'[Startup!Launcher(k)] = seen[Startup!Launcher(k)],
         w \in Ending => child[l] = "exited",
         w = "judge" => seen'[Startup!Launcher(l)].claimed = frames[l].claimed,
         w \in {"clean", "failed_clean"} => NothingOf(l)
  PROVE  StartInv'
<1> USE DEF StartInv, NothingOf
<1>c. launch'[l] = w /\ \A k \in Launchers \ {l} : launch'[k] = launch[k]
  BY DEF StartsTyped
<1>1. LeaseTyped' /\ FilesTyped'
  BY DEF LeaseTyped, FilesTyped
<1>2. StartsTyped'
  BY DEF StartsTyped
<1>3. OneHolder'
  BY <1>c DEF OneHolder
<1>4. HolderLeased' /\ ProjectionsOwn'
  BY DEF HolderLeased, ProjectionsOwn
<1>6. ClaimFirst'
  BY DEF ClaimFirst
<1>7. ChildReaped'
  BY <1>c DEF ChildReaped
<1>8. NothingLeft'
  BY <1>c DEF NothingLeft, NothingOf
<1> QED BY <1>1, <1>2, <1>3, <1>4, <1>6, <1>7, <1>8

LEMMA QuietChild ==
  ASSUME NEW l \in Launchers, StartInv
  PROVE  (\/ Startup!Claim(l) \/ Startup!Prepare(l) \/ Startup!PublishReport(l)
          \/ Startup!LastCheck(l) \/ Startup!PublishReady(l) \/ Startup!ReportFailure(l)
          \/ Startup!Exit(l) \/ Startup!EndServing(l))
         => StartInv'
<1>0. SUFFICES ASSUME \/ Startup!Claim(l) \/ Startup!Prepare(l) \/ Startup!PublishReport(l)
                      \/ Startup!LastCheck(l) \/ Startup!PublishReady(l) \/ Startup!ReportFailure(l)
                      \/ Startup!Exit(l) \/ Startup!EndServing(l)
               PROVE  StartInv'
  BY Zenon
<1>t. /\ frames \in [Launchers -> FrameFiles] /\ child \in [Launchers -> ChildAt] /\ suGen[l] \in Nat
      /\ suFailures \in 0..SuMaxFailures /\ suCrashes \in 0..SuMaxCrashes /\ frames[l] \in FrameFiles
      /\ suGen[l] # None
  BY StartupAssumption DEF StartInv, StartsTyped
<1>k. child[l] \in Claimed => frames[l].claimed # None
  BY DEF StartInv, ClaimFirst
<1>n. SuMaxFailures \in Nat
  BY StartupAssumption
<1>b. Startup!Breaks => suFailures' \in 0..SuMaxFailures /\ suCrashes' = suCrashes
  BY <1>n, <1>t DEF Startup!Breaks
<1>m. ASSUME NEW w, child' = [child EXCEPT ![l] = w], NEW f \in FrameFiles, Harmless(child[l], w),
             frames' = [frames EXCEPT ![l] = f], frames[l].claimed # None => f.claimed # None,
             UNCHANGED <<suLease, suLock, expired, genFile, suPidFile, stateFile, launch, seen, stop, suGen>>,
             suFailures' \in 0..SuMaxFailures, suCrashes' = suCrashes, w \in Claimed => f.claimed # None
      PROVE  StartInv'
  <2>1. frames' \in [Launchers -> FrameFiles] /\ frames'[l] = f /\ \A k \in Launchers \ {l} : frames'[k] = frames[k]
    BY <1>m, <1>t
  <2> QED BY <1>m, <1>t, <2>1, ChildMoves
<1>f. frames = [frames EXCEPT ![l] = frames[l]]
  BY <1>t
<1>1. CASE Startup!Claim(l)
  <2> DEFINE f == [frames[l] EXCEPT !.claimed = suGen[l]]
  <2>f. f \in FrameFiles /\ f.claimed # None
    BY <1>t DEF FrameFiles
  <2>1. /\ child[l] = "claim"
        /\ UNCHANGED <<suLease, suLock, expired, genFile, suPidFile, stateFile, launch, seen, stop, suGen>>
    BY <1>1 DEF Startup!Claim, Startup!project, Startup!KeepOthers
  <2>2. CASE frames' = [frames EXCEPT ![l].claimed = suGen[l]] /\ Startup!GoChild(l, "prepare") /\ UNCHANGED Startup!bounded
    <3>1. frames' = [frames EXCEPT ![l] = f] /\ child' = [child EXCEPT ![l] = "prepare"]
          /\ UNCHANGED <<suFailures, suCrashes>>
      BY <1>t, <2>2 DEF Startup!GoChild, Startup!bounded
    <3> HIDE DEF f
    <3> QED BY <1>m, <1>t, <2>1, <2>f, <3>1, HarmlessMoves
  <2>3. CASE Startup!Breaks /\ Startup!GoChild(l, "release") /\ UNCHANGED frames
    <3>1. "release" \notin Claimed
      BY DEF Claimed, Shown
    <3>2. frames' = [frames EXCEPT ![l] = frames[l]] /\ child' = [child EXCEPT ![l] = "release"]
      BY <1>f, <2>3 DEF Startup!GoChild
    <3> QED BY <1>b, <1>m, <1>t, <2>1, <2>3, <3>1, <3>2, HarmlessMoves, ZenonT(60)
  <2> QED BY <1>1, <2>2, <2>3 DEF Startup!Claim
<1>2. CASE Startup!Prepare(l) \/ Startup!LastCheck(l) \/ Startup!Exit(l) \/ Startup!EndServing(l)
  <2>1. /\ UNCHANGED <<suLease, suLock, expired, genFile, suPidFile, stateFile, launch, seen, stop, suGen, frames>>
        /\ suFailures' \in 0..SuMaxFailures /\ suCrashes' = suCrashes
    BY <1>2, <1>b, <1>t
       DEF Startup!Prepare, Startup!LastCheck, Startup!Exit, Startup!EndServing, Startup!project, Startup!bounded,
           Startup!KeepOthers
  <2>2. PICK w : /\ child' = [child EXCEPT ![l] = w]
                 /\ \/ child[l] = "prepare" /\ w \in {"state", "release"}
                    \/ child[l] = "last_check" /\ w \in {"unwind", "ready"}
                    \/ child[l] = "exiting" /\ w = "exited"
                    \/ child[l] = "running" /\ w = "unwind"
    BY <1>2 DEF Startup!Prepare, Startup!LastCheck, Startup!Exit, Startup!EndServing, Startup!GoChild
  <2>3. Harmless(child[l], w)
    BY <2>2, HarmlessMoves
  <2>4. w \in Claimed => child[l] \in Claimed
    BY <2>2 DEF Claimed, Shown
  <2>5. frames' = [frames EXCEPT ![l] = frames[l]]
    BY <1>f, <2>1
  <2> QED BY <1>k, <1>m, <1>t, <2>1, <2>2, <2>3, <2>4, <2>5
<1>3. CASE Startup!PublishReport(l) \/ Startup!PublishReady(l)
  <2>1. /\ UNCHANGED <<suLease, suLock, expired, genFile, suPidFile, stateFile, launch, seen, stop, suGen>>
        /\ suFailures' \in 0..SuMaxFailures /\ suCrashes' = suCrashes
    BY <1>3, <1>b, <1>t
       DEF Startup!PublishReport, Startup!PublishReady, Startup!project, Startup!bounded, Startup!KeepOthers
  <2>2. PICK w \in {"last_check", "running", "unwind"}, f \in FrameFiles :
           /\ child[l] \in {"publish", "ready"} /\ Harmless(child[l], w) /\ child' = [child EXCEPT ![l] = w]
           /\ frames' = [frames EXCEPT ![l] = f] /\ f.claimed = frames[l].claimed
    <3>1. [frames[l] EXCEPT !.report = TRUE] \in FrameFiles /\ [frames[l] EXCEPT !.ready = suGen[l]] \in FrameFiles
      BY <1>t DEF FrameFiles
    <3>2. /\ [frames[l] EXCEPT !.report = TRUE].claimed = frames[l].claimed
          /\ [frames[l] EXCEPT !.ready = suGen[l]].claimed = frames[l].claimed
      BY <1>t DEF FrameFiles
    <3>3. CASE Startup!PublishReport(l)
      <4>1. CASE frames' = [frames EXCEPT ![l].report = TRUE] /\ Startup!GoChild(l, "last_check")
        <5>1. frames' = [frames EXCEPT ![l] = [frames[l] EXCEPT !.report = TRUE]]
          BY <1>t, <4>1
        <5> QED BY <3>1, <3>2, <3>3, <4>1, <5>1, HarmlessMoves DEF Startup!PublishReport, Startup!GoChild
      <4>2. CASE Startup!GoChild(l, "unwind") /\ UNCHANGED frames
        BY <1>f, <1>t, <3>3, <4>2, HarmlessMoves DEF Startup!PublishReport, Startup!GoChild
      <4> QED BY <3>3, <4>1, <4>2 DEF Startup!PublishReport
    <3>4. CASE Startup!PublishReady(l)
      <4>1. CASE frames' = [frames EXCEPT ![l].ready = suGen[l]] /\ Startup!GoChild(l, "running")
        <5>1. frames' = [frames EXCEPT ![l] = [frames[l] EXCEPT !.ready = suGen[l]]]
          BY <1>t, <4>1
        <5> QED BY <3>1, <3>2, <3>4, <4>1, <5>1, HarmlessMoves DEF Startup!PublishReady, Startup!GoChild
      <4>2. CASE Startup!GoChild(l, "unwind") /\ UNCHANGED frames
        BY <1>f, <1>t, <3>4, <4>2, HarmlessMoves DEF Startup!PublishReady, Startup!GoChild
      <4> QED BY <3>4, <4>1, <4>2 DEF Startup!PublishReady
    <3> QED BY <1>3, <3>3, <3>4
  <2>3. frames[l].claimed # None
    BY <1>k, <2>2 DEF Claimed, Shown
  <2> QED BY <1>m, <2>1, <2>2, <2>3
<1>4. CASE Startup!ReportFailure(l)
  <2> DEFINE f == Startup!FailureFrame([frames[l] EXCEPT !.report = FALSE])
  <2>1. f \in FrameFiles /\ f.claimed = frames[l].claimed
    BY <1>t DEF Startup!FailureFrame, FrameFiles
  <2>2. /\ child[l] = "report_failure" /\ child' = [child EXCEPT ![l] = "exiting"]
        /\ frames' = [frames EXCEPT ![l] = f]
    BY <1>4 DEF Startup!ReportFailure, Startup!GoChild
  <2>3. UNCHANGED <<suLease, suLock, expired, genFile, suPidFile, stateFile, launch, seen, stop, suGen, suFailures, suCrashes>>
    BY <1>4 DEF Startup!ReportFailure, Startup!project, Startup!bounded, Startup!KeepOthers
  <2> HIDE DEF f
  <2>4. "exiting" \notin Claimed
    BY DEF Claimed, Shown
  <2> QED BY <1>m, <1>t, <2>1, <2>2, <2>3, <2>4, HarmlessMoves
<1> QED BY <1>0, <1>1, <1>2, <1>3, <1>4, Zenon


\* Steps of a launcher that looks and goes on.
LEMMA QuietLaunch ==
  ASSUME NEW l \in Launchers, StartInv
  PROVE  (\/ Startup!Poll(l) \/ Startup!Pending(l) \/ Startup!Deadline(l) \/ Startup!Validate(l)
          \/ Startup!ReadProjections(l) \/ Startup!ProbeLease(l) \/ Startup!CheckAlive(l)
          \/ Startup!Recheck(l))
         => StartInv'
<1>0. SUFFICES ASSUME \/ Startup!Poll(l) \/ Startup!Pending(l) \/ Startup!Deadline(l) \/ Startup!Validate(l)
                      \/ Startup!ReadProjections(l) \/ Startup!ProbeLease(l) \/ Startup!CheckAlive(l)
                      \/ Startup!Recheck(l)
               PROVE  StartInv'
  BY Zenon
<1> USE DEF NothingOf
<1>t. frames \in [Launchers -> FrameFiles] /\ seen \in [Startup!Procs -> Notes]
  BY DEF StartInv, StartsTyped
<1>1. /\ UNCHANGED <<suLease, suLock, expired, genFile, suPidFile, stateFile, child, stop, suGen, suFailures, suCrashes>>
      /\ UNCHANGED <<frames, seen>>
  BY <1>0 DEF Startup!Poll, Startup!Pending, Startup!Deadline, Startup!Validate, Startup!ReadProjections,
         Startup!ProbeLease, Startup!CheckAlive, Startup!Recheck, Startup!project, Startup!bounded, Startup!KeepChild
<1>2. CASE ~Startup!Recheck(l)
  <2>1. PICK w \in {"abort", "validate", "pending", "finish", "poll", "projections", "probe", "alive", "ok"} :
           launch' = [launch EXCEPT ![l] = w] /\ (w = "finish" => child[l] = "exited")
    BY <1>0, <1>2 DEF Startup!Poll, Startup!Pending, Startup!Deadline, Startup!Validate, Startup!ReadProjections,
         Startup!ProbeLease, Startup!CheckAlive, Startup!Recheck, Startup!GoLaunch, Startup!Exited
  <2>2. w \in LaunchAt \ ({"start"} \cup Clearing) /\ (w \in Ending => w = "finish") /\ w \notin {"judge", "clean", "failed_clean"}
    BY DEF LaunchAt, Ending, Clearing
  <2> QED BY <1>1, <1>t, <2>1, <2>2, LaunchMoves
<1>3. CASE Startup!Recheck(l)
  <2>1. PICK w \in {"clean", "dirty"} :
           launch' = [launch EXCEPT ![l] = w] /\ (w = "clean" => Startup!CleanupComplete)
    BY <1>3 DEF Startup!Recheck, Startup!GoLaunch
  <2>2. w \in LaunchAt \ ({"start"} \cup Clearing) /\ child[l] = "exited"
    BY <1>3 DEF LaunchAt, Ending, Clearing, StartInv, ChildReaped, Startup!Recheck
  <2>3. Startup!CleanupComplete => NothingOf(l)
    BY DEF Startup!CleanupComplete, NothingOf, Startup!Running
  <2> QED BY <1>1, <1>t, <2>1, <2>2, <2>3, LaunchMoves
<1> QED BY <1>0, <1>2, <1>3, Zenon

\* Steps of a launcher that writes or reads frames.
LEMMA FrameLaunch ==
  ASSUME NEW l \in Launchers, StartInv
  PROVE  (\/ Startup!RequestAbort(l) \/ Startup!Report(l) \/ Startup!Finish(l)
          \/ Startup!Judge(l))
         => StartInv'
<1>0. SUFFICES ASSUME \/ Startup!RequestAbort(l) \/ Startup!Report(l) \/ Startup!Finish(l)
                      \/ Startup!Judge(l)
               PROVE  StartInv'
  BY Zenon
<1> USE DEF NothingOf
<1>t. /\ frames \in [Launchers -> FrameFiles] /\ seen \in [Startup!Procs -> Notes] /\ frames[l] \in FrameFiles
      /\ suLease \in Leases \cup {None} /\ Startup!Launcher(l) \in Startup!Procs
      /\ \A k \in Launchers \ {l} : Startup!Launcher(k) \in Startup!Procs /\ Startup!Launcher(k) # Startup!Launcher(l)
  BY ProcsDiffer DEF StartInv, StartsTyped, LeaseTyped
<1>1. UNCHANGED <<suLease, suLock, expired, genFile, suPidFile, stateFile, child, stop, suGen, suFailures, suCrashes>>
  BY <1>0 DEF Startup!RequestAbort, Startup!Report, Startup!Finish, Startup!Judge, Startup!project, Startup!bounded,
         Startup!KeepChild
<1>2. CASE Startup!RequestAbort(l)
  <2>s. seen' = seen
    BY <1>2 DEF Startup!RequestAbort
  <2>1. CASE Startup!Exited(l) /\ Startup!GoLaunch(l, "finish") /\ UNCHANGED frames
    <3>1. "finish" \in LaunchAt \ ({"start"} \cup Clearing)
      BY DEF LaunchAt, Ending, Clearing
    <3> QED BY <1>1, <1>t, <2>1, <2>s, <3>1, LaunchMoves DEF Startup!Exited, Startup!GoLaunch
  <2>2. CASE Startup!GoLaunch(l, "grace") /\ frames' = [frames EXCEPT ![l].abort = TRUE]
    <3>1. "grace" \in LaunchAt \ ({"start"} \cup Clearing \cup Ending)
      BY DEF LaunchAt, Ending, Clearing
    <3> DEFINE f == [frames[l] EXCEPT !.abort = TRUE]
    <3>2. frames' = [frames EXCEPT ![l] = f]
      BY <1>t, <2>2
    <3>3. f \in FrameFiles /\ f.claimed = frames[l].claimed
      BY <1>t DEF FrameFiles
    <3> HIDE DEF f
    <3>4. frames' \in [Launchers -> FrameFiles] /\ \A k \in Launchers : frames'[k].claimed = frames[k].claimed
      BY <1>t, <3>2, <3>3
    <3> QED BY <1>1, <1>t, <2>2, <2>s, <3>1, <3>4, LaunchMoves DEF Startup!GoLaunch
  <2> QED BY <1>2, <2>1, <2>2 DEF Startup!RequestAbort
<1>3. CASE Startup!Report(l)
  <2> DEFINE f == Startup!FailureFrame(frames[l])
  <2>1. f \in FrameFiles /\ f.claimed = frames[l].claimed
    BY <1>t DEF FrameFiles, Startup!FailureFrame
  <2>2. frames' = [frames EXCEPT ![l] = f] /\ launch[l] = "clean" /\ launch' = [launch EXCEPT ![l] = "failed_clean"]
        /\ seen' = seen
    BY <1>3 DEF Startup!Report, Startup!GoLaunch
  <2> HIDE DEF f
  <2>3. frames' \in [Launchers -> FrameFiles] /\ \A k \in Launchers : frames'[k].claimed = frames[k].claimed
    BY <1>t, <2>1, <2>2
  <2>4. "failed_clean" \in LaunchAt \ ({"start"} \cup Clearing) /\ "clean" \in Ending
    BY DEF LaunchAt, Ending, Clearing
  <2>5. NothingOf(l) /\ child[l] = "exited"
    BY <2>2, <2>4 DEF StartInv, NothingLeft, ChildReaped
  <2> QED BY <1>1, <1>t, <2>2, <2>3, <2>4, <2>5, LaunchMoves
<1>4. CASE Startup!Finish(l)
  <2> DEFINE n == [Startup!NothingSeen EXCEPT !.claimed = frames[l].claimed]
  <2>1. n \in Notes /\ n.claimed = frames[l].claimed
    BY <1>t DEF Notes, FrameFiles, Startup!NothingSeen
  <2>2. launch[l] = "finish" /\ seen' = [seen EXCEPT ![Startup!Launcher(l)] = n] /\ frames' = frames
    BY <1>4 DEF Startup!Finish
  <2>3. PICK w \in {"judge", "clean", "dirty"} :
           launch' = [launch EXCEPT ![l] = w] /\ (w = "clean" => Startup!CleanupComplete)
    BY <1>4 DEF Startup!Finish, Startup!GoLaunch
  <2> HIDE DEF n
  <2>4. /\ seen' \in [Startup!Procs -> Notes] /\ seen'[Startup!Launcher(l)] = n
        /\ \A k \in Launchers \ {l} : seen'[Startup!Launcher(k)] = seen[Startup!Launcher(k)]
    BY <1>t, <2>1, <2>2
  <2>5. w \in LaunchAt \ ({"start"} \cup Clearing) /\ child[l] = "exited"
    BY <2>2 DEF LaunchAt, Ending, Clearing, StartInv, ChildReaped
  <2>6. Startup!CleanupComplete => NothingOf(l)
    BY DEF Startup!CleanupComplete, NothingOf, Startup!Running
  <2> QED BY <1>1, <1>t, <2>1, <2>2, <2>3, <2>4, <2>5, <2>6, LaunchMoves
<1>5. CASE Startup!Judge(l)
  <2> DEFINE n == [seen[Startup!Launcher(l)] EXCEPT !.lease = suLease]
             c == seen[Startup!Launcher(l)].claimed
  <2>1. n \in Notes
    BY <1>t DEF Notes
  <2>2. /\ launch[l] = "judge" /\ seen' = [seen EXCEPT ![Startup!Launcher(l)] = n] /\ frames' = frames
    BY <1>5, <1>t DEF Startup!Judge
  <2>c. c = frames[l].claimed /\ child[l] = "exited"
    BY <2>2 DEF StartInv, ChildReaped, Ending
  <2>3. PICK w \in {"clean", "dirty", "reclaim"} :
           /\ launch' = [launch EXCEPT ![l] = w]
           /\ w = "clean" => \/ c = None /\ suLease.proc # Startup!Child(l)
                             \/ suLease.state = "released" /\ suPidFile = None /\ ~Startup!Running
    BY <1>5 DEF Startup!Judge, Startup!GoLaunch, Startup!Reclaims
  <2>4. w = "clean" => NothingOf(l)
    BY <2>3, <2>c DEF NothingOf, Startup!Running, StartInv, ClaimFirst
  <2> HIDE DEF n, c
  <2>5. /\ seen' \in [Startup!Procs -> Notes]
        /\ \A k \in Launchers \ {l} : seen'[Startup!Launcher(k)] = seen[Startup!Launcher(k)]
    BY <1>t, <2>1, <2>2
  <2>6. w \in LaunchAt \ ({"start"} \cup Clearing) /\ w \notin {"judge", "failed_clean"}
    BY DEF LaunchAt, Ending, Clearing
  <2> QED BY <1>1, <1>t, <2>2, <2>3, <2>4, <2>5, <2>6, <2>c, LaunchMoves
<1> QED BY <1>0, <1>2, <1>3, <1>4, <1>5, Zenon

-----------------------------------------------------------------------------
(* Steps that take and give back the lease.                                  *)

LEMMA LeaseTaken ==
  ASSUME StartInv, NEW p_ \in Startup!Procs, suLock = None, Startup!TakeLease(p_),
         UNCHANGED <<suPidFile, stateFile, frames, seen, suFailures, suCrashes>>,
         child' \in [Launchers -> ChildAt], launch' \in [Launchers -> LaunchAt],
         suGen' \in [Launchers -> Nat], stop' \in {"off", "acquire", "done"} \cup Stopping,
         \A k \in Launchers : /\ child'[k] \in Holding => p_ = Startup!Child(k)
                              /\ p_ = Startup!Child(k) => /\ child'[k] \in Holding \ Claimed
                                                         /\ suGen'[k] = genFile + 1 /\ launch'[k] \notin Ending
                              /\ p_ # Startup!Child(k) => child'[k] = child[k] /\ suGen'[k] = suGen[k]
                              /\ launch'[k] \in Clearing => p_ = Startup!Launcher(k),
         stop' \in Stopping => p_ = Startup!Operator,
         \A k \in Launchers : /\ launch'[k] = "start" => launch[k] = "start" /\ p_ # Startup!Child(k)
                              /\ launch'[k] \in Ending => launch[k] \in Ending
                              /\ launch'[k] \in {"judge", "clean", "failed_clean"} => launch'[k] = launch[k]
  PROVE  StartInv'
<1> USE DEF StartInv, Startup!TakeLease, Startup!LeaseFor
<1>p. p_ # None
  BY ProcsReal
<1>t. /\ suLease' = [proc |-> p_, gen |-> genFile + 1, state |-> "active"] /\ suLock' = p_ /\ expired' = FALSE
      /\ genFile' = genFile + 1
  OBVIOUS
<1>g. genFile \in Nat
  BY DEF LeaseTyped
<1>h. genFile + 1 \in Nat
  BY <1>g, NextNat
<1>l. suLease' \in Leases
  BY <1>t, <1>h DEF Leases
<1>m. suLease' # None
  BY <1>l, RecordsReal
<1>n. \A k \in Launchers : child[k] \notin Holding
  BY ProcsDiffer DEF OneHolder
<1>s. Shown \cup {"pid"} \subseteq Claimed /\ Claimed \subseteq Holding /\ {"clean", "failed_clean"} \subseteq Ending
  BY DEF Claimed, Holding, Shown, Ending
<1>k. \A k \in Launchers : child'[k] \notin Claimed
  BY <1>n, <1>s
<1>1. LeaseTyped' /\ FilesTyped'
  BY <1>t, <1>l, <1>h DEF LeaseTyped, FilesTyped
<1>2. StartsTyped'
  BY DEF StartsTyped
<1>3. OneHolder'
  BY <1>t DEF OneHolder
<1>4. HolderLeased'
  BY <1>t, <1>m DEF HolderLeased
<1>5. ProjectionsOwn'
  BY <1>k, <1>s DEF ProjectionsOwn
<1>6. ClaimFirst'
  BY <1>k DEF ClaimFirst
<1>7. ChildReaped'
  BY DEF ChildReaped
<1>8. NothingLeft'
  BY <1>t, <1>s DEF NothingLeft, NothingOf
<1> QED BY <1>1, <1>2, <1>3, <1>4, <1>5, <1>6, <1>7, <1>8

LEMMA LeaseGiven ==
  ASSUME StartInv, NEW p_ \in Startup!Procs, suLock = p_, Startup!ReleaseLease(p_),
         UNCHANGED <<genFile, suPidFile, stateFile, frames, seen, suGen, suFailures, suCrashes>>,
         child' \in [Launchers -> ChildAt], launch' \in [Launchers -> LaunchAt],
         stop' \in {"off", "acquire", "done"},
         \A k \in Launchers : child'[k] \notin Holding /\ launch'[k] \notin Clearing,
         \A k \in Launchers : /\ launch'[k] = "start" => launch[k] = "start" /\ child'[k] = child[k]
                              /\ launch'[k] \in Ending => launch[k] \in Ending
                              /\ child[k] = "exited" => child'[k] = "exited"
                              /\ launch'[k] \in {"judge", "clean", "failed_clean"} => launch'[k] = launch[k]
  PROVE  StartInv'
<1> USE DEF StartInv, Startup!ReleaseLease
<1>p. p_ # None
  BY ProcsReal
<1>t. /\ suLock' = None /\ expired' = FALSE /\ suLease' = [suLease EXCEPT !.state = "released"] /\ suLease \in Leases
  BY <1>p DEF HolderLeased, LeaseTyped
<1>l. suLease' \in Leases /\ suLease'.state = "released" /\ suLease'.proc = suLease.proc
  BY <1>t DEF Leases
<1>s. Shown \cup {"pid"} \subseteq Holding /\ Claimed \subseteq Holding /\ {"clean", "failed_clean"} \subseteq Ending
  BY DEF Claimed, Holding, Shown, Ending
<1>1. LeaseTyped' /\ FilesTyped'
  BY <1>t, <1>l DEF LeaseTyped, FilesTyped
<1>2. StartsTyped'
  BY DEF StartsTyped
<1>3. OneHolder'
  BY <1>t, ProcsDiffer DEF OneHolder, Stopping
<1>4. HolderLeased'
  BY <1>t DEF HolderLeased
<1>5. ProjectionsOwn'
  BY <1>s DEF ProjectionsOwn
<1>6. ClaimFirst'
  BY <1>s DEF ClaimFirst
<1>7. ChildReaped'
  BY DEF ChildReaped
<1>8. NothingLeft'
  BY <1>l DEF NothingLeft, NothingOf
<1> QED BY <1>1, <1>2, <1>3, <1>4, <1>5, <1>6, <1>7, <1>8

\* A process dies and its lock with it.
LEMMA LockLost ==
  ASSUME StartInv, NEW p_ \in Startup!Procs, suLock' = IF suLock = p_ THEN None ELSE suLock,
         UNCHANGED <<suLease, expired, genFile, suPidFile, stateFile, frames, seen, suGen, suFailures>>,
         child' \in [Launchers -> ChildAt], launch' \in [Launchers -> LaunchAt],
         stop' \in {"off", "acquire", "done"} \cup Stopping, suCrashes' \in 0..SuMaxCrashes,
         stop' \in Stopping => p_ # Startup!Operator /\ stop' = stop,
         \A k \in Launchers : /\ child'[k] # child[k] => child'[k] = "exited" /\ launch'[k] # "start"
                              /\ p_ = Startup!Child(k) => child'[k] = "exited"
                              /\ p_ # Startup!Child(k) => child'[k] = child[k]
                              /\ launch'[k] # launch[k] => \/ launch'[k] = "dead"
                                                           \/ launch'[k] = "finish" /\ child'[k] = "exited"
                              /\ p_ = Startup!Launcher(k) => launch'[k] \notin Clearing
  PROVE  StartInv'
<1> USE DEF StartInv
<1>s. /\ Shown \cup {"pid"} \subseteq Claimed /\ Claimed \subseteq Holding /\ "exited" \notin Holding
      /\ {"dead", "finish"} \cap (Clearing \cup {"start", "judge", "clean", "failed_clean"}) = {} /\ "dead" \notin Ending
  BY DEF Claimed, Holding, Shown, Ending, Clearing
<1>1. LeaseTyped' /\ FilesTyped'
  BY DEF LeaseTyped, FilesTyped
<1>2. StartsTyped'
  BY DEF StartsTyped
<1>3. OneHolder'
  <2>1. \A k \in Launchers : child'[k] \in Holding => suLock' = Startup!Child(k)
    BY <1>s, ProcsDiffer DEF OneHolder
  <2>2. \A k \in Launchers : suLock' = Startup!Child(k) => child'[k] \in Holding
    BY <1>s, ProcsDiffer DEF OneHolder
  <2>3. \A k \in Launchers : launch'[k] \in Clearing => suLock' = Startup!Launcher(k)
    BY <1>s, ProcsDiffer DEF OneHolder
  <2>4. stop' \in Stopping => suLock' = Startup!Operator
    BY ProcsDiffer DEF OneHolder
  <2> QED BY <2>1, <2>2, <2>3, <2>4, Zenon DEF OneHolder
<1>4. HolderLeased'
  BY DEF HolderLeased
<1>5. ProjectionsOwn'
  BY <1>s DEF ProjectionsOwn
<1>6. ClaimFirst'
  BY <1>s DEF ClaimFirst
<1>7. ChildReaped'
  <2>1. ASSUME NEW k \in Launchers, launch'[k] = "start" PROVE child'[k] = "none"
    BY <2>1, <1>s DEF ChildReaped
  <2>2. ASSUME NEW k \in Launchers, launch'[k] \in Ending PROVE child'[k] = "exited"
    BY <2>2, <1>s DEF ChildReaped
  <2>3. ASSUME NEW k \in Launchers, launch'[k] = "judge"
        PROVE  seen[Startup!Launcher(k)].claimed = frames[k].claimed
    BY <2>3, <1>s DEF ChildReaped
  <2> QED BY <2>1, <2>2, <2>3 DEF ChildReaped
<1>8. NothingLeft'
  BY <1>s DEF NothingLeft, NothingOf
<1> QED BY <1>1, <1>2, <1>3, <1>4, <1>5, <1>6, <1>7, <1>8

-----------------------------------------------------------------------------
(* Steps that write the projections.                                         *)

LEMMA ProjectionsMove ==
  ASSUME StartInv, suLock \in Startup!Procs,
         UNCHANGED <<suLease, suLock, expired, genFile, frames, seen, suGen, suCrashes>>,
         suFailures' \in 0..SuMaxFailures,
         suPidFile' \in Identities \cup {None}, stateFile' \in States \cup {None},
         suPidFile' # None => \/ suPidFile # None /\ suPidFile' = suPidFile
                              \/ suPidFile'.proc = suLock /\ \E k \in Launchers : suLock = Startup!Child(k) /\ child[k] \in Claimed,
         stateFile' # None => \/ stateFile # None /\ stateFile'.proc = stateFile.proc /\ stateFile'.status = stateFile.status
                              \/ stateFile # None /\ stateFile'.proc = stateFile.proc /\ stateFile'.status = "stopped"
                              \/ stateFile'.proc = suLock /\ \E k \in Launchers : suLock = Startup!Child(k) /\ child[k] \in Claimed,
         child' \in [Launchers -> ChildAt], launch' \in [Launchers -> LaunchAt],
         stop' \in {"off", "acquire", "done"} \cup Stopping,
         stop' \in Stopping => stop \in Stopping,
         \A k \in Launchers : /\ child'[k] \in Holding <=> child[k] \in Holding
                              /\ child'[k] \in Claimed => child[k] \in Claimed
                              /\ child'[k] # child[k] => child[k] \in Holding
                              /\ launch'[k] \in Clearing => launch[k] \in Clearing
                              /\ launch'[k] # launch[k] => launch[k] \in Clearing /\ launch'[k] \in Clearing,
         \A k \in Launchers : suLock = Startup!Child(k) =>
             /\ child'[k] \in Shown \cup {"pid"} => stateFile' = [proc |-> Startup!Child(k), status |-> "running"]
             /\ child'[k] \in Shown => suPidFile' = [proc |-> Startup!Child(k), gen |-> suGen[k]]
  PROVE  StartInv'
<1> USE DEF StartInv
<1>s. /\ Shown \cup {"pid"} \subseteq Claimed /\ Claimed \subseteq Holding /\ "exited" \notin Holding /\ "none" \notin Holding
      /\ Clearing \cap {"start", "judge", "clean", "failed_clean"} = {} /\ Clearing \subseteq Ending
      /\ {"clean", "failed_clean"} \subseteq Ending
  BY DEF Claimed, Holding, Shown, Ending, Clearing
<1>1. LeaseTyped' /\ FilesTyped'
  BY DEF LeaseTyped, FilesTyped
<1>2. StartsTyped'
  BY DEF StartsTyped
<1>3. OneHolder'
  BY DEF OneHolder
<1>4. HolderLeased'
  BY DEF HolderLeased
<1>5. ProjectionsOwn'
  <2>1. ASSUME NEW k \in Launchers, child'[k] \in Shown \cup {"pid"} PROVE suLock = Startup!Child(k)
    BY <2>1, <1>s DEF OneHolder
  <2> QED BY <2>1 DEF ProjectionsOwn
<1>6. ClaimFirst'
  <2> SUFFICES ASSUME NEW l \in Launchers, frames[l].claimed = None
               PROVE  /\ child'[l] \notin Claimed
                      /\ suPidFile' # None => suPidFile'.proc # Startup!Child(l)
                      /\ stateFile' # None => stateFile'.proc # Startup!Child(l)
    BY DEF ClaimFirst
  <2>1. /\ child[l] \notin Claimed /\ (suPidFile # None => suPidFile.proc # Startup!Child(l))
        /\ (stateFile # None => stateFile.proc # Startup!Child(l))
    BY DEF ClaimFirst
  <2>2. \A k \in Launchers : child[k] \in Claimed => Startup!Child(k) # Startup!Child(l)
    BY <2>1, ProcsDiffer
  <2> QED BY <2>1, <2>2
<1>7. ChildReaped'
  <2>1. \A k \in Launchers : /\ launch'[k] = "start" => child'[k] = "none"
                             /\ launch'[k] \in Ending => child'[k] = "exited"
                             /\ launch'[k] = "judge" => seen'[Startup!Launcher(k)].claimed = frames'[k].claimed
    BY <1>s DEF ChildReaped
  <2> QED BY <2>1, Zenon DEF ChildReaped
<1>8. NothingLeft'
  <2> SUFFICES ASSUME NEW l \in Launchers, launch'[l] \in {"clean", "failed_clean"}
               PROVE  NothingOf(l)'
    BY DEF NothingLeft, NothingOf
  <2> USE DEF NothingOf
  <2>1. NothingOf(l) /\ child[l] = "exited"
    BY <1>s DEF NothingLeft, ChildReaped
  <2>2. \A k \in Launchers : child[k] \in Claimed => Startup!Child(k) # Startup!Child(l)
    BY <2>1, <1>s, ProcsDiffer
  <2> QED BY <2>1, <2>2
<1> QED BY <1>1, <1>2, <1>3, <1>4, <1>5, <1>6, <1>7, <1>8

-----------------------------------------------------------------------------
(* The other actions.                                                        *)

LEMMA AcquirePreserves ==
  ASSUME NEW l \in Launchers, StartInv
  PROVE  Startup!Acquire(l) => StartInv'
<1>0. SUFFICES ASSUME Startup!Acquire(l)
               PROVE  StartInv'
  BY Zenon
<1>t. /\ frames \in [Launchers -> FrameFiles] /\ child \in [Launchers -> ChildAt] /\ suGen \in [Launchers -> Nat]
      /\ launch \in [Launchers -> LaunchAt] /\ genFile \in Nat /\ stop \in {"off", "acquire", "done"} \cup Stopping
      /\ suFailures \in 0..SuMaxFailures /\ suCrashes \in 0..SuMaxCrashes
  BY DEF StartInv, StartsTyped, LeaseTyped
<1>1. /\ child[l] = "acquire"
      /\ UNCHANGED <<suPidFile, stateFile, frames, launch, seen, stop, suFailures, suCrashes>>
  BY <1>0 DEF Startup!Acquire, Startup!bounded, Startup!KeepOthers
<1>e. launch[l] \notin Ending /\ launch[l] # "start"
  BY <1>1 DEF StartInv, ChildReaped
<1>2. CASE /\ Startup!MayAcquire /\ Startup!TakeLease(Startup!Child(l))
           /\ suGen' = [suGen EXCEPT ![l] = genFile + 1] /\ Startup!GoChild(l, "claim")
  <2>1. suLock = None /\ Startup!TakeLease(Startup!Child(l)) /\ Startup!Child(l) \in Startup!Procs
    BY <1>2, ProcsDiffer DEF Startup!MayAcquire
  <2>c. "claim" \in ChildAt /\ "claim" \in Holding \ Claimed /\ genFile + 1 \in Nat
    BY <1>t, NextNat DEF ChildAt, Holding, Claimed, Shown
  <2>2. child' \in [Launchers -> ChildAt] /\ suGen' \in [Launchers -> Nat]
    BY <1>2, <1>t, <2>c DEF Startup!GoChild
  <2>3. child'[l] = "claim" /\ suGen'[l] = genFile + 1
        /\ \A k \in Launchers \ {l} : child'[k] = child[k] /\ suGen'[k] = suGen[k]
    BY <1>2, <1>t DEF Startup!GoChild
  <2>4. \A k \in Launchers : child[k] \notin Holding /\ launch[k] \notin Clearing
    BY <2>1, ProcsDiffer DEF StartInv, OneHolder
  <2>5. stop \notin Stopping
    BY <2>1, ProcsDiffer DEF StartInv, OneHolder
  <2>6. \A k \in Launchers \ {l} : Startup!Child(k) # Startup!Child(l)
    BY ProcsDiffer
  <2>7. \A k \in Launchers :
          /\ child'[k] \in Holding => Startup!Child(l) = Startup!Child(k)
          /\ Startup!Child(l) = Startup!Child(k) => /\ child'[k] \in Holding \ Claimed
                                                   /\ suGen'[k] = genFile + 1 /\ launch'[k] \notin Ending
          /\ Startup!Child(l) # Startup!Child(k) => child'[k] = child[k] /\ suGen'[k] = suGen[k]
          /\ launch'[k] \in Clearing => Startup!Child(l) = Startup!Launcher(k)
    BY <1>1, <1>e, <2>3, <2>4, <2>6, <2>c
  <2>8. stop' \in Stopping => Startup!Child(l) = Startup!Operator
    BY <1>1, <2>5
  <2>9. \A k \in Launchers : /\ launch'[k] = "start" => launch[k] = "start" /\ Startup!Child(l) # Startup!Child(k)
                             /\ launch'[k] \in Ending => launch[k] \in Ending
                             /\ launch'[k] \in {"judge", "clean", "failed_clean"} => launch'[k] = launch[k]
    BY <1>1, <1>e, <2>6
  <2>10. launch' \in [Launchers -> LaunchAt] /\ stop' \in {"off", "acquire", "done"} \cup Stopping
    BY <1>1, <1>t
  <2>11. UNCHANGED <<suPidFile, stateFile, frames, seen, suFailures, suCrashes>>
    BY <1>1
  <2> QED BY <2>1, <2>2, <2>7, <2>8, <2>9, <2>10, <2>11, LeaseTaken DEF Startup!TakeLease
<1>3. CASE Startup!GoChild(l, "report_failure") /\ UNCHANGED <<suLease, suLock, expired, genFile, suGen>>
  <2>1. "report_failure" \notin Claimed
    BY DEF Claimed, Shown
  <2>2. child' = [child EXCEPT ![l] = "report_failure"] /\ Harmless(child[l], "report_failure")
    BY <1>1, <1>3, HarmlessMoves DEF Startup!GoChild
  <2> QED BY <1>1, <1>3, <1>t, <2>1, <2>2, ChildMoves
<1> QED BY <1>0, <1>2, <1>3 DEF Startup!Acquire

LEMMA ReclaimPreserves ==
  ASSUME NEW l \in Launchers, StartInv
  PROVE  Startup!Reclaim(l) => StartInv'
<1>0. SUFFICES ASSUME Startup!Reclaim(l)
               PROVE  StartInv'
  BY Zenon
<1>t. /\ frames \in [Launchers -> FrameFiles] /\ child \in [Launchers -> ChildAt] /\ suGen \in [Launchers -> Nat]
      /\ launch \in [Launchers -> LaunchAt] /\ genFile \in Nat /\ stop \in {"off", "acquire", "done"} \cup Stopping
      /\ seen \in [Startup!Procs -> Notes]
  BY DEF StartInv, StartsTyped, LeaseTyped
<1>1. /\ launch[l] = "reclaim"
      /\ UNCHANGED <<suPidFile, stateFile, frames, child, seen, suGen, stop, suFailures, suCrashes>>
  BY <1>0 DEF Startup!Reclaim, Startup!bounded, Startup!KeepChild
<1>e. child[l] = "exited" /\ "reclaim" \in Ending
  BY <1>1 DEF StartInv, ChildReaped, Ending
<1>2. CASE suLock = None /\ Startup!TakeLease(Startup!Launcher(l)) /\ Startup!GoLaunch(l, "clear_state")
  <2>1. Startup!Launcher(l) \in Startup!Procs /\ \A k \in Launchers : Startup!Launcher(l) # Startup!Child(k)
    BY ProcsDiffer
  <2>2. /\ launch' \in [Launchers -> LaunchAt] /\ "clear_state" \in Ending
        /\ "clear_state" \notin {"start", "judge", "clean", "failed_clean"}
    BY <1>2, <1>t DEF Startup!GoLaunch, LaunchAt, Ending, Clearing
  <2>3. launch'[l] = "clear_state" /\ \A k \in Launchers \ {l} : launch'[k] = launch[k]
    BY <1>2, <1>t DEF Startup!GoLaunch
  <2>4. \A k \in Launchers : child[k] \notin Holding /\ launch[k] \notin Clearing
    BY <1>2, ProcsDiffer DEF StartInv, OneHolder
  <2>5. stop \notin Stopping
    BY <1>2, ProcsDiffer DEF StartInv, OneHolder
  <2> QED BY <1>1, <1>2, <1>e, <1>t, <2>1, <2>2, <2>3, <2>4, <2>5, LeaseTaken DEF Startup!TakeLease
<1>3. CASE Startup!GoLaunch(l, "dirty") /\ UNCHANGED <<suLease, suLock, expired, genFile>>
  <2>1. "dirty" \in LaunchAt \ ({"start"} \cup Clearing)
    BY DEF LaunchAt, Ending, Clearing
  <2> QED BY <1>1, <1>3, <1>e, <1>t, <2>1, LaunchMoves DEF Startup!GoLaunch
<1> QED BY <1>0, <1>2, <1>3 DEF Startup!Reclaim, Startup!MayReclaim, Startup!MayAcquire

\* The lease is given back.
LEMMA ReleasePreserves ==
  ASSUME NEW l \in Launchers, StartInv
  PROVE  (Startup!ChildRelease(l) \/ Startup!GiveBack(l)) => StartInv'
<1>0. SUFFICES ASSUME Startup!ChildRelease(l) \/ Startup!GiveBack(l)
               PROVE  StartInv'
  BY Zenon
<1>t. /\ child \in [Launchers -> ChildAt] /\ launch \in [Launchers -> LaunchAt]
      /\ stop \in {"off", "acquire", "done"} \cup Stopping
  BY DEF StartInv, StartsTyped
<1>1. CASE Startup!ChildRelease(l)
  <2>1. /\ child[l] = "release" /\ Startup!ReleaseLease(Startup!Child(l))
        /\ UNCHANGED <<genFile, suPidFile, stateFile, frames, launch, seen, suGen, stop, suFailures, suCrashes>>
    BY <1>1 DEF Startup!ChildRelease, Startup!bounded, Startup!KeepOthers
  <2>2. suLock = Startup!Child(l) /\ Startup!Child(l) \in Startup!Procs
    BY <2>1, ProcsDiffer DEF StartInv, OneHolder, Holding
  <2>3. PICK w \in {"exiting", "report_failure"} : child' = [child EXCEPT ![l] = w]
    BY <1>1 DEF Startup!ChildRelease, Startup!GoChild
  <2>4. w \in ChildAt /\ w \notin Holding
    BY DEF ChildAt, Holding, Claimed, Shown
  <2>5. child' \in [Launchers -> ChildAt] /\ child'[l] = w /\ \A k \in Launchers \ {l} : child'[k] = child[k]
    BY <1>t, <2>3, <2>4
  <2>6. \A k \in Launchers \ {l} : child[k] \notin Holding
    BY <2>2, ProcsDiffer DEF StartInv, OneHolder
  <2>7. stop \notin Stopping /\ \A k \in Launchers : launch[k] \notin Clearing
    BY <2>2, ProcsDiffer DEF StartInv, OneHolder
  <2>8. launch[l] \notin Ending /\ launch[l] # "start"
    BY <2>1 DEF StartInv, ChildReaped
  <2> QED BY <1>t, <2>1, <2>2, <2>4, <2>5, <2>6, <2>7, <2>8, LeaseGiven DEF Startup!ReleaseLease
<1>2. CASE Startup!GiveBack(l)
  <2>1. /\ launch[l] \in {"give_up", "give_back"} /\ Startup!ReleaseLease(Startup!Launcher(l))
        /\ UNCHANGED <<genFile, suPidFile, stateFile, frames, child, seen, suGen, stop, suFailures, suCrashes>>
    BY <1>2 DEF Startup!GiveBack, Startup!bounded, Startup!KeepChild
  <2>2. suLock = Startup!Launcher(l) /\ Startup!Launcher(l) \in Startup!Procs
    BY <2>1, ProcsDiffer DEF StartInv, OneHolder, Clearing
  <2>3. PICK w \in {"dirty", "recheck"} : launch' = [launch EXCEPT ![l] = w]
    BY <1>2 DEF Startup!GiveBack, Startup!GoLaunch
  <2>4. /\ w \in LaunchAt /\ w \notin Clearing /\ w \notin {"start", "judge", "clean", "failed_clean"}
        /\ launch[l] \in Ending
    BY <2>1 DEF LaunchAt, Ending, Clearing
  <2>5. launch' \in [Launchers -> LaunchAt] /\ launch'[l] = w /\ \A k \in Launchers \ {l} : launch'[k] = launch[k]
    BY <1>t, <2>3, <2>4
  <2>6. \A k \in Launchers : child[k] \notin Holding
    BY <2>2, ProcsDiffer DEF StartInv, OneHolder
  <2>7. stop \notin Stopping /\ \A k \in Launchers \ {l} : launch[k] \notin Clearing
    BY <2>2, ProcsDiffer DEF StartInv, OneHolder
  <2> QED BY <1>t, <2>1, <2>2, <2>4, <2>5, <2>6, <2>7, LeaseGiven DEF Startup!ReleaseLease
<1> QED BY <1>0, <1>1, <1>2, Zenon

\* A child is killed or dies, or its launcher does.
LEMMA DeathPreserves ==
  ASSUME NEW l \in Launchers, StartInv
  PROVE  (Startup!Grace(l) \/ Startup!ChildDies(l) \/ Startup!LauncherDies(l)) => StartInv'
<1>0. SUFFICES ASSUME Startup!Grace(l) \/ Startup!ChildDies(l) \/ Startup!LauncherDies(l)
               PROVE  StartInv'
  BY Zenon
<1>t. /\ child \in [Launchers -> ChildAt] /\ launch \in [Launchers -> LaunchAt]
      /\ stop \in {"off", "acquire", "done"} \cup Stopping /\ suCrashes \in 0..SuMaxCrashes
      /\ frames \in [Launchers -> FrameFiles] /\ seen \in [Startup!Procs -> Notes]
  BY DEF StartInv, StartsTyped
<1>n. SuMaxCrashes \in Nat
  BY StartupAssumption
<1>p. /\ Startup!Child(l) \in Startup!Procs /\ Startup!Launcher(l) \in Startup!Procs
      /\ Startup!Child(l) # Startup!Operator /\ Startup!Launcher(l) # Startup!Operator
      /\ \A k \in Launchers : Startup!Child(l) # Startup!Launcher(k) /\ Startup!Launcher(l) # Startup!Child(k)
      /\ \A k \in Launchers \ {l} : Startup!Child(k) # Startup!Child(l) /\ Startup!Launcher(k) # Startup!Launcher(l)
  BY ProcsDiffer
<1>w. {"exited"} \subseteq ChildAt /\ {"finish", "dead"} \subseteq LaunchAt \ Clearing
  BY DEF ChildAt, LaunchAt, Ending, Clearing
<1>1. CASE Startup!Grace(l) /\ child[l] # "exited"
  <2>1. /\ UNCHANGED <<suLease, expired, genFile, suPidFile, stateFile, frames, seen, suGen, stop, suFailures, suCrashes>>
        /\ launch[l] = "grace" /\ launch' = [launch EXCEPT ![l] = "finish"] /\ child' = [child EXCEPT ![l] = "exited"]
        /\ suLock' = IF suLock = Startup!Child(l) THEN None ELSE suLock
    BY <1>1 DEF Startup!Grace, Startup!GoLaunch, Startup!GoChild, Startup!Exited, Startup!bounded, Startup!KeepChild
  <2>2. /\ child' \in [Launchers -> ChildAt] /\ child'[l] = "exited" /\ \A k \in Launchers \ {l} : child'[k] = child[k]
        /\ launch' \in [Launchers -> LaunchAt] /\ launch'[l] = "finish" /\ \A k \in Launchers \ {l} : launch'[k] = launch[k]
    BY <1>t, <1>w, <2>1
  <2> QED BY <1>p, <1>t, <1>w, <2>1, <2>2, LockLost
<1>2. CASE Startup!Grace(l) /\ child[l] = "exited"
  <2>1. /\ UNCHANGED <<suLease, suLock, expired, genFile, suPidFile, stateFile, child, stop, suGen, suFailures, suCrashes>>
        /\ UNCHANGED <<frames, seen>> /\ launch' = [launch EXCEPT ![l] = "finish"]
    BY <1>2 DEF Startup!Grace, Startup!GoLaunch, Startup!Exited, Startup!bounded, Startup!KeepChild
  <2>2. "finish" \in LaunchAt \ ({"start"} \cup Clearing)
    BY DEF LaunchAt, Ending, Clearing
  <2> QED BY <1>2, <1>t, <2>1, <2>2, LaunchMoves
<1>3. CASE Startup!ChildDies(l)
  <2>1. /\ UNCHANGED <<suLease, expired, genFile, suPidFile, stateFile, frames, seen, suGen, launch, stop, suFailures>>
        /\ suCrashes < SuMaxCrashes /\ suCrashes' = suCrashes + 1
        /\ child[l] # "none" /\ child' = [child EXCEPT ![l] = "exited"]
        /\ suLock' = IF suLock = Startup!Child(l) THEN None ELSE suLock
    BY <1>3 DEF Startup!ChildDies, Startup!Dies, Startup!GoChild
  <2>2. child' \in [Launchers -> ChildAt] /\ child'[l] = "exited" /\ \A k \in Launchers \ {l} : child'[k] = child[k]
    BY <1>t, <1>w, <2>1
  <2>3. suCrashes' \in 0..SuMaxCrashes
    BY <1>n, <1>t, <2>1
  <2>4. launch[l] # "start"
    BY <2>1 DEF StartInv, ChildReaped
  <2> QED BY <1>p, <1>t, <1>w, <2>1, <2>2, <2>3, <2>4, LockLost
<1>4. CASE Startup!LauncherDies(l)
  <2>1. /\ UNCHANGED <<suLease, expired, genFile, suPidFile, stateFile, frames, seen, suGen, child, stop, suFailures>>
        /\ suCrashes < SuMaxCrashes /\ suCrashes' = suCrashes + 1 /\ launch' = [launch EXCEPT ![l] = "dead"]
        /\ suLock' = IF suLock = Startup!Launcher(l) THEN None ELSE suLock
    BY <1>4 DEF Startup!LauncherDies, Startup!Dies, Startup!GoLaunch
  <2>2. launch' \in [Launchers -> LaunchAt] /\ launch'[l] = "dead" /\ \A k \in Launchers \ {l} : launch'[k] = launch[k]
    BY <1>t, <1>w, <2>1
  <2>3. suCrashes' \in 0..SuMaxCrashes
    BY <1>n, <1>t, <2>1
  <2> QED BY <1>p, <1>t, <1>w, <2>1, <2>2, <2>3, LockLost
<1> QED BY <1>0, <1>1, <1>2, <1>3, <1>4, Zenon

\* The child writes its projections and takes them back.
LEMMA ChildWrites ==
  ASSUME NEW l \in Launchers, StartInv
  PROVE  (\/ Startup!WriteRunning(l) \/ Startup!WritePid(l) \/ Startup!Unwind(l)
          \/ Startup!RemovePid(l))
         => StartInv'
<1>0. SUFFICES ASSUME \/ Startup!WriteRunning(l) \/ Startup!WritePid(l) \/ Startup!Unwind(l)
                      \/ Startup!RemovePid(l)
               PROVE  StartInv'
  BY Zenon
<1>t. /\ child \in [Launchers -> ChildAt] /\ launch \in [Launchers -> LaunchAt] /\ suGen[l] \in Nat
      /\ stop \in {"off", "acquire", "done"} \cup Stopping /\ suFailures \in 0..SuMaxFailures
      /\ suPidFile \in Identities \cup {None} /\ stateFile \in States \cup {None}
  BY DEF StartInv, StartsTyped, FilesTyped
<1>c. child[l] \in {"state", "pid", "unwind", "remove_pid"}
  BY <1>0 DEF Startup!WriteRunning, Startup!WritePid, Startup!Unwind, Startup!RemovePid
<1>h. child[l] \in Claimed /\ child[l] \in Holding
  BY <1>c DEF Claimed, Holding, Shown
<1>p. suLock = Startup!Child(l) /\ Startup!Child(l) \in Startup!Procs
      /\ \A k \in Launchers \ {l} : Startup!Child(k) # Startup!Child(l)
  BY <1>h, ProcsDiffer DEF StartInv, OneHolder
<1>u. UNCHANGED <<suLease, suLock, expired, genFile, frames, seen, suGen, launch, stop, suCrashes>>
  BY <1>0 DEF Startup!WriteRunning, Startup!WritePid, Startup!Unwind, Startup!RemovePid, Startup!Breaks,
         Startup!bounded, Startup!KeepOthers
<1>m. ASSUME NEW w \in Holding, child' = [child EXCEPT ![l] = w],
             w \in Claimed \/ w = "release", suFailures' \in 0..SuMaxFailures,
             suPidFile' \in Identities \cup {None}, stateFile' \in States \cup {None},
             suPidFile' # None => suPidFile' = suPidFile \/ suPidFile'.proc = Startup!Child(l),
             stateFile' # None => \/ stateFile' = stateFile
                                  \/ stateFile # None /\ stateFile'.proc = stateFile.proc /\ stateFile'.status = "stopped"
                                  \/ stateFile'.proc = Startup!Child(l),
             w \in Shown \cup {"pid"} => stateFile' = [proc |-> Startup!Child(l), status |-> "running"],
             w \in Shown => suPidFile' = [proc |-> Startup!Child(l), gen |-> suGen[l]]
      PROVE  StartInv'
  <2>1. w \in ChildAt
    BY DEF ChildAt
  <2>2. child' \in [Launchers -> ChildAt] /\ child'[l] = w /\ \A k \in Launchers \ {l} : child'[k] = child[k]
    BY <1>m, <1>t, <2>1
  <2>3. suPidFile' # None => \/ suPidFile # None /\ suPidFile' = suPidFile
                             \/ suPidFile'.proc = suLock /\ \E k \in Launchers : suLock = Startup!Child(k) /\ child[k] \in Claimed
    BY <1>m, <1>h, <1>p
  <2>4. stateFile' # None =>
          \/ stateFile # None /\ stateFile'.proc = stateFile.proc /\ stateFile'.status = stateFile.status
          \/ stateFile # None /\ stateFile'.proc = stateFile.proc /\ stateFile'.status = "stopped"
          \/ stateFile'.proc = suLock /\ \E k \in Launchers : suLock = Startup!Child(k) /\ child[k] \in Claimed
    BY <1>m, <1>h, <1>p
  <2>5. \A k \in Launchers : /\ child'[k] \in Holding <=> child[k] \in Holding
                             /\ child'[k] \in Claimed => child[k] \in Claimed
                             /\ child'[k] # child[k] => child[k] \in Holding
    BY <1>h, <2>2
  <2>6. \A k \in Launchers : suLock = Startup!Child(k) =>
             /\ child'[k] \in Shown \cup {"pid"} => stateFile' = [proc |-> Startup!Child(k), status |-> "running"]
             /\ child'[k] \in Shown => suPidFile' = [proc |-> Startup!Child(k), gen |-> suGen[k]]
    BY <1>m, <1>p, <2>2
  <2>7. \A k \in Launchers : launch'[k] = launch[k] /\ (launch'[k] \in Clearing => launch[k] \in Clearing)
    BY <1>u
  <2>8. stop' \in {"off", "acquire", "done"} \cup Stopping /\ (stop' \in Stopping => stop \in Stopping)
        /\ launch' \in [Launchers -> LaunchAt]
    BY <1>u, <1>t
  <2>9. UNCHANGED <<suLease, suLock, expired, genFile, frames, seen, suGen, suCrashes>>
    BY <1>u
  <2>10. suLock \in Startup!Procs
    BY <1>p
  <2>11. /\ suFailures' \in 0..SuMaxFailures /\ suPidFile' \in Identities \cup {None} /\ stateFile' \in States \cup {None}
    BY <1>m
  <2>12. child' \in [Launchers -> ChildAt]
    BY <2>2
  <2>13. \A k \in Launchers :
           /\ child'[k] \in Holding <=> child[k] \in Holding
           /\ child'[k] \in Claimed => child[k] \in Claimed
           /\ child'[k] # child[k] => child[k] \in Holding
           /\ launch'[k] \in Clearing => launch[k] \in Clearing
           /\ launch'[k] # launch[k] => launch[k] \in Clearing /\ launch'[k] \in Clearing
    BY <2>5, <2>7
  <2> QED BY <2>10, <2>11, <2>12, <2>13, <2>3, <2>4, <2>6, <2>8, <2>9, ProjectionsMove
<1>s. {"pid", "publish", "remove_pid"} \subseteq Claimed /\ {"pid", "remove_pid", "publish", "release"} \subseteq Holding
      /\ {"pid", "remove_pid", "release"} \cap Shown = {} /\ {"pid", "publish"} \subseteq Shown \cup {"pid"}
      /\ "unwind" \in Shown
  BY DEF Claimed, Holding, Shown
<1>w. Startup!WriteStopped /\ child[l] \in {"pid", "unwind"} =>
         /\ stateFile # None /\ stateFile' \in States /\ stateFile'.proc = stateFile.proc /\ stateFile'.status = "stopped"
  <2> SUFFICES ASSUME Startup!WriteStopped, child[l] \in {"pid", "unwind"}
               PROVE  /\ stateFile # None /\ stateFile' \in States /\ stateFile'.proc = stateFile.proc
                      /\ stateFile'.status = "stopped"
    OBVIOUS
  <2>1. stateFile = [proc |-> Startup!Child(l), status |-> "running"]
    BY <1>s DEF StartInv, ProjectionsOwn
  <2>2. stateFile \in States
    BY <2>1, <1>p DEF States
  <2>3. stateFile' = [stateFile EXCEPT !.status = "stopped"]
    BY DEF Startup!WriteStopped
  <2>4. stateFile' \in States /\ stateFile'.proc = stateFile.proc /\ stateFile'.status = "stopped"
    BY <2>2, <2>3 DEF States
  <2>5. stateFile # None
    BY <2>2, RecordsReal
  <2> QED BY <2>4, <2>5
<1>1. CASE Startup!WriteRunning(l)
  <2>1. /\ child' = [child EXCEPT ![l] = "pid"] /\ stateFile' = [proc |-> Startup!Child(l), status |-> "running"]
        /\ UNCHANGED <<suPidFile, suFailures>>
    BY <1>1 DEF Startup!WriteRunning, Startup!GoChild, Startup!bounded
  <2>2. stateFile' \in States /\ stateFile'.proc = Startup!Child(l)
    BY <1>p, <2>1 DEF States
  <2> QED BY <1>m, <1>s, <1>t, <2>1, <2>2
<1>2. CASE Startup!WritePid(l)
  <2>c. child[l] = "pid"
    BY <1>2 DEF Startup!WritePid
  <2>1. CASE suPidFile' = Startup!Me(l) /\ Startup!GoChild(l, "publish") /\ UNCHANGED <<stateFile, Startup!bounded>>
    <3>1. /\ suPidFile' = [proc |-> Startup!Child(l), gen |-> suGen[l]] /\ child' = [child EXCEPT ![l] = "publish"]
          /\ UNCHANGED <<stateFile, suFailures>>
      BY <2>1 DEF Startup!Me, Startup!GoChild, Startup!bounded
    <3>2. suPidFile' \in Identities /\ suPidFile'.proc = Startup!Child(l)
      BY <1>p, <1>t, <3>1 DEF Identities
    <3>3. stateFile = [proc |-> Startup!Child(l), status |-> "running"]
      BY <2>c DEF StartInv, ProjectionsOwn
    <3> QED BY <1>m, <1>s, <1>t, <3>1, <3>2, <3>3
  <2>2. CASE Startup!Breaks /\ Startup!GoChild(l, "release") /\ Startup!WriteStopped /\ UNCHANGED suPidFile
    <3>1. suFailures' \in 0..SuMaxFailures
      BY <1>t, <2>2, StartupAssumption DEF Startup!Breaks
    <3>2. child' = [child EXCEPT ![l] = "release"]
      BY <2>2 DEF Startup!GoChild
    <3> QED BY <1>m, <1>s, <1>t, <1>w, <2>2, <2>c, <3>1, <3>2
  <2> QED BY <1>2, <2>1, <2>2 DEF Startup!WritePid
<1>3. CASE Startup!Unwind(l)
  <2>1. /\ child[l] = "unwind" /\ child' = [child EXCEPT ![l] = "remove_pid"] /\ Startup!WriteStopped
        /\ UNCHANGED <<suPidFile, suFailures>>
    BY <1>3 DEF Startup!Unwind, Startup!GoChild, Startup!bounded
  <2> QED BY <1>m, <1>s, <1>t, <1>w, <2>1
<1>4. CASE Startup!RemovePid(l)
  <2>1. /\ child' = [child EXCEPT ![l] = "release"] /\ suPidFile' \in {None, suPidFile}
        /\ UNCHANGED <<stateFile, suFailures>>
    BY <1>4 DEF Startup!RemovePid, Startup!RemoveMatchingPid, Startup!GoChild, Startup!bounded
  <2> QED BY <1>m, <1>s, <1>t, <2>1
<1> QED BY <1>0, <1>1, <1>2, <1>3, <1>4, Zenon

\* A child is spawned, and its lease record gets old.
LEMMA SpawnPreserves ==
  ASSUME NEW l \in Launchers, StartInv
  PROVE  Startup!Spawn(l) => StartInv'
<1>0. SUFFICES ASSUME Startup!Spawn(l) PROVE StartInv'
  BY Zenon
<1> USE DEF StartInv
<1>1. /\ launch[l] = "start" /\ launch' = [launch EXCEPT ![l] = "poll"] /\ child' = [child EXCEPT ![l] = "acquire"]
      /\ UNCHANGED <<suLease, suLock, expired, genFile, suPidFile, stateFile, frames, seen, suGen, stop>>
      /\ UNCHANGED <<suFailures, suCrashes>>
  BY <1>0 DEF Startup!Spawn, Startup!GoLaunch, Startup!GoChild, Startup!project, Startup!KeepChild, Startup!bounded
<1>s. /\ "acquire" \in ChildAt \ Holding /\ "poll" \in LaunchAt \ Ending /\ "none" \notin Holding
      /\ Claimed \subseteq Holding /\ Shown \cup {"pid"} \subseteq Holding /\ Clearing \subseteq Ending
      /\ {"judge", "clean", "failed_clean"} \subseteq Ending
  BY DEF ChildAt, LaunchAt, Holding, Claimed, Shown, Ending, Clearing
<1>2. /\ launch' \in [Launchers -> LaunchAt] /\ launch'[l] = "poll" /\ \A k \in Launchers \ {l} : launch'[k] = launch[k]
      /\ child' \in [Launchers -> ChildAt] /\ child'[l] = "acquire" /\ \A k \in Launchers \ {l} : child'[k] = child[k]
      /\ child[l] = "none"
  BY <1>1, <1>s DEF StartsTyped, ChildReaped
<1>3. LeaseTyped' /\ FilesTyped'
  BY <1>1 DEF LeaseTyped, FilesTyped
<1>4. StartsTyped'
  BY <1>1, <1>2 DEF StartsTyped
<1>5. OneHolder'
  BY <1>1, <1>2, <1>s DEF OneHolder
<1>6. HolderLeased'
  BY <1>1 DEF HolderLeased
<1>7. ProjectionsOwn'
  BY <1>1, <1>2, <1>s DEF ProjectionsOwn
<1>8. ClaimFirst'
  BY <1>1, <1>2, <1>s DEF ClaimFirst
<1>9. ChildReaped'
  BY <1>1, <1>2, <1>s DEF ChildReaped
<1>10. NothingLeft'
  BY <1>1, <1>2, <1>s DEF NothingLeft, NothingOf
<1> QED BY <1>3, <1>4, <1>5, <1>6, <1>7, <1>8, <1>9, <1>10

\* A launcher clears the projections of its dead child.
LEMMA ClearPreserves ==
  ASSUME NEW l \in Launchers, StartInv
  PROVE  Startup!ClearState(l) \/ Startup!ClearPid(l) => StartInv'
<1>0. SUFFICES ASSUME Startup!ClearState(l) \/ Startup!ClearPid(l) PROVE StartInv'
  BY Zenon
<1>t. /\ child \in [Launchers -> ChildAt] /\ launch \in [Launchers -> LaunchAt]
      /\ stop \in {"off", "acquire", "done"} \cup Stopping /\ suFailures \in 0..SuMaxFailures
      /\ suPidFile \in Identities \cup {None} /\ stateFile \in States \cup {None}
  BY DEF StartInv, StartsTyped, FilesTyped
<1>1. /\ launch[l] \in {"clear_state", "clear_pid"}
      /\ UNCHANGED <<suLease, suLock, expired, genFile, frames, child, seen, suGen, stop, suFailures, suCrashes>>
  BY <1>0 DEF Startup!ClearState, Startup!ClearPid, Startup!KeepChild, Startup!bounded
<1>s. {"clear_state", "clear_pid", "give_up", "give_back"} \subseteq Clearing /\ Clearing \subseteq LaunchAt
  BY DEF Clearing, LaunchAt, Ending
<1>p. /\ suLock = Startup!Launcher(l) /\ suLock \in Startup!Procs
      /\ \A k \in Launchers : suLock # Startup!Child(k)
  BY <1>1, <1>s, ProcsDiffer DEF StartInv, OneHolder
<1>2. PICK w \in {"clear_pid", "give_up", "give_back"} : launch' = [launch EXCEPT ![l] = w]
  BY <1>0 DEF Startup!ClearState, Startup!ClearPid, Startup!GoLaunch
<1>3. launch' \in [Launchers -> LaunchAt] /\ launch'[l] = w /\ \A k \in Launchers \ {l} : launch'[k] = launch[k]
  BY <1>2, <1>s, <1>t
<1>4. suPidFile' \in {None, suPidFile}
  BY <1>0 DEF Startup!ClearState, Startup!ClearPid, Startup!RemoveMatchingPid
<1>5. \/ stateFile' = stateFile
      \/ stateFile # None /\ stateFile' = [stateFile EXCEPT !.status = "stopped"]
  BY <1>0 DEF Startup!ClearState, Startup!ClearPid, Startup!WriteStopped, Startup!Running
<1>6. /\ stateFile' \in States \cup {None}
      /\ stateFile' # None =>
           \/ stateFile # None /\ stateFile'.proc = stateFile.proc /\ stateFile'.status = stateFile.status
           \/ stateFile # None /\ stateFile'.proc = stateFile.proc /\ stateFile'.status = "stopped"
  BY <1>5, <1>t DEF States
<1>7. suPidFile' \in Identities \cup {None} /\ (suPidFile' # None => suPidFile # None /\ suPidFile' = suPidFile)
  BY <1>4, <1>t
<1>8. \A k \in Launchers :
        /\ child'[k] = child[k]
        /\ launch'[k] \in Clearing => launch[k] \in Clearing
        /\ launch'[k] # launch[k] => launch[k] \in Clearing /\ launch'[k] \in Clearing
  BY <1>1, <1>3, <1>s
<1>9. child' \in [Launchers -> ChildAt] /\ stop' \in {"off", "acquire", "done"} \cup Stopping
      /\ (stop' \in Stopping => stop \in Stopping) /\ suFailures' \in 0..SuMaxFailures
  BY <1>1, <1>t
<1>10. UNCHANGED <<suLease, suLock, expired, genFile, frames, seen, suGen, suCrashes>>
  BY <1>1
<1> QED BY <1>3, <1>6, <1>7, <1>8, <1>9, <1>10, <1>p, ProjectionsMove

-----------------------------------------------------------------------------
(* stop_daemon and the environment.                                          *)

\* The operator looks, or finds that it may not go on.
LEMMA OperatorLooks ==
  ASSUME StartInv, stop' \in {"acquire", "done"}, stop \notin Stopping,
         UNCHANGED <<suLease, suLock, expired, genFile, suPidFile, stateFile, frames, child, suGen, launch>>,
         UNCHANGED <<suFailures, suCrashes>>, seen' \in [Startup!Procs -> Notes],
         \A k \in Launchers : seen'[Startup!Launcher(k)] = seen[Startup!Launcher(k)]
  PROVE  StartInv'
<1> USE DEF StartInv
<1>1. LeaseTyped' /\ FilesTyped'
  BY DEF LeaseTyped, FilesTyped
<1>2. StartsTyped'
  BY DEF StartsTyped
<1>3. OneHolder'
  BY DEF OneHolder, Stopping
<1>4. HolderLeased' /\ ProjectionsOwn'
  BY DEF HolderLeased, ProjectionsOwn
<1>5. ClaimFirst'
  BY DEF ClaimFirst
<1>6. ChildReaped'
  BY DEF ChildReaped
<1>7. NothingLeft'
  BY DEF NothingLeft, NothingOf
<1> QED BY <1>1, <1>2, <1>3, <1>4, <1>5, <1>6, <1>7

LEMMA StopPreserves ==
  ASSUME StartInv, Startup!Stop PROVE StartInv'
<1>t. /\ child \in [Launchers -> ChildAt] /\ launch \in [Launchers -> LaunchAt] /\ suGen \in [Launchers -> Nat]
      /\ stop \in {"off", "acquire", "done"} \cup Stopping /\ suFailures \in 0..SuMaxFailures
      /\ suPidFile \in Identities \cup {None} /\ stateFile \in States \cup {None}
      /\ seen \in [Startup!Procs -> Notes] /\ suLease \in Leases \cup {None}
  BY DEF StartInv, StartsTyped, FilesTyped, LeaseTyped
<1>p. /\ Startup!Operator \in Startup!Procs
      /\ \A k \in Launchers : /\ Startup!Child(k) # Startup!Operator /\ Startup!Launcher(k) # Startup!Operator
                              /\ Startup!Launcher(k) \in Startup!Procs
  BY ProcsDiffer
<1>s. /\ "off" \notin Stopping /\ "acquire" \notin Stopping /\ "done" \notin Stopping /\ {"state", "pid", "release"} \subseteq Stopping
  BY DEF Stopping
<1>1. CASE Startup!StopObserve
  <2> DEFINE n == [Startup!NothingSeen EXCEPT !.lease = suLease]
  <2>1. n \in Notes
    BY <1>t DEF Notes, Startup!NothingSeen
  <2>2. /\ stop = "off" /\ stop' = "acquire" /\ seen' = [seen EXCEPT ![Startup!Operator] = n]
        /\ UNCHANGED <<suLease, suLock, expired, genFile, suPidFile, stateFile, frames, child, suGen, launch>>
        /\ UNCHANGED <<suFailures, suCrashes>>
    BY <1>1 DEF Startup!StopObserve, Startup!GoStop, Startup!project, Startup!KeepStarts, Startup!bounded
  <2> HIDE DEF n
  <2>3. seen' \in [Startup!Procs -> Notes] /\ \A k \in Launchers : seen'[Startup!Launcher(k)] = seen[Startup!Launcher(k)]
    BY <1>t, <1>p, <2>1, <2>2
  <2> QED BY <1>s, <2>2, <2>3, OperatorLooks
<1>2. CASE Startup!StopAcquire
  <2>1. /\ stop = "acquire" /\ UNCHANGED <<suPidFile, stateFile, seen, frames, child, suGen, launch>>
        /\ UNCHANGED <<suFailures, suCrashes>>
    BY <1>2 DEF Startup!StopAcquire, Startup!KeepStarts, Startup!bounded
  <2>2. CASE suLock = None /\ Startup!TakeLease(Startup!Operator) /\ stop' = "state"
    <3>1. \A k \in Launchers : child[k] \notin Holding /\ launch[k] \notin Clearing
      BY <2>2, ProcsDiffer DEF StartInv, OneHolder
    <3>2. \A k \in Launchers : child'[k] = child[k] /\ launch'[k] = launch[k] /\ suGen'[k] = suGen[k]
      BY <2>1
    <3> QED BY <1>p, <1>s, <1>t, <2>1, <2>2, <3>1, <3>2, LeaseTaken DEF Startup!TakeLease
  <2>3. CASE stop' = "done" /\ UNCHANGED <<suLease, suLock, expired, genFile>>
    BY <1>s, <1>t, <2>1, <2>3, OperatorLooks
  <2> QED BY <1>2, <2>2, <2>3 DEF Startup!StopAcquire, Startup!MayAcquire, Startup!GoStop
<1>3. CASE Startup!StopState \/ Startup!StopPid
  <2>1. /\ stop \in {"state", "pid"} /\ stop' \in {"pid", "release"}
        /\ UNCHANGED <<suLease, suLock, expired, genFile, seen, frames, child, suGen, launch, suFailures, suCrashes>>
    BY <1>3 DEF Startup!StopState, Startup!StopPid, Startup!KeepStarts, Startup!bounded, Startup!GoStop
  <2>2. suLock = Startup!Operator /\ suLock \in Startup!Procs /\ \A k \in Launchers : suLock # Startup!Child(k)
    BY <1>p, <1>s, <2>1 DEF StartInv, OneHolder
  <2>3. suPidFile' \in {None, suPidFile}
    BY <1>3 DEF Startup!StopState, Startup!StopPid, Startup!RemoveMatchingPid
  <2>4. \/ stateFile' = stateFile
        \/ stateFile # None /\ stateFile' = [stateFile EXCEPT !.status = "stopped"]
    BY <1>3 DEF Startup!StopState, Startup!StopPid, Startup!WriteStopped
  <2>5. /\ stateFile' \in States \cup {None}
        /\ stateFile' # None =>
             \/ stateFile # None /\ stateFile'.proc = stateFile.proc /\ stateFile'.status = stateFile.status
             \/ stateFile # None /\ stateFile'.proc = stateFile.proc /\ stateFile'.status = "stopped"
    BY <2>4, <1>t DEF States
  <2>6. suPidFile' \in Identities \cup {None} /\ (suPidFile' # None => suPidFile # None /\ suPidFile' = suPidFile)
    BY <2>3, <1>t
  <2>7. \A k \in Launchers : child'[k] = child[k] /\ launch'[k] = launch[k]
    BY <2>1
  <2>8. /\ child' \in [Launchers -> ChildAt] /\ launch' \in [Launchers -> LaunchAt]
        /\ stop' \in {"off", "acquire", "done"} \cup Stopping
        /\ (stop' \in Stopping => stop \in Stopping) /\ suFailures' \in 0..SuMaxFailures
    BY <1>s, <1>t, <2>1
  <2>9. UNCHANGED <<suLease, suLock, expired, genFile, frames, seen, suGen, suCrashes>>
    BY <2>1
  <2> QED BY <2>2, <2>5, <2>6, <2>7, <2>8, <2>9, ProjectionsMove
<1>4. CASE Startup!StopRelease
  <2>1. /\ stop = "release" /\ stop' = "done" /\ Startup!ReleaseLease(Startup!Operator)
        /\ UNCHANGED <<genFile, suPidFile, stateFile, seen, frames, child, suGen, launch, suFailures, suCrashes>>
    BY <1>4 DEF Startup!StopRelease, Startup!KeepStarts, Startup!bounded, Startup!GoStop
  <2>2. suLock = Startup!Operator
    BY <1>s, <2>1 DEF StartInv, OneHolder
  <2>3. \A k \in Launchers : child[k] \notin Holding /\ launch[k] \notin Clearing
    BY <1>p, <2>2 DEF StartInv, OneHolder
  <2>4. \A k \in Launchers : child'[k] = child[k] /\ launch'[k] = launch[k]
    BY <2>1
  <2> QED BY <1>p, <1>t, <2>1, <2>2, <2>3, <2>4, LeaseGiven DEF Startup!ReleaseLease
<1> QED BY <1>1, <1>2, <1>3, <1>4 DEF Startup!Stop

LEMMA EnvironmentPreserves ==
  ASSUME StartInv, Startup!Expire \/ Startup!OperatorDies PROVE StartInv'
<1>1. CASE Startup!Expire
  <2>1. /\ expired' = TRUE
        /\ UNCHANGED <<suLease, suLock, genFile, suPidFile, stateFile, frames, child, suGen, launch, seen, stop>>
        /\ UNCHANGED <<suFailures, suCrashes>>
    BY <1>1 DEF Startup!Expire, Startup!bounded
  <2>2. LeaseTyped' /\ FilesTyped' /\ StartsTyped'
    BY <2>1 DEF StartInv, LeaseTyped, FilesTyped, StartsTyped
  <2>3. OneHolder' /\ HolderLeased' /\ ProjectionsOwn'
    BY <2>1 DEF StartInv, OneHolder, HolderLeased, ProjectionsOwn
  <2>4. ClaimFirst' /\ ChildReaped' /\ NothingLeft'
    BY <2>1 DEF StartInv, ClaimFirst, ChildReaped, NothingLeft, NothingOf
  <2> QED BY <2>2, <2>3, <2>4 DEF StartInv
<1>2. CASE Startup!OperatorDies
  <2>1. /\ stop' = "done" /\ suCrashes < SuMaxCrashes /\ suCrashes' = suCrashes + 1
        /\ suLock' = IF suLock = Startup!Operator THEN None ELSE suLock
        /\ UNCHANGED <<suLease, expired, genFile, suPidFile, stateFile, frames, seen, suGen, child, launch, suFailures>>
    BY <1>2 DEF Startup!OperatorDies, Startup!Dies, Startup!GoStop
  <2>t. child \in [Launchers -> ChildAt] /\ launch \in [Launchers -> LaunchAt] /\ suCrashes \in 0..SuMaxCrashes
    BY DEF StartInv, StartsTyped
  <2>2. suCrashes' \in 0..SuMaxCrashes
    BY <2>1, <2>t, StartupAssumption
  <2>3. "done" \notin Stopping
    BY DEF Stopping
  <2>4. \A k \in Launchers : /\ child'[k] = child[k] /\ launch'[k] = launch[k]
                             /\ Startup!Operator # Startup!Child(k) /\ Startup!Operator # Startup!Launcher(k)
    BY <2>1, ProcsDiffer
  <2>5. Startup!Operator \in Startup!Procs
    BY ProcsDiffer
  <2> QED BY <2>1, <2>2, <2>3, <2>4, <2>5, <2>t, LockLost
<1> QED BY <1>1, <1>2

LEMMA StartSteps ==
  ASSUME StartInv, [Startup!Next]_(Startup!vars)
  PROVE  StartInv'
<1>1. ASSUME NEW l \in Launchers, Startup!ChildSteps(l) PROVE StartInv'
  BY <1>1, AcquirePreserves, QuietChild, ChildWrites, ReleasePreserves, Zenon DEF Startup!ChildSteps
<1>2. ASSUME NEW l \in Launchers, Startup!LauncherSteps(l) PROVE StartInv'
  BY <1>2, SpawnPreserves, QuietLaunch, FrameLaunch, DeathPreserves, ReclaimPreserves, ClearPreserves,
     ReleasePreserves, Zenon DEF Startup!LauncherSteps
<1>3. ASSUME NEW l \in Launchers,
             Startup!Deadline(l) \/ Startup!EndServing(l) \/ Startup!ChildDies(l) \/ Startup!LauncherDies(l)
      PROVE  StartInv'
  BY <1>3, QuietLaunch, QuietChild, DeathPreserves, Zenon
<1>4. CASE UNCHANGED Startup!vars
  <2>1. /\ UNCHANGED <<suLease, suLock, expired, genFile, suPidFile, stateFile, frames, child, suGen, launch, seen, stop>>
        /\ UNCHANGED <<suFailures, suCrashes>>
    BY <1>4 DEF Startup!vars, Startup!project, Startup!bounded
  <2>2. LeaseTyped' /\ FilesTyped' /\ StartsTyped'
    BY <2>1 DEF StartInv, LeaseTyped, FilesTyped, StartsTyped
  <2>3. OneHolder' /\ HolderLeased' /\ ProjectionsOwn'
    BY <2>1 DEF StartInv, OneHolder, HolderLeased, ProjectionsOwn
  <2>4. ClaimFirst' /\ ChildReaped' /\ NothingLeft'
    BY <2>1 DEF StartInv, ClaimFirst, ChildReaped, NothingLeft, NothingOf
  <2> QED BY <2>2, <2>3, <2>4 DEF StartInv
<1>5. CASE Startup!Next
  BY <1>1, <1>2, <1>3, <1>5, StopPreserves, EnvironmentPreserves, Zenon DEF Startup!Next
<1> QED BY <1>4, <1>5

\* However many background starts of one project overlap, fail, time out, are
\* killed and cleaned up, and whatever stop_daemon does between their steps, a
\* serving daemon's lease, lock, pid and state files are its own, and a start
\* reported with cleanup_complete left nothing of its child (daemon.rs,
\* daemon_cmd.rs).
THEOREM StartsStayClean == SystemSpec => []StartsAreClean
<1> DEFINE Inv == part = "startup" => StartInv
<1>1. SystemInit => Inv
  BY StartStarts DEF SystemInit
<1>2. Inv /\ [SystemNext]_all => Inv'
  <2> SUFFICES ASSUME Inv, [SystemNext]_all, part' = "startup" PROVE StartInv'
    OBVIOUS
  <2>1. CASE SystemNext
    <3>1. part = "startup" /\ Startup!Next
      BY <2>1 DEF SystemNext, Step
    <3> QED BY <3>1, StartSteps
  <2>2. CASE UNCHANGED all
    <3>1. part' = part /\ UNCHANGED startupVars
      BY <2>2 DEF all
    <3>2. UNCHANGED Startup!vars
      BY <3>1 DEF startupVars, Startup!vars, Startup!project, Startup!bounded
    <3> QED BY <3>1, <3>2, StartSteps
  <2> QED BY <2>1, <2>2
<1>3. Inv => StartsAreClean
  <2> SUFFICES ASSUME StartInv
               PROVE  Startup!TypeOK /\ Startup!ServingIsUntouched /\ Startup!FailedStartLeavesNothing
    BY DEF StartsAreClean
  <2>1. Startup!TypeOK
    BY DEF StartInv, LeaseTyped, FilesTyped, StartsTyped, Startup!TypeOK, Startup!Gens, Startup!LeaseType,
           Leases, Identities, States, FrameFiles
  <2>2. Startup!ServingIsUntouched
    <3> SUFFICES ASSUME NEW l \in Launchers, child[l] = "running"
                 PROVE  /\ suLock = Startup!Child(l) /\ Startup!ActiveLease /\ Startup!Identity(suLease) = Startup!Me(l)
                        /\ suPidFile = Startup!Me(l)
                        /\ stateFile = [proc |-> Startup!Child(l), status |-> "running"]
      BY DEF Startup!ServingIsUntouched
    <3>1. child[l] \in Shown /\ child[l] \in Holding
      BY DEF Shown, Holding, Claimed
    <3>2. suLock = Startup!Child(l) /\ suLock # None
      BY <3>1, ProcsDiffer DEF StartInv, OneHolder
    <3>3. suLease # None /\ suLease.proc = Startup!Child(l) /\ suLease.state = "active" /\ suLease.gen = suGen[l]
      BY <3>2 DEF StartInv, HolderLeased
    <3>4. /\ stateFile = [proc |-> Startup!Child(l), status |-> "running"]
          /\ suPidFile = [proc |-> Startup!Child(l), gen |-> suGen[l]]
      BY <3>1 DEF StartInv, ProjectionsOwn
    <3> QED BY <3>2, <3>3, <3>4 DEF Startup!ActiveLease, Startup!Identity, Startup!Me
  <2>3. Startup!FailedStartLeavesNothing
    <3>1. "failed_clean" \in Ending /\ "exited" \notin Holding
      BY DEF Ending, Holding, Claimed, Shown
    <3> QED BY <3>1 DEF StartInv, ChildReaped, NothingLeft, NothingOf, OneHolder, Startup!FailedStartLeavesNothing,
                 Startup!Exited, Startup!ActiveLease, Startup!Running
  <2> QED BY <2>1, <2>2, <2>3
<1> QED
  BY <1>1, <1>2, <1>3, PTL DEF SystemSpec

-----------------------------------------------------------------------------
(* DaemonControl.                                                            *)

Ops == {"status", "mutate", "shutdown"}
Answers == [send : Control!Sends, op : Ops]
InHand == {"quarantine", "execute", "respond", "remove", "evidence", "stop", "pid"}
LoopAt == {"off", "loop", "scan", "release", "service_scan", "synthesise", "error"} \cup InHand
ClientAt == {"idle", "clear", "write", "wait", "answered", "timed_out", "refused"}
Asking == [pc : ClientAt, n : 0..MaxSends, target : 0..CtMaxGen]
FileWork == [id : Control!Ids, send : Control!SendType]
OwnSend(g) == [client |-> None, n |-> 0, target |-> g, op |-> "shutdown"]
OwnWork == {[id |-> -1, send |-> OwnSend(g)] : g \in 1..CtMaxGen}

OwnerTyped ==
  /\ ctGen \in 0..CtMaxGen /\ ctPidFile \in 0..CtMaxGen /\ evidence \in 0..CtMaxGen /\ drained \subseteq 1..CtMaxGen
  /\ ctLease \in {"none", "active", "released"} /\ status \in {"none", "running", "stopped"}
  /\ live \in BOOLEAN /\ token \in BOOLEAN
MailboxTyped ==
  /\ requests \in [Control!Ids -> Control!SendType \cup {None}] /\ responses \in [Control!Ids -> Answers \cup {None}]
  /\ rejected \subseteq Control!Sends
LoopTyped ==
  /\ ctPc \in LoopAt /\ ctScan \subseteq Control!Ids /\ client \in [Clients -> Asking]
  /\ executed \in [Control!Sends -> 0..1]

\* Send s is one of its client's, under the client's id, and no longer to be written.
Written(s, i) ==
  /\ CtId[s.client] = i /\ CtOp[s.client] = s.op /\ s.target =< ctGen /\ s.n =< client[s.client].n
  /\ s.n = client[s.client].n => client[s.client].pc \notin {"clear", "write"}

\* A client that is about to send asks a generation that there is.
ClientsBound ==
  \A c \in Clients : client[c].pc \in {"clear", "write", "wait"} =>
    client[c].n \in 1..MaxSends /\ client[c].target \in 1..CtMaxGen /\ client[c].target =< ctGen

RequestsOwned == \A i \in Control!Ids : requests[i] # None => Written(requests[i], i)

\* What the loop has in hand was a request file, or is its own shutdown.
HandOwned ==
  /\ ctPc \in InHand => ctCur \in FileWork \cup OwnWork
  /\ ctPc = "quarantine" => ctCur \in FileWork
  /\ ctPc \in InHand /\ ctCur \in FileWork => Written(ctCur.send, ctCur.id)
  /\ ctPc \in {"respond", "remove"} /\ ctCur \in FileWork /\ ctCur.send.op = "mutate" =>
       executed[Control!Key(ctCur.send)] = 1
  /\ ctPc \in {"evidence", "stop", "pid"} => ctCur.send.op = "shutdown"
  /\ ctPc \in {"scan", "service_scan"} => ctScan # {}

\* A send that was executed is not written again, is not about to be executed,
\* and its file is stale, or about to be removed, or its daemon is dead.
ExecutedIsPast ==
  \A k \in Control!Sends : executed[k] = 1 =>
    /\ k.n =< client[k.client].n /\ (k.n = client[k.client].n => client[k.client].pc \notin {"clear", "write"})
    /\ ctPc = "execute" /\ ctCur \in FileWork => Control!Key(ctCur.send) # k
    /\ \A i \in Control!Ids : requests[i] # None /\ Control!Key(requests[i]) = k =>
         \/ ctPc = "off" \/ requests[i].target < ctGen
         \/ ctPc \in {"respond", "remove"} /\ ctCur \in FileWork /\ ctCur.id = i

\* A response is to a send of a client with its id, and a mutation's was executed.
AnswersEarned ==
  \A i \in Control!Ids : responses[i] # None =>
    /\ CtId[responses[i].send.client] = i /\ CtOp[responses[i].send.client] = responses[i].op
    /\ responses[i].send.n =< client[responses[i].send.client].n
    /\ responses[i].op = "mutate" => executed[responses[i].send] = 1

\* Evidence is of a drained generation.
DrainShown ==
  /\ evidence # 0 => evidence \in drained
  /\ ctPc = "evidence" => ctGen \in drained
  /\ ctPc # "off" => ctGen > 0
  /\ ctGen = 0 => status = "none"

ControlInv ==
  /\ OwnerTyped /\ MailboxTyped /\ LoopTyped
  /\ ClientsBound /\ RequestsOwned /\ HandOwned /\ ExecutedIsPast /\ AnswersEarned /\ DrainShown /\ Control!AnswerIsOwn

LEMMA CtConstants ==
  /\ Control!Ids \subseteq Nat /\ -1 \notin Control!Ids
  /\ \A c \in Clients : CtId[c] \in Control!Ids /\ CtOp[c] \in Ops
  /\ None \notin Control!SendType /\ None \notin Answers
  /\ MaxSends \in Nat /\ CtMaxGen \in Nat
<1>1. Control!Ids \subseteq Nat
  BY ControlAssumption DEF Control!Ids
<1>2. -1 \notin Control!Ids
  BY <1>1
<1>3. \A c \in Clients : CtId[c] \in Control!Ids /\ CtOp[c] \in Ops
  BY ControlAssumption DEF Control!Ids, Ops
<1>4. None \notin Control!SendType /\ None \notin Answers
  BY ControlAssumption DEF Control!SendType, Answers, Control!Sends, Ops
<1> QED BY <1>1, <1>2, <1>3, <1>4, ControlAssumption

LEMMA SendFacts ==
  \A s \in Control!SendType :
    /\ s.client \in Clients /\ s.n \in 1..MaxSends /\ s.target \in 1..CtMaxGen /\ s.op \in Ops
    /\ Control!Key(s) \in Control!Sends /\ Control!Key(s).client = s.client /\ Control!Key(s).n = s.n
BY DEF Control!SendType, Control!Key, Control!Sends, Ops

LEMMA KeysDiffer ==
  \A k, j \in Control!Sends : k.client = j.client /\ k.n = j.n => k = j
BY DEF Control!Sends

LEMMA WorkFacts ==
  /\ \A w \in FileWork : w.id \in Control!Ids /\ w.send \in Control!SendType
  /\ \A w \in OwnWork : w.id = -1 /\ w.id \notin Control!Ids /\ w.send.op = "shutdown"
  /\ FileWork \cap OwnWork = {}
<1>1. \A w \in FileWork : w.id \in Control!Ids /\ w.send \in Control!SendType
  BY DEF FileWork
<1>2. \A w \in OwnWork : w.id = -1 /\ w.send.op = "shutdown"
  BY DEF OwnWork, OwnSend
<1> QED BY <1>1, <1>2, CtConstants

LEMMA SmallestId ==
  ASSUME NEW S, S \subseteq Control!Ids, S # {}
  PROVE  Control!Min(S) \in S
<1> DEFINE R == OpToRel(<, Nat)
<1>1. IsWellFoundedOn(R, Nat)
  BY NatLessThanWellFounded
<1>2. S \subseteq Nat
  BY CtConstants
<1>3. PICK x \in S : \A y \in S : ~(<<y, x>> \in R)
  <2> HIDE DEF R
  <2> QED BY <1>1, <1>2, WFMin
<1>4. \A y \in S : ~(y < x)
  BY <1>2, <1>3 DEF OpToRel
<1>5. \A y \in S : x =< y
  BY <1>2, <1>4
<1> QED BY <1>5 DEF Control!Min

LEMMA ControlStarts == Control!Init => ControlInv
<1> SUFFICES ASSUME Control!Init PROVE ControlInv
  OBVIOUS
<1>1. OwnerTyped
  <2>1. ctGen \in 0..CtMaxGen /\ ctPidFile \in 0..CtMaxGen /\ evidence \in 0..CtMaxGen /\ drained \subseteq 1..CtMaxGen
    BY CtConstants DEF Control!Init
  <2>2. live \in BOOLEAN /\ token \in BOOLEAN
    BY Zenon DEF Control!Init
  <2> QED BY <2>1, <2>2 DEF Control!Init, OwnerTyped
<1>m. MailboxTyped
  BY DEF Control!Init, MailboxTyped
<1>2. LoopTyped
  <2>1. [pc |-> "idle", n |-> 0, target |-> 0] \in Asking
    BY CtConstants DEF Asking, ClientAt
  <2> QED BY <2>1 DEF Control!Init, LoopTyped, LoopAt
<1>3. ClientsBound /\ RequestsOwned /\ AnswersEarned
  BY DEF Control!Init, ClientsBound, RequestsOwned, AnswersEarned
<1>4. HandOwned /\ ExecutedIsPast
  BY DEF Control!Init, HandOwned, ExecutedIsPast, InHand
<1>5. DrainShown /\ Control!AnswerIsOwn
  BY DEF Control!Init, DrainShown, Control!AnswerIsOwn
<1> QED BY <1>1, <1>m, <1>2, <1>3, <1>4, <1>5 DEF ControlInv

-----------------------------------------------------------------------------
(* The clients.                                                              *)

\* A client's sends are numbered, and it writes a number once.
ClientsAdvance ==
  \A c \in Clients :
    /\ client'[c].n >= client[c].n
    /\ client'[c].pc \in {"clear", "write"} => client[c].pc \in {"clear", "write"} \/ client'[c].n > client[c].n

LEMMA WrittenStays ==
  ASSUME LoopTyped, client' \in [Clients -> Asking], ClientsAdvance, ctGen \in Nat, ctGen' \in Nat, ctGen =< ctGen',
         NEW s \in Control!SendType, NEW i, Written(s, i)
  PROVE  Written(s, i)'
<1>1. s.client \in Clients /\ s.n \in Nat /\ s.target \in Nat
  BY SendFacts, CtConstants
<1>2. client[s.client] \in Asking /\ client'[s.client] \in Asking
  BY <1>1 DEF LoopTyped
<1>3. client[s.client].n \in Nat /\ client'[s.client].n \in Nat
  BY <1>2, CtConstants DEF Asking
<1> QED BY <1>1, <1>3 DEF Written, ClientsAdvance

LEMMA ClientsMove ==
  ASSUME ControlInv, client' \in [Clients -> Asking], ClientsAdvance,
         UNCHANGED <<ctGen, ctLease, live, status, ctPidFile, evidence, drained, rejected, ctPc, ctScan, ctCur, token>>,
         UNCHANGED executed,
         requests' \in [Control!Ids -> Control!SendType \cup {None}],
         \A i \in Control!Ids : requests'[i] # None =>
            \/ requests'[i] = requests[i]
            \/ Written(requests[i], i)' /\ executed[Control!Key(requests'[i])] = 0,
         responses' \in [Control!Ids -> Answers \cup {None}],
         \A i \in Control!Ids : responses'[i] # None => responses'[i] = responses[i],
         ClientsBound', Control!AnswerIsOwn'
  PROVE  ControlInv'
<1> USE DEF ControlInv
<1>g. ctGen \in Nat /\ ctGen' = ctGen
  BY CtConstants DEF OwnerTyped
<1>1. OwnerTyped' /\ MailboxTyped' /\ LoopTyped'
  BY DEF OwnerTyped, MailboxTyped, LoopTyped
<1>2. RequestsOwned'
  <2> SUFFICES ASSUME NEW i \in Control!Ids, requests'[i] # None PROVE Written(requests[i], i)'
    BY DEF RequestsOwned
  <2>1. CASE requests'[i] = requests[i]
    <3>1. requests[i] \in Control!SendType /\ Written(requests[i], i)
      BY <2>1 DEF MailboxTyped, RequestsOwned
    <3>2. PICK s \in Control!SendType : s = requests[i] /\ Written(s, i)
      BY <3>1
    <3>3. Written(s, i)'
      BY <1>g, <3>2, WrittenStays
    <3> QED BY <2>1, <3>2, <3>3 DEF Written
  <2> QED BY <2>1
<1>3. HandOwned'
  <2>1. ctPc \in InHand /\ ctCur \in FileWork => Written(ctCur.send, ctCur.id)'
    <3> SUFFICES ASSUME ctPc \in InHand, ctCur \in FileWork PROVE Written(ctCur.send, ctCur.id)'
      OBVIOUS
    <3>1. ctCur.send \in Control!SendType /\ Written(ctCur.send, ctCur.id)
      BY WorkFacts DEF HandOwned
    <3>2. PICK s \in Control!SendType : s = ctCur.send
      BY <3>1
    <3>i. PICK i \in Control!Ids : i = ctCur.id
      BY WorkFacts
    <3>3. Written(s, i)
      BY <3>1, <3>2, <3>i
    <3>4. Written(s, i)'
      BY <1>g, <3>3, WrittenStays
    <3> QED BY <3>2, <3>4, <3>i DEF Written
  <2> QED BY <2>1 DEF HandOwned
<1>4. ExecutedIsPast'
  <2> SUFFICES ASSUME NEW k \in Control!Sends, executed[k] = 1
               PROVE  /\ k.n =< client'[k.client].n
                      /\ k.n = client'[k.client].n => client'[k.client].pc \notin {"clear", "write"}
                      /\ ctPc = "execute" /\ ctCur \in FileWork => Control!Key(ctCur.send) # k
                      /\ \A i \in Control!Ids : requests'[i] # None /\ Control!Key(requests'[i]) = k =>
                           \/ ctPc = "off" \/ requests'[i].target < ctGen
                           \/ ctPc \in {"respond", "remove"} /\ ctCur \in FileWork /\ ctCur.id = i
    BY DEF ExecutedIsPast
  <2>1. k.client \in Clients /\ k.n \in Nat
    BY CtConstants DEF Control!Sends
  <2>2. client[k.client] \in Asking /\ client'[k.client] \in Asking
    BY <2>1 DEF LoopTyped
  <2>3. client[k.client].n \in Nat /\ client'[k.client].n \in Nat
    BY <2>2, CtConstants DEF Asking
  <2>4. k.n =< client[k.client].n /\ (k.n = client[k.client].n => client[k.client].pc \notin {"clear", "write"})
    BY DEF ExecutedIsPast
  <2>5. k.n =< client'[k.client].n /\ (k.n = client'[k.client].n => client'[k.client].pc \notin {"clear", "write"})
    BY <2>1, <2>3, <2>4 DEF ClientsAdvance
  <2>6. \A i \in Control!Ids : requests'[i] # None /\ Control!Key(requests'[i]) = k =>
                           \/ ctPc = "off" \/ requests'[i].target < ctGen
                           \/ ctPc \in {"respond", "remove"} /\ ctCur \in FileWork /\ ctCur.id = i
    BY DEF ExecutedIsPast
  <2>7. ctPc = "execute" /\ ctCur \in FileWork => Control!Key(ctCur.send) # k
    BY DEF ExecutedIsPast
  <2> QED BY <2>5, <2>6, <2>7
<1>5. AnswersEarned'
  <2> SUFFICES ASSUME NEW i \in Control!Ids, responses'[i] # None
               PROVE  /\ CtId[responses[i].send.client] = i /\ CtOp[responses[i].send.client] = responses[i].op
                      /\ responses[i].send.n =< client'[responses[i].send.client].n
                      /\ responses[i].op = "mutate" => executed[responses[i].send] = 1
    BY DEF AnswersEarned
  <2>1. responses[i] \in Answers
    BY DEF MailboxTyped
  <2>2. responses[i].send.client \in Clients /\ responses[i].send.n \in Nat
    BY <2>1, CtConstants DEF Answers, Control!Sends
  <2>3. client[responses[i].send.client].n \in Nat /\ client'[responses[i].send.client].n \in Nat
    BY <2>2, CtConstants DEF LoopTyped, Asking
  <2>4. responses[i] # None
    OBVIOUS
  <2> QED BY <2>2, <2>3, <2>4 DEF AnswersEarned, ClientsAdvance
<1>6. DrainShown'
  BY DEF DrainShown
<1> QED BY <1>1, <1>2, <1>3, <1>4, <1>5, <1>6

LEMMA ClientPreserves ==
  ASSUME NEW c \in Clients, ControlInv, Control!ClientSteps(c)
  PROVE  ControlInv'
<1>t. /\ client \in [Clients -> Asking] /\ client[c] \in Asking /\ CtId[c] \in Control!Ids /\ CtOp[c] \in Ops
      /\ requests \in [Control!Ids -> Control!SendType \cup {None}] /\ responses \in [Control!Ids -> Answers \cup {None}]
      /\ executed \in [Control!Sends -> 0..1]
  BY CtConstants DEF ControlInv, LoopTyped, MailboxTyped
<1>n. \A b \in Clients : client[b].n \in Nat /\ client[b] \in Asking
  BY <1>t, CtConstants DEF Asking
<1>g. ctGen \in 0..CtMaxGen /\ ctGen \in Nat
  BY CtConstants DEF ControlInv, OwnerTyped
<1>u. /\ UNCHANGED <<ctGen, ctLease, live, status, ctPidFile, evidence, drained, rejected, ctPc, ctScan, ctCur, token>>
      /\ UNCHANGED executed
  BY DEF Control!ClientSteps, Control!Bind, Control!ClearResponse, Control!WriteRequest, Control!Receive, Control!Timeout,
         Control!owner, Control!files, Control!daemon
\* A move to another place, without a new number.
<1>m. ASSUME NEW w \in ClientAt, client' = [client EXCEPT ![c].pc = w],
             w \in {"clear", "write"} => client[c].pc \in {"clear", "write"},
             w \in {"write", "wait"} => client[c].pc \in {"clear", "write"}, w # "clear",
             w = "answered" /\ CtOp[c] = "mutate" /\ (\A b \in Clients \ {c} : CtId[b] # CtId[c])
               => \E m \in 1..client[c].n : executed[[client |-> c, n |-> m]] > 0
      PROVE  client' \in [Clients -> Asking] /\ ClientsAdvance /\ ClientsBound' /\ Control!AnswerIsOwn'
             /\ client'[c].pc = w /\ client'[c].n = client[c].n /\ client'[c].target = client[c].target
  <2> DEFINE r == [client[c] EXCEPT !.pc = w]
  <2>1. r \in Asking /\ r.pc = w /\ r.n = client[c].n /\ r.target = client[c].target
    BY <1>t DEF Asking
  <2>2. client' = [client EXCEPT ![c] = r]
    BY <1>m, <1>t
  <2> HIDE DEF r
  <2>3. client' \in [Clients -> Asking] /\ client'[c] = r /\ \A b \in Clients \ {c} : client'[b] = client[b]
    BY <1>t, <2>1, <2>2
  <2>4. ClientsAdvance
    BY <1>m, <1>n, <2>1, <2>3 DEF ClientsAdvance
  <2>5. ClientsBound'
    BY <1>m, <1>u, <2>1, <2>3 DEF ClientsBound, ControlInv
  <2>6. Control!AnswerIsOwn'
    BY <1>m, <1>u, <2>1, <2>3 DEF Control!AnswerIsOwn, ControlInv
  <2> QED BY <2>1, <2>3, <2>4, <2>5, <2>6
<1>1. CASE Control!Bind(c)
  <2>f. UNCHANGED <<requests, responses>>
    BY <1>1 DEF Control!Bind, Control!files
  <2>1. CASE /\ Control!Available /\ client[c].pc \in {"idle", "timed_out"} /\ client[c].n < MaxSends
             /\ client' = [client EXCEPT ![c] = [pc |-> "clear", n |-> client[c].n + 1, target |-> ctGen]]
    <3>1. PICK m \in 1..MaxSends : m = client[c].n + 1
      BY <1>n, <2>1, CtConstants
    <3>2. ctGen \in 1..CtMaxGen
      BY <1>g, <2>1 DEF Control!Available, ControlInv, DrainShown
    <3> DEFINE r == [pc |-> "clear", n |-> m, target |-> ctGen]
    <3>3. r \in Asking /\ r.pc = "clear" /\ r.n = m /\ r.target = ctGen
      <4>1. m \in 0..MaxSends
        BY CtConstants
      <4> QED BY <1>g, <4>1 DEF Asking, ClientAt
    <3>4. client' = [client EXCEPT ![c] = r]
      BY <2>1, <3>1
    <3> HIDE DEF r
    <3>5. client' \in [Clients -> Asking] /\ client'[c] = r /\ \A b \in Clients \ {c} : client'[b] = client[b]
      BY <1>t, <3>3, <3>4
    <3>6. m >= client[c].n /\ m > client[c].n
      BY <1>n, <3>1
    <3>7. ClientsAdvance
      BY <1>n, <3>3, <3>5, <3>6 DEF ClientsAdvance
    <3>8. ClientsBound'
      BY <1>g, <1>u, <3>2, <3>3, <3>5 DEF ClientsBound, ControlInv
    <3>9. Control!AnswerIsOwn'
      BY <1>u, <3>3, <3>5 DEF Control!AnswerIsOwn, ControlInv
    <3> QED BY <1>t, <1>u, <2>f, <3>5, <3>7, <3>8, <3>9, ClientsMove
  <2>2. CASE \E w \in {"answered", "refused"} :
               Control!Go(c, w) /\ (w = "answered" => CtOp[c] = "shutdown")
    <3>1. PICK w \in {"answered", "refused"} :
             client' = [client EXCEPT ![c].pc = w] /\ (w = "answered" => CtOp[c] = "shutdown")
      BY <2>2 DEF Control!Go
    <3>2. w \in ClientAt
      BY DEF ClientAt
    <3>3. client' \in [Clients -> Asking] /\ ClientsAdvance /\ ClientsBound' /\ Control!AnswerIsOwn'
      BY <1>m, <3>1, <3>2
    <3> QED BY <1>t, <1>u, <2>f, <3>3, ClientsMove
  <2> QED BY <1>1, <2>1, <2>2 DEF Control!Bind
<1>2. CASE Control!ClearResponse(c) \/ Control!Timeout(c)
  <2>1. PICK w \in {"write", "timed_out"} :
           client' = [client EXCEPT ![c].pc = w] /\ (w = "write" => client[c].pc = "clear")
    BY <1>2 DEF Control!ClearResponse, Control!Timeout, Control!Go
  <2>2. w \in ClientAt
    BY DEF ClientAt
  <2>3. client' \in [Clients -> Asking] /\ ClientsAdvance /\ ClientsBound' /\ Control!AnswerIsOwn'
    BY <1>m, <2>1, <2>2
  <2>4. requests' = requests /\ responses' \in [Control!Ids -> Answers \cup {None}]
        /\ \A i \in Control!Ids : responses'[i] # None => responses'[i] = responses[i]
    BY <1>2, <1>t DEF Control!ClearResponse, Control!Timeout, Control!files
  <2> QED BY <1>t, <1>u, <2>3, <2>4, ClientsMove
<1>3. CASE Control!WriteRequest(c)
  <2> DEFINE s == [client |-> c, n |-> client[c].n, target |-> client[c].target, op |-> CtOp[c]]
  <2>1. /\ client[c].pc = "write" /\ client' = [client EXCEPT ![c].pc = "wait"] /\ responses' = responses
        /\ requests' = [requests EXCEPT ![CtId[c]] = s]
    BY <1>3 DEF Control!WriteRequest, Control!Go, Control!SendOf
  <2>2. client[c].n \in 1..MaxSends /\ client[c].target \in 1..CtMaxGen /\ client[c].target =< ctGen
    BY <2>1 DEF ControlInv, ClientsBound
  <2>3. s \in Control!SendType
    BY <1>t, <2>2 DEF Control!SendType, Ops
  <2>4. s.client = c /\ s.n = client[c].n /\ s.target = client[c].target /\ s.op = CtOp[c]
    OBVIOUS
  <2>5. executed[Control!Key(s)] = 0
    <3>1. Control!Key(s) \in Control!Sends /\ Control!Key(s).client = c /\ Control!Key(s).n = client[c].n
      BY <2>3, <2>4, SendFacts
    <3>2. executed[Control!Key(s)] # 1
      BY <2>1, <3>1 DEF ControlInv, ExecutedIsPast
    <3> QED BY <1>t, <3>1, <3>2
  <2> HIDE DEF s
  <2>6. "wait" \in ClientAt
    BY DEF ClientAt
  <2>7. /\ client' \in [Clients -> Asking] /\ ClientsAdvance /\ ClientsBound' /\ Control!AnswerIsOwn'
        /\ client'[c].pc = "wait" /\ client'[c].n = client[c].n
    BY <1>m, <2>1, <2>6
  <2>8. /\ requests' \in [Control!Ids -> Control!SendType \cup {None}] /\ requests'[CtId[c]] = s
        /\ \A i \in Control!Ids \ {CtId[c]} : requests'[i] = requests[i]
    BY <1>t, <2>1, <2>3
  <2>9. Written(requests[CtId[c]], CtId[c])'
    BY <1>n, <1>u, <2>2, <2>4, <2>7, <2>8 DEF Written
  <2>10. \A i \in Control!Ids : requests'[i] # None =>
            \/ requests'[i] = requests[i]
            \/ Written(requests[i], i)' /\ executed[Control!Key(requests'[i])] = 0
    BY <2>5, <2>8, <2>9
  <2> QED BY <1>t, <1>u, <2>1, <2>7, <2>8, <2>10, ClientsMove
<1>4. CASE Control!Receive(c)
  <2>1. /\ client[c].pc = "wait" /\ client' = [client EXCEPT ![c].pc = "answered"] /\ responses' = responses
        /\ responses[CtId[c]] # None \/ CtOp[c] = "shutdown"
    BY <1>4 DEF Control!Receive, Control!Go
  <2>2. /\ requests' \in [Control!Ids -> Control!SendType \cup {None}]
        /\ \A i \in Control!Ids : requests'[i] # None => requests'[i] = requests[i]
    BY <1>4, <1>t DEF Control!Receive
  <2>3. ASSUME CtOp[c] = "mutate", \A b \in Clients \ {c} : CtId[b] # CtId[c]
        PROVE  \E m \in 1..client[c].n : executed[[client |-> c, n |-> m]] > 0
    <3>1. PICK r \in Answers : r = responses[CtId[c]]
      BY <1>t, <2>1, <2>3
    <3>2. r.send \in Control!Sends /\ r.op \in Ops
      BY DEF Answers
    <3>3. PICK b \in Clients, m \in 1..MaxSends : r.send = [client |-> b, n |-> m]
      BY <3>2 DEF Control!Sends
    <3>4. r.send.client = b /\ r.send.n = m
      BY <3>3
    <3>5. r # None
      BY CtConstants
    <3>6. /\ CtId[r.send.client] = CtId[c] /\ CtOp[r.send.client] = r.op /\ r.send.n =< client[r.send.client].n
          /\ r.op = "mutate" => executed[r.send] = 1
      BY <1>t, <3>1, <3>5 DEF ControlInv, AnswersEarned
    <3>7. b = c
      BY <2>3, <3>4, <3>6
    <3>8. m \in 1..client[c].n
      BY <1>n, <3>4, <3>6, <3>7, CtConstants
    <3>9. executed[[client |-> c, n |-> m]] = 1
      BY <2>3, <3>3, <3>4, <3>6, <3>7
    <3> QED BY <3>8, <3>9
  <2>6. "answered" \in ClientAt
    BY DEF ClientAt
  <2>7. client' \in [Clients -> Asking] /\ ClientsAdvance /\ ClientsBound' /\ Control!AnswerIsOwn'
    BY <1>m, <2>1, <2>3, <2>6
  <2> QED BY <1>t, <1>u, <2>1, <2>2, <2>7, ClientsMove
<1> QED BY <1>1, <1>2, <1>3, <1>4 DEF Control!ClientSteps

-----------------------------------------------------------------------------
(* The loop.                                                                 *)

\* Steps that leave the clients and the executions alone and write no request.
LEMMA LoopWorks ==
  ASSUME ControlInv, UNCHANGED <<client, executed>>, MailboxTyped', AnswersEarned',
         \A i \in Control!Ids : requests'[i] # None => requests'[i] = requests[i],
         OwnerTyped', ctPc' \in LoopAt, ctScan' \subseteq Control!Ids, ctGen =< ctGen', DrainShown',
         ctPc' \in InHand => ctCur' \in FileWork \cup OwnWork,
         ctPc' = "quarantine" => ctCur' \in FileWork,
         ctPc' \in {"evidence", "stop", "pid"} => ctCur'.send.op = "shutdown",
         ctPc' \in InHand /\ ctCur' \in FileWork =>
            \/ ctPc \in InHand /\ ctCur' = ctCur
            \/ ctCur'.id \in Control!Ids /\ ctCur'.send = requests[ctCur'.id],
         ctPc' \in {"respond", "remove"} /\ ctCur' \in FileWork /\ ctCur'.send.op = "mutate" =>
            ctPc \in {"respond", "remove"} /\ ctCur' = ctCur,
         ctPc' \in {"scan", "service_scan"} => ctScan' # {},
         \/ ctPc' = "off" \/ ctGen < ctGen' \/ ctPc \notin {"off", "respond", "remove"} \/ UNCHANGED <<ctPc, ctCur, ctGen>>
         \/ ctPc = "respond" /\ ctPc' = "remove" /\ ctCur' = ctCur
         \/ ctPc = "remove" /\ (ctCur \in FileWork => requests'[ctCur.id] = None),
         ctPc' = "execute" /\ ctCur' \in FileWork => \/ ctPc = "execute" /\ ctCur' = ctCur
                                                     \/ executed[Control!Key(ctCur'.send)] = 0
  PROVE  ControlInv'
<1> USE DEF ControlInv
<1>g. ctGen \in Nat /\ ctGen' \in Nat
  BY CtConstants DEF OwnerTyped
<1>1. LoopTyped'
  BY DEF LoopTyped
<1>2. ClientsBound'
  <2>1. \A c \in Clients : client[c].target \in 1..CtMaxGen => client[c].target \in Nat
    BY CtConstants
  <2> QED BY <1>g, <2>1 DEF ClientsBound
<1>r. \A i \in Control!Ids : requests[i] # None => requests[i] \in Control!SendType /\ requests[i].target \in Nat
  BY SendFacts, CtConstants DEF MailboxTyped
<1>3. RequestsOwned'
  <2> SUFFICES ASSUME NEW i \in Control!Ids, requests'[i] # None PROVE Written(requests[i], i)'
    BY DEF RequestsOwned
  <2>1. requests'[i] = requests[i] /\ Written(requests[i], i)
    BY DEF RequestsOwned
  <2> QED BY <1>g, <1>r, <2>1 DEF Written
<1>4. HandOwned'
  <2>1. ASSUME ctPc' \in InHand, ctCur' \in FileWork PROVE Written(ctCur.send, ctCur.id)'
    <3>1. ctCur'.send \in Control!SendType /\ ctCur'.id \in Control!Ids
      BY <2>1, WorkFacts
    <3>2. ctCur'.send.target \in Nat
      BY <3>1, SendFacts, CtConstants
    <3>3. CASE ctPc \in InHand /\ ctCur' = ctCur
      BY <1>g, <2>1, <3>2, <3>3 DEF HandOwned, Written
    <3>4. CASE ctCur'.send = requests[ctCur'.id]
      <4>1. requests[ctCur'.id] # None
        BY <3>1, <3>4, CtConstants
      <4>2. PICK i \in Control!Ids : i = ctCur'.id
        BY <3>1
      <4>3. Written(requests[i], i)
        BY <4>1, <4>2 DEF RequestsOwned
      <4> QED BY <1>g, <3>2, <3>4, <4>2, <4>3 DEF Written
    <3> QED BY <2>1, <3>3, <3>4
  <2>2. ctPc' \in {"respond", "remove"} /\ ctCur' \in FileWork /\ ctCur'.send.op = "mutate" =>
           executed[Control!Key(ctCur'.send)] = 1
    BY DEF HandOwned
  <2> QED BY <2>1, <2>2 DEF HandOwned
<1>5. ExecutedIsPast'
  <2> SUFFICES ASSUME NEW k \in Control!Sends, executed[k] = 1
               PROVE  /\ k.n =< client[k.client].n
                      /\ k.n = client[k.client].n => client[k.client].pc \notin {"clear", "write"}
                      /\ ctPc' = "execute" /\ ctCur' \in FileWork => Control!Key(ctCur'.send) # k
                      /\ \A i \in Control!Ids : requests'[i] # None /\ Control!Key(requests'[i]) = k =>
                           \/ ctPc' = "off" \/ requests'[i].target < ctGen'
                           \/ ctPc' \in {"respond", "remove"} /\ ctCur' \in FileWork /\ ctCur'.id = i
    BY DEF ExecutedIsPast
  <2>1. k.n =< client[k.client].n /\ (k.n = client[k.client].n => client[k.client].pc \notin {"clear", "write"})
    BY DEF ExecutedIsPast
  <2>2. ctPc' = "execute" /\ ctCur' \in FileWork => Control!Key(ctCur'.send) # k
    BY DEF ExecutedIsPast
  <2>3. ASSUME NEW i \in Control!Ids, requests'[i] # None, Control!Key(requests'[i]) = k
        PROVE  \/ ctPc' = "off" \/ requests'[i].target < ctGen'
               \/ ctPc' \in {"respond", "remove"} /\ ctCur' \in FileWork /\ ctCur'.id = i
    <3>0. requests'[i] = requests[i]
      BY <2>3
    <3>1. \/ ctPc = "off" \/ requests[i].target < ctGen
          \/ ctPc \in {"respond", "remove"} /\ ctCur \in FileWork /\ ctCur.id = i
      BY <2>3, <3>0 DEF ExecutedIsPast
    <3>2. requests[i].target =< ctGen /\ requests[i].target \in Nat
      BY <1>r, <2>3, <3>0 DEF RequestsOwned, Written
    <3> QED BY <1>g, <2>3, <3>0, <3>1, <3>2
  <2> QED BY <2>1, <2>2, <2>3
<1>7. Control!AnswerIsOwn'
  BY DEF Control!AnswerIsOwn
<1> QED BY <1>1, <1>2, <1>3, <1>4, <1>5, <1>7

\* Steps that leave the mailbox alone too.
LEMMA LoopMoves ==
  ASSUME ControlInv, UNCHANGED <<requests, responses, rejected, client, executed>>,
         OwnerTyped', ctPc' \in LoopAt, ctScan' \subseteq Control!Ids, ctGen =< ctGen', DrainShown',
         ctPc' \in InHand => ctCur' \in FileWork \cup OwnWork,
         ctPc' = "quarantine" => ctCur' \in FileWork,
         ctPc' \in {"evidence", "stop", "pid"} => ctCur'.send.op = "shutdown",
         ctPc' \in InHand /\ ctCur' \in FileWork =>
            \/ ctPc \in InHand /\ ctCur' = ctCur
            \/ ctCur'.id \in Control!Ids /\ ctCur'.send = requests[ctCur'.id],
         ctPc' \in {"respond", "remove"} /\ ctCur' \in FileWork /\ ctCur'.send.op = "mutate" =>
            ctPc \in {"respond", "remove"} /\ ctCur' = ctCur,
         ctPc' \in {"scan", "service_scan"} => ctScan' # {},
         \/ ctPc' = "off" \/ ctGen < ctGen' \/ ctPc \notin {"off", "respond", "remove"} \/ UNCHANGED <<ctPc, ctCur, ctGen>>,
         ctPc' = "execute" /\ ctCur' \in FileWork => \/ ctPc = "execute" /\ ctCur' = ctCur
                                                     \/ executed[Control!Key(ctCur'.send)] = 0
  PROVE  ControlInv'
<1>1. MailboxTyped' /\ AnswersEarned' /\ \A i \in Control!Ids : requests'[i] # None => requests'[i] = requests[i]
  BY DEF ControlInv, MailboxTyped, AnswersEarned
<1> QED BY <1>1, LoopWorks

\* A request of the generation at work was not executed before.
LEMMA PendingIsFresh ==
  ASSUME ControlInv, ctPc \in {"scan", "service_scan"}, NEW i \in Control!Ids, requests[i] # None,
         requests[i].target = ctGen
  PROVE  executed[Control!Key(requests[i])] = 0
<1>1. requests[i] \in Control!SendType
  BY DEF ControlInv, MailboxTyped
<1>2. Control!Key(requests[i]) \in Control!Sends
  BY <1>1, SendFacts
<1>3. ctGen \in Nat
  BY CtConstants DEF ControlInv, OwnerTyped
<1>4. executed[Control!Key(requests[i])] # 1
  BY <1>2, <1>3 DEF ControlInv, ExecutedIsPast
<1> QED BY <1>2, <1>4 DEF ControlInv, LoopTyped

LEMMA ReadPreserves ==
  ASSUME ControlInv, Control!ReadControlRequest \/ Control!PendingServiceShutdown
  PROVE  ControlInv'
<1>p. ctPc \in {"scan", "service_scan"}
  BY DEF Control!ReadControlRequest, Control!PendingServiceShutdown
<1>i. PICK i \in ctScan : i = Control!Min(ctScan)
  BY <1>p, SmallestId DEF ControlInv, LoopTyped, HandOwned
<1>j. i \in Control!Ids /\ requests[i] \in Control!SendType \cup {None} /\ ctScan' = ctScan \ {i}
  BY <1>i DEF ControlInv, LoopTyped, MailboxTyped, Control!ReadControlRequest, Control!PendingServiceShutdown
<1>u. /\ UNCHANGED <<requests, responses, rejected, client, executed>>
      /\ UNCHANGED <<ctGen, ctLease, live, status, ctPidFile, evidence, drained, token>>
  BY DEF Control!ReadControlRequest, Control!PendingServiceShutdown, Control!owner, Control!files
<1>g. ctGen \in Nat /\ ctGen' = ctGen
  BY <1>u, CtConstants DEF ControlInv, OwnerTyped
<1>1. OwnerTyped' /\ ctScan' \subseteq Control!Ids
  BY <1>j, <1>u DEF ControlInv, OwnerTyped, LoopTyped
<1>2. \/ ctPc' \in {"loop", "synthesise"}
      \/ ctPc' \in {"scan", "service_scan"} /\ ctScan # {i}
      \/ /\ requests[i] # None /\ ctCur' = [id |-> i, send |-> requests[i]]
         /\ ctPc' = "quarantine" \/ (ctPc' = "execute" /\ requests[i].target = ctGen)
  BY <1>i DEF Control!ReadControlRequest, Control!PendingServiceShutdown, Control!GoDaemon, Control!ValidGeneration
<1>s. InHand \cap {"loop", "scan", "service_scan", "synthesise"} = {} /\ InHand \subseteq LoopAt
      /\ {"loop", "scan", "service_scan", "synthesise"} \subseteq LoopAt /\ {"quarantine", "execute"} \subseteq InHand
  BY DEF InHand, LoopAt
<1>3. DrainShown'
  BY <1>2, <1>p, <1>u DEF ControlInv, DrainShown
<1>4. CASE ctPc' \in {"loop", "synthesise"} \/ (ctPc' \in {"scan", "service_scan"} /\ ctScan # {i})
  <2>1. ctPc' \in {"scan", "service_scan"} => ctScan' # {}
    BY <1>4, <1>i, <1>j
  <2>2. ctPc' \in LoopAt /\ ctPc' \notin InHand /\ ctPc' \notin {"quarantine", "respond", "remove", "execute", "evidence", "stop", "pid"}
    BY <1>4, <1>s
  <2> QED BY <1>1, <1>3, <1>g, <1>p, <1>u, <2>1, <2>2, LoopMoves
<1>5. CASE /\ requests[i] # None /\ ctCur' = [id |-> i, send |-> requests[i]]
           /\ ctPc' = "quarantine" \/ (ctPc' = "execute" /\ requests[i].target = ctGen)
  <2>1. ctCur' \in FileWork /\ ctCur'.id = i /\ ctCur'.send = requests[i]
    BY <1>5, <1>j DEF FileWork
  <2>2. ctPc' = "execute" => executed[Control!Key(ctCur'.send)] = 0
    BY <1>5, <1>j, <1>p, <2>1, PendingIsFresh
  <2>3. ctPc' \in LoopAt
    BY <1>5, <1>s
  <2> QED BY <1>1, <1>3, <1>5, <1>g, <1>j, <1>p, <1>u, <2>1, <2>2, <2>3, LoopMoves
<1> QED BY <1>2, <1>4, <1>5

LEMMA QuietLoop ==
  ASSUME ControlInv,
         \/ Control!PendingControlRequests \/ Control!ServiceStop \/ Control!Synthesise \/ Control!TickFails
         \/ Control!RequestStop \/ Control!Start \/ Control!Crash \/ Control!EndWithError
  PROVE  ControlInv'
<1>u. UNCHANGED <<requests, responses, rejected, client, executed, evidence, drained>>
  BY DEF Control!PendingControlRequests, Control!ServiceStop, Control!Synthesise, Control!TickFails, Control!RequestStop,
         Control!Start, Control!Crash, Control!EndWithError, Control!owner, Control!files
<1>t. OwnerTyped /\ ctPc \in LoopAt /\ ctScan \subseteq Control!Ids /\ ctGen \in Nat /\ DrainShown
  BY CtConstants DEF ControlInv, OwnerTyped, LoopTyped
<1>s. /\ InHand \cap {"off", "loop", "scan", "service_scan", "synthesise", "error", "release"} = {} /\ "execute" \in InHand
      /\ {"off", "loop", "scan", "service_scan", "synthesise", "error", "execute"} \subseteq LoopAt
  BY DEF InHand, LoopAt
<1>1. CASE Control!PendingControlRequests \/ Control!ServiceStop
  <2>1. /\ ctPc = "loop" /\ ctScan' = Control!Pending
        /\ ctPc' \in {"loop", "synthesise"} \/ (ctPc' \in {"scan", "service_scan"} /\ Control!Pending # {})
        /\ UNCHANGED <<ctGen, ctLease, live, status, ctPidFile, token>>
    BY <1>1 DEF Control!PendingControlRequests, Control!ServiceStop, Control!GoDaemon, Control!owner
  <2>2. ctScan' \subseteq Control!Ids
    BY <2>1 DEF Control!Pending
  <2>3. OwnerTyped' /\ DrainShown'
    BY <1>t, <1>u, <2>1 DEF OwnerTyped, DrainShown
  <2> QED BY <1>s, <1>t, <1>u, <2>1, <2>2, <2>3, LoopMoves
<1>2. CASE Control!Synthesise
  <2>1. /\ ctPc = "synthesise" /\ ctPc' = "execute" /\ UNCHANGED <<ctGen, ctLease, live, status, ctPidFile, token, ctScan>>
        /\ ctCur' = [id |-> -1, send |-> [Control!NoSend EXCEPT !.op = "shutdown", !.target = ctGen]]
    BY <1>2 DEF Control!Synthesise, Control!GoDaemon, Control!owner
  <2>2. [Control!NoSend EXCEPT !.op = "shutdown", !.target = ctGen] = OwnSend(ctGen)
    <3> DEFINE r == [Control!NoSend EXCEPT !.op = "shutdown"]
    <3>1. PICK s : s = r
      OBVIOUS
    <3>2. s = [client |-> None, n |-> 0, target |-> 0, op |-> "shutdown"]
      BY <3>1 DEF Control!NoSend
    <3>3. [s EXCEPT !.target = ctGen] = OwnSend(ctGen)
      BY <3>2 DEF OwnSend
    <3> QED BY <3>1, <3>3
  <2>3. ctGen \in 1..CtMaxGen
    BY <1>t, <2>1, CtConstants DEF OwnerTyped, DrainShown
  <2>4. ctCur' \in OwnWork
    BY <2>1, <2>2, <2>3 DEF OwnWork
  <2>5. ctCur' \notin FileWork
    BY <2>4, WorkFacts
  <2>6. OwnerTyped' /\ DrainShown'
    BY <1>t, <1>u, <2>1 DEF OwnerTyped, DrainShown
  <2> QED BY <1>s, <1>t, <1>u, <2>1, <2>4, <2>5, <2>6, LoopMoves
<1>3. CASE Control!TickFails
  <2>1. /\ ctPc = "loop" /\ ctPc' = "error" /\ UNCHANGED <<ctGen, ctLease, live, status, ctPidFile, token, ctScan>>
    BY <1>3 DEF Control!TickFails, Control!GoDaemon, Control!owner
  <2>6. OwnerTyped' /\ DrainShown'
    BY <1>t, <1>u, <2>1 DEF OwnerTyped, DrainShown
  <2> QED BY <1>s, <1>t, <1>u, <2>1, <2>6, LoopMoves
<1>4. CASE Control!RequestStop
  <2>1. /\ token' = TRUE /\ UNCHANGED <<ctGen, ctLease, live, status, ctPidFile, ctScan, ctPc, ctCur>>
    BY <1>4 DEF Control!RequestStop, Control!owner
  <2>6. OwnerTyped' /\ DrainShown'
    BY <1>t, <1>u, <2>1 DEF OwnerTyped, DrainShown
  <2>7. HandOwned
    BY DEF ControlInv
  <2> QED BY <1>s, <1>t, <1>u, <2>1, <2>6, <2>7, LoopMoves DEF HandOwned
<1>5. CASE Control!Start
  <2>1. /\ ctGen < CtMaxGen /\ ctGen' = ctGen + 1 /\ ctLease' = "active" /\ live' = TRUE /\ status' = "running"
        /\ ctPidFile' = ctGen + 1 /\ ctPc' = "loop" /\ ctScan' = {} /\ token' = FALSE
    BY <1>5 DEF Control!Start, Control!GoDaemon
  <2>2. PICK g \in 1..CtMaxGen : g = ctGen + 1 /\ ctGen' = g /\ ctPidFile' = g /\ ctGen < g /\ g \in 0..CtMaxGen /\ g > 0
    BY <1>t, <2>1, CtConstants
  <2>3. live' \in BOOLEAN /\ token' \in BOOLEAN
    BY <2>1, Zenon
  <2>6. OwnerTyped' /\ DrainShown'
    BY <1>t, <1>u, <2>1, <2>2, <2>3 DEF OwnerTyped, DrainShown
  <2>7. ctGen =< ctGen' /\ ctGen < ctGen'
    BY <1>t, <2>1
  <2> QED BY <1>s, <1>t, <1>u, <2>1, <2>6, <2>7, LoopMoves
<1>6. CASE Control!Crash \/ Control!EndWithError
  <2>1. /\ ctPc # "off" /\ ctPc' = "off" /\ ctScan' = {} /\ live' = FALSE /\ UNCHANGED <<ctGen, token>>
        /\ ctLease' \in {ctLease, "released"} /\ status' \in {status, "stopped"} /\ ctPidFile' \in {ctPidFile, 0}
    BY <1>6 DEF Control!Crash, Control!EndWithError, Control!GoDaemon
  <2>2. ctPidFile' \in 0..CtMaxGen
    BY <1>t, <2>1, CtConstants DEF OwnerTyped
  <2>3. live' \in BOOLEAN
    BY <2>1, Zenon
  <2>6. OwnerTyped' /\ DrainShown'
    BY <1>t, <1>u, <2>1, <2>2, <2>3 DEF OwnerTyped, DrainShown
  <2> QED BY <1>s, <1>t, <1>u, <2>1, <2>6, LoopMoves
<1> QED BY <1>1, <1>2, <1>3, <1>4, <1>5, <1>6

\* drain, evidence, stopped, pid file and release, one durable effect at a time.
LEMMA ShutdownPreserves ==
  ASSUME ControlInv,
         \/ Control!Drain \/ Control!WriteEvidence \/ Control!WriteStopped \/ Control!RemovePid \/ Control!Release
  PROVE  ControlInv'
<1>u. UNCHANGED <<requests, responses, rejected, client, executed, ctGen, token, ctCur>>
  BY DEF Control!Drain, Control!WriteEvidence, Control!WriteStopped, Control!RemovePid, Control!Release, Control!files
<1>t. OwnerTyped /\ ctPc \in LoopAt /\ ctScan \subseteq Control!Ids /\ ctGen \in Nat /\ DrainShown /\ HandOwned
  BY CtConstants DEF ControlInv, OwnerTyped, LoopTyped
<1>g. ctPc # "off" => ctGen \in 1..CtMaxGen
  BY <1>t, CtConstants DEF OwnerTyped, DrainShown
<1>s. /\ InHand \cap {"off", "error"} = {} /\ {"execute", "evidence", "stop", "pid", "respond"} \subseteq InHand
      /\ {"off", "error", "evidence", "stop", "pid", "respond"} \subseteq LoopAt
  BY DEF InHand, LoopAt
<1>1. CASE Control!Drain
  <2>1. /\ ctPc = "execute" /\ ctCur.send.op = "shutdown" /\ UNCHANGED <<ctLease, live, status, ctPidFile, evidence, ctScan>>
        /\ \/ ctPc' = "evidence" /\ drained' = drained \cup {ctGen}
           \/ ctPc' = "error" /\ drained' = drained
    BY <1>1 DEF Control!Drain, Control!GoDaemon
  <2>2. OwnerTyped' /\ DrainShown'
    BY <1>g, <1>t, <1>u, <2>1 DEF OwnerTyped, DrainShown
  <2> QED BY <1>s, <1>t, <1>u, <2>1, <2>2, LoopMoves DEF HandOwned
<1>2. CASE Control!WriteEvidence
  <2>1. /\ ctPc = "evidence" /\ ctPc' = "stop" /\ evidence' = ctGen
        /\ UNCHANGED <<ctLease, live, status, ctPidFile, drained, ctScan>>
    BY <1>2 DEF Control!WriteEvidence, Control!GoDaemon
  <2>2. OwnerTyped' /\ DrainShown'
    BY <1>g, <1>t, <1>u, <2>1 DEF OwnerTyped, DrainShown
  <2> QED BY <1>s, <1>t, <1>u, <2>1, <2>2, LoopMoves DEF HandOwned
<1>3. CASE Control!WriteStopped
  <2>1. /\ ctPc = "stop" /\ ctPc' = "pid" /\ status' = "stopped"
        /\ UNCHANGED <<ctLease, live, evidence, ctPidFile, drained, ctScan>>
    BY <1>3 DEF Control!WriteStopped, Control!GoDaemon
  <2>2. OwnerTyped' /\ DrainShown'
    BY <1>g, <1>t, <1>u, <2>1 DEF OwnerTyped, DrainShown
  <2> QED BY <1>s, <1>t, <1>u, <2>1, <2>2, LoopMoves DEF HandOwned
<1>4. CASE Control!RemovePid
  <2>1. /\ ctPc = "pid" /\ ctPc' = "respond" /\ ctPidFile' = 0
        /\ UNCHANGED <<ctLease, live, status, evidence, drained, ctScan>>
    BY <1>4 DEF Control!RemovePid, Control!GoDaemon
  <2>2. 0 \in 0..CtMaxGen
    BY CtConstants
  <2>3. OwnerTyped' /\ DrainShown'
    BY <1>g, <1>t, <1>u, <2>1, <2>2 DEF OwnerTyped, DrainShown
  <2>4. ctCur.send.op # "mutate"
    BY <1>t, <2>1 DEF HandOwned
  <2> QED BY <1>s, <1>t, <1>u, <2>1, <2>3, <2>4, LoopMoves DEF HandOwned
<1>5. CASE Control!Release
  <2>1. /\ ctPc = "release" /\ ctPc' = "off" /\ ctLease' = "released" /\ live' = FALSE /\ ctScan' = {}
        /\ UNCHANGED <<status, ctPidFile, evidence, drained>>
    BY <1>5 DEF Control!Release, Control!GoDaemon
  <2>2. live' \in BOOLEAN
    BY <2>1, Zenon
  <2>3. OwnerTyped' /\ DrainShown'
    BY <1>g, <1>t, <1>u, <2>1, <2>2 DEF OwnerTyped, DrainShown
  <2> QED BY <1>s, <1>t, <1>u, <2>1, <2>3, LoopMoves
<1> QED BY <1>1, <1>2, <1>3, <1>4, <1>5

\* quarantine_control_request, the removal of a request and its response.
LEMMA MailboxPreserves ==
  ASSUME ControlInv, Control!Quarantine \/ Control!RemoveRequest \/ Control!WriteResponse
  PROVE  ControlInv'
<1>u. /\ UNCHANGED <<client, executed>> /\ ctScan' = ctScan
      /\ UNCHANGED <<ctGen, ctLease, live, status, ctPidFile, evidence, drained, token>>
  BY DEF Control!Quarantine, Control!RemoveRequest, Control!WriteResponse, Control!owner
<1>t. /\ OwnerTyped /\ ctPc \in LoopAt /\ ctScan \subseteq Control!Ids /\ ctGen \in Nat /\ DrainShown /\ HandOwned
      /\ MailboxTyped /\ AnswersEarned
  BY CtConstants DEF ControlInv, OwnerTyped, LoopTyped
<1>s. /\ InHand \cap {"loop", "scan", "service_scan", "synthesise", "release"} = {}
      /\ {"quarantine", "respond", "remove"} \subseteq InHand
      /\ {"loop", "scan", "service_scan", "synthesise", "release", "remove"} \subseteq LoopAt
  BY DEF InHand, LoopAt
<1>o. OwnerTyped'
  BY <1>t, <1>u DEF OwnerTyped
<1>w. ctCur \in FileWork \cup OwnWork
  BY <1>s, <1>t DEF HandOwned, Control!Quarantine, Control!RemoveRequest, Control!WriteResponse
<1>1. CASE Control!Quarantine
  <2>1. /\ ctPc = "quarantine" /\ ctPc' \in {"loop", "scan", "service_scan", "synthesise"}
        /\ ctPc' \in {"scan", "service_scan"} => ctScan # {}
        /\ responses' = responses /\ requests' = [requests EXCEPT ![ctCur.id] = None]
        /\ rejected' = IF requests[ctCur.id] = None THEN rejected
                       ELSE rejected \cup {Control!Key(requests[ctCur.id])}
    BY <1>1 DEF Control!Quarantine, Control!GoDaemon
  <2>2. ctCur.id \in Control!Ids
    BY <1>t, <2>1, WorkFacts DEF HandOwned
  <2>3. requests[ctCur.id] \in Control!SendType \cup {None}
    BY <1>t, <2>2 DEF MailboxTyped
  <2>4. rejected' \subseteq Control!Sends
    BY <1>t, <2>1, <2>3, SendFacts DEF MailboxTyped
  <2>5. /\ requests' \in [Control!Ids -> Control!SendType \cup {None}]
        /\ \A i \in Control!Ids : requests'[i] # None => requests'[i] = requests[i]
    BY <1>t, <2>1, <2>2 DEF MailboxTyped
  <2>6. MailboxTyped' /\ AnswersEarned'
    BY <1>t, <1>u, <2>1, <2>4, <2>5 DEF MailboxTyped, AnswersEarned
  <2>7. DrainShown'
    BY <1>t, <1>u, <2>1 DEF DrainShown
  <2> QED BY <1>o, <1>s, <1>t, <1>u, <2>1, <2>5, <2>6, <2>7, LoopWorks
<1>2. CASE Control!RemoveRequest
  <2>1. /\ ctPc = "remove" /\ ctPc' \in {"release", "loop", "scan"}
        /\ ctPc' = "scan" => ctScan # {}
        /\ responses' = responses /\ rejected' = rejected
        /\ requests' = IF ctCur.id \in Control!Ids THEN [requests EXCEPT ![ctCur.id] = None] ELSE requests
    BY <1>2 DEF Control!RemoveRequest, Control!GoDaemon
  <2>2. ctCur \in FileWork => ctCur.id \in Control!Ids
    BY WorkFacts
  <2>5. /\ requests' \in [Control!Ids -> Control!SendType \cup {None}]
        /\ \A i \in Control!Ids : requests'[i] # None => requests'[i] = requests[i]
        /\ ctCur \in FileWork => requests'[ctCur.id] = None
    BY <1>t, <2>1, <2>2 DEF MailboxTyped
  <2>6. MailboxTyped' /\ AnswersEarned'
    BY <1>t, <1>u, <2>1, <2>5 DEF MailboxTyped, AnswersEarned
  <2>7. DrainShown'
    BY <1>t, <1>u, <2>1 DEF DrainShown
  <2> QED BY <1>o, <1>s, <1>t, <1>u, <2>1, <2>5, <2>6, <2>7, LoopWorks
<1>3. CASE Control!WriteResponse
  <2> DEFINE r == [send |-> Control!Key(ctCur.send), op |-> ctCur.send.op]
  <2>1. /\ ctPc = "respond" /\ ctPc' = "remove" /\ ctCur' = ctCur
        /\ requests' = requests /\ rejected' = rejected
        /\ responses' = IF ctCur.id \in Control!Ids THEN [responses EXCEPT ![ctCur.id] = r] ELSE responses
    BY <1>3 DEF Control!WriteResponse, Control!GoDaemon
  <2>2. ctCur.id \in Control!Ids => ctCur \in FileWork
    BY <1>w, WorkFacts
  <2>3. r.send = Control!Key(ctCur.send) /\ r.op = ctCur.send.op
    OBVIOUS
  <2>4. ASSUME ctCur \in FileWork
        PROVE  /\ r \in Answers /\ CtId[r.send.client] = ctCur.id /\ CtOp[r.send.client] = r.op
               /\ r.send.n =< client[r.send.client].n /\ (r.op = "mutate" => executed[r.send] = 1)
    <3>1. ctCur.send \in Control!SendType /\ Written(ctCur.send, ctCur.id)
      BY <1>s, <1>t, <2>1, <2>4, WorkFacts DEF HandOwned
    <3>2. /\ r.send \in Control!Sends /\ r.send.client = ctCur.send.client /\ r.send.n = ctCur.send.n
          /\ ctCur.send.op \in Ops
      BY <2>3, <3>1, SendFacts
    <3>3. r \in Answers
      BY <2>3, <3>2 DEF Answers
    <3>4. r.op = "mutate" => executed[r.send] = 1
      BY <1>t, <2>1, <2>3, <2>4 DEF HandOwned
    <3> QED BY <2>3, <3>1, <3>2, <3>3, <3>4 DEF Written
  <2> HIDE DEF r
  <2>5. /\ responses' \in [Control!Ids -> Answers \cup {None}]
        /\ \A i \in Control!Ids : responses'[i] = responses[i] \/ (responses'[i] = r /\ i = ctCur.id /\ ctCur \in FileWork)
    BY <1>t, <2>1, <2>2, <2>4 DEF MailboxTyped
  <2>6. MailboxTyped' /\ AnswersEarned'
    BY <1>t, <1>u, <2>1, <2>4, <2>5 DEF MailboxTyped, AnswersEarned
  <2>7. DrainShown'
    BY <1>t, <1>u, <2>1 DEF DrainShown
  <2>8. \A i \in Control!Ids : requests'[i] # None => requests'[i] = requests[i]
    BY <2>1
  <2>9. ctCur' \in FileWork \cup OwnWork
    BY <1>w, <2>1
  <2> QED BY <1>o, <1>s, <1>t, <1>u, <2>1, <2>6, <2>7, <2>8, <2>9, LoopWorks
<1> QED BY <1>1, <1>2, <1>3

\* handle_control_request, other than a shutdown.
LEMMA ExecutePreserves ==
  ASSUME ControlInv, Control!Execute
  PROVE  ControlInv'
<1>u. /\ UNCHANGED <<requests, responses, rejected, client, ctCur, ctScan>>
      /\ UNCHANGED <<ctGen, ctLease, live, status, ctPidFile, evidence, drained, token>>
      /\ ctPc = "execute" /\ ctCur.send.op # "shutdown" /\ ctPc' \in {"respond", "quarantine"}
  BY DEF Control!Execute, Control!GoDaemon, Control!owner, Control!files
<1>t. /\ OwnerTyped /\ ctPc \in LoopAt /\ ctScan \subseteq Control!Ids /\ ctGen \in Nat /\ DrainShown /\ HandOwned
      /\ MailboxTyped /\ AnswersEarned /\ executed \in [Control!Sends -> 0..1]
  BY CtConstants DEF ControlInv, OwnerTyped, LoopTyped
<1>s. {"execute", "respond", "quarantine"} \subseteq InHand /\ {"respond", "quarantine"} \subseteq LoopAt
  BY DEF InHand, LoopAt
<1>f. ctCur \in FileWork
  BY <1>s, <1>t, <1>u, WorkFacts DEF HandOwned
<1>o. OwnerTyped' /\ DrainShown'
  BY <1>t, <1>u DEF OwnerTyped, DrainShown
<1>1. CASE executed' = executed /\ (ctPc' = "respond" => ctCur.send.op # "mutate")
  <2>1. ctPc' \in LoopAt /\ ctPc' \notin {"evidence", "stop", "pid", "scan", "service_scan", "execute"}
    BY <1>s, <1>u
  <2> QED BY <1>1, <1>f, <1>o, <1>s, <1>t, <1>u, <2>1, LoopMoves
<1> DEFINE key == Control!Key(ctCur.send)
<1>2. CASE /\ ctPc' = "respond" /\ executed' = [executed EXCEPT ![key] = @ + 1]
  <2>1. ctCur.send \in Control!SendType /\ Written(ctCur.send, ctCur.id) /\ ctCur.id \in Control!Ids
    BY <1>f, <1>s, <1>t, <1>u, WorkFacts DEF HandOwned
  <2>2. key \in Control!Sends /\ key.client = ctCur.send.client /\ key.n = ctCur.send.n
    BY <2>1, SendFacts
  <2>3. executed[key] = 0
    <3>1. executed[key] # 1
      BY <1>f, <1>u, <2>2 DEF ControlInv, ExecutedIsPast
    <3> QED BY <1>t, <2>2, <3>1
  <2>4. executed' = [executed EXCEPT ![key] = 1]
    BY <1>2, <1>t, <2>2, <2>3
  <2>k. Control!Key(ctCur.send) = key
    OBVIOUS
  <2> HIDE DEF key
  <2>5. /\ executed' \in [Control!Sends -> 0..1] /\ executed'[key] = 1
        /\ \A k \in Control!Sends \ {key} : executed'[k] = executed[k]
    BY <1>t, <2>2, <2>4
  <2>6. \A k \in Control!Sends : executed[k] = 1 => executed'[k] = 1
    BY <2>5
  <2>7. MailboxTyped' /\ LoopTyped' /\ ClientsBound' /\ RequestsOwned'
    BY <1>s, <1>t, <1>u, <2>5 DEF ControlInv, MailboxTyped, LoopTyped, ClientsBound, RequestsOwned, Written
  <2>8. HandOwned'
    <3>1. Written(ctCur.send, ctCur.id)'
      BY <1>u, <2>1 DEF Written
    <3> QED BY <1>2, <1>f, <1>u, <2>5, <2>k, <3>1 DEF HandOwned
  <2>9. ExecutedIsPast'
    <3> SUFFICES ASSUME NEW k \in Control!Sends, executed'[k] = 1
                 PROVE  /\ k.n =< client[k.client].n
                        /\ k.n = client[k.client].n => client[k.client].pc \notin {"clear", "write"}
                        /\ \A i \in Control!Ids : requests[i] # None /\ Control!Key(requests[i]) = k =>
                             requests[i].target < ctGen \/ ctCur.id = i
      BY <1>2, <1>f, <1>u DEF ExecutedIsPast
    <3>1. CASE k # key
      <4>1. executed[k] = 1
        BY <2>5, <3>1
      <4> QED BY <1>u, <4>1 DEF ControlInv, ExecutedIsPast
    <3>2. CASE k = key
      <4>1. k.n =< client[k.client].n /\ (k.n = client[k.client].n => client[k.client].pc \notin {"clear", "write"})
        BY <2>1, <2>2, <3>2 DEF Written
      <4>2. ASSUME NEW i \in Control!Ids, requests[i] # None, Control!Key(requests[i]) = k PROVE ctCur.id = i
        <5>1. requests[i] \in Control!SendType /\ Written(requests[i], i)
          BY <1>t, <4>2 DEF ControlInv, MailboxTyped, RequestsOwned
        <5>2. requests[i].client = ctCur.send.client
          BY <2>2, <3>2, <4>2, <5>1, SendFacts
        <5> QED BY <2>1, <5>1, <5>2 DEF Written
      <4> QED BY <4>1, <4>2
    <3> QED BY <3>1, <3>2
  <2>10. AnswersEarned'
    <3> SUFFICES ASSUME NEW i \in Control!Ids, responses[i] # None
                 PROVE  /\ CtId[responses[i].send.client] = i /\ CtOp[responses[i].send.client] = responses[i].op
                        /\ responses[i].send.n =< client[responses[i].send.client].n
                        /\ responses[i].op = "mutate" => executed'[responses[i].send] = 1
      BY <1>u DEF AnswersEarned
    <3>1. responses[i].send \in Control!Sends
      BY <1>t DEF MailboxTyped, Answers
    <3> QED BY <1>t, <2>6, <3>1 DEF AnswersEarned
  <2>11. Control!AnswerIsOwn'
    <3> SUFFICES ASSUME NEW c \in Clients, client[c].pc = "answered", CtOp[c] = "mutate",
                        \A b \in Clients \ {c} : CtId[b] # CtId[c]
                 PROVE  \E m \in 1..client[c].n : executed'[[client |-> c, n |-> m]] > 0
      BY <1>u DEF Control!AnswerIsOwn
    <3>1. PICK m \in 1..client[c].n : executed[[client |-> c, n |-> m]] > 0
      BY DEF ControlInv, Control!AnswerIsOwn
    <3>2. client[c] \in Asking /\ client[c].n \in 0..MaxSends
      BY DEF ControlInv, LoopTyped, Asking
    <3>3. [client |-> c, n |-> m] \in Control!Sends
      BY <3>2, CtConstants DEF Control!Sends
    <3>4. executed[[client |-> c, n |-> m]] = 1
      BY <1>t, <3>1, <3>3
    <3>5. executed'[[client |-> c, n |-> m]] = 1
      BY <2>6, <3>3, <3>4
    <3> QED BY <3>5
  <2> QED BY <1>o, <2>7, <2>8, <2>9, <2>10, <2>11 DEF ControlInv
<1> QED BY <1>1, <1>2 DEF Control!Execute, Control!GoDaemon

LEMMA ControlSteps == ControlInv /\ [Control!Next]_Control!vars => ControlInv'
<1> SUFFICES ASSUME ControlInv, [Control!Next]_Control!vars PROVE ControlInv'
  OBVIOUS
<1>1. CASE \E c \in Clients : Control!ClientSteps(c)
  BY <1>1, ClientPreserves
<1>2. CASE Control!DaemonSteps
  BY <1>2, QuietLoop, ReadPreserves, ExecutePreserves, MailboxPreserves, ShutdownPreserves DEF Control!DaemonSteps
<1>3. CASE Control!Start \/ Control!Crash \/ Control!TickFails \/ Control!RequestStop
  BY <1>3, QuietLoop
<1>4. CASE UNCHANGED Control!vars
  <2>1. UNCHANGED <<ctGen, ctLease, live, status, ctPidFile, evidence, drained, requests, responses, rejected,
                    ctPc, ctScan, ctCur, token, client, executed>>
    BY <1>4 DEF Control!vars, Control!owner, Control!files, Control!daemon
  <2>2. OwnerTyped' /\ MailboxTyped' /\ LoopTyped' /\ ClientsBound'
    BY <2>1 DEF ControlInv, OwnerTyped, MailboxTyped, LoopTyped, ClientsBound
  <2>3. RequestsOwned' /\ HandOwned' /\ ExecutedIsPast'
    BY <2>1 DEF ControlInv, RequestsOwned, HandOwned, ExecutedIsPast, Written
  <2>4. AnswersEarned' /\ DrainShown' /\ Control!AnswerIsOwn'
    BY <2>1 DEF ControlInv, AnswersEarned, DrainShown, Control!AnswerIsOwn
  <2> QED BY <2>2, <2>3, <2>4 DEF ControlInv
<1> QED BY <1>1, <1>2, <1>3, <1>4 DEF Control!Next

\* Over crashes between any two steps of the control loop, restarts that find
\* the request files of their predecessors, clients that time out and send
\* again, and clients that share an id: a send is executed at most once, a
\* client with an id of its own is answered only when its mutation was executed,
\* and the daemon looks fully released only after its drain (daemon.rs).
THEOREM ControlStaysExact == SystemSpec => []ControlIsExact
<1> DEFINE Inv == part = "control" => ControlInv
<1>1. SystemInit => Inv
  BY ControlStarts DEF SystemInit
<1>2. Inv /\ [SystemNext]_all => Inv'
  <2> SUFFICES ASSUME Inv, [SystemNext]_all, part' = "control" PROVE ControlInv'
    OBVIOUS
  <2>1. CASE SystemNext
    <3>1. part = "control" /\ Control!Next
      BY <2>1 DEF SystemNext, Step
    <3> QED BY <3>1, ControlSteps
  <2>2. CASE UNCHANGED all
    <3>1. part' = part /\ UNCHANGED controlVars
      BY <2>2 DEF all
    <3>2. UNCHANGED Control!vars
      BY <3>1 DEF controlVars, Control!vars, Control!owner, Control!files, Control!daemon
    <3> QED BY <3>1, <3>2, ControlSteps
  <2> QED BY <2>1, <2>2
<1>3. Inv => ControlIsExact
  <2> SUFFICES ASSUME ControlInv
               PROVE  Control!TypeOK /\ Control!ExecutedOnce /\ Control!AnswerIsOwn /\ Control!ReleasedMeansDrained
    BY DEF ControlIsExact
  <2>1. Control!TypeOK
    <3>1. \A i \in Control!Ids : requests[i] \in Control!SendType \cup {None}
      BY DEF ControlInv, MailboxTyped
    <3>2. \A i \in Control!Ids : responses[i] \in
            [send : Control!Sends \cup {Control!Key(Control!NoSend)}, op : {"status", "mutate", "shutdown"}] \cup {None}
      BY DEF ControlInv, MailboxTyped, Answers, Ops
    <3>3. \A c \in Clients : client[c].pc \in {"idle", "clear", "write", "wait", "answered", "timed_out", "refused"}
      BY DEF ControlInv, LoopTyped, Asking, ClientAt
    <3>4. ctPc \in {"off", "loop", "scan", "quarantine", "execute", "respond", "remove", "evidence", "stop", "pid",
                    "release", "service_scan", "synthesise", "error"}
      BY DEF ControlInv, LoopTyped, LoopAt, InHand
    <3>5. OwnerTyped /\ rejected \subseteq Control!Sends /\ ctScan \subseteq Control!Ids
      BY DEF ControlInv, MailboxTyped, LoopTyped
    <3> QED BY <3>1, <3>2, <3>3, <3>4, <3>5 DEF Control!TypeOK, OwnerTyped
  <2>2. Control!ExecutedOnce
    BY DEF ControlInv, LoopTyped, Control!ExecutedOnce
  <2>3. Control!ReleasedMeansDrained
    BY DEF ControlInv, DrainShown, Control!ReleasedMeansDrained, Control!FullyReleased, Control!MatchesStatus
  <2> QED BY <2>1, <2>2, <2>3 DEF ControlInv
<1> QED
  BY <1>1, <1>2, <1>3, PTL DEF SystemSpec
=============================================================================
