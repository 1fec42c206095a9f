----------------------------- MODULE DaemonStartup -----------------------------
(***************************************************************************)
(* The start of a background daemon: eva-runtime/src/daemon.rs and         *)
(* eva-cli/src/run/daemon_cmd.rs.                                          *)
(*                                                                         *)
(* A launcher spawns a child and follows it through frame files named      *)
(* after the start's nonce: claimed (the child has the lease), ready,      *)
(* failed, and abort, which the launcher writes.  The child publishes a    *)
(* state file and a pid file, both shared by every daemon of the project.  *)
(* When a start fails the launcher reaps the child and cleans up what it   *)
(* left, with the lease; an operator's stop_daemon does so for a daemon    *)
(* that died.                                                              *)
(*                                                                         *)
(* Taking the lease is one step here; RuntimeLease details it.  Any        *)
(* process dies at any step, and its lock on the anchor with it.           *)
(***************************************************************************)
EXTENDS Integers

CONSTANTS
  Launchers,    \* starts of a background daemon, each with a nonce and a child
  None,
  MaxFailures,  \* bound on I/O errors of children
  MaxCrashes    \* bound on processes that die

VARIABLES
  lease,      \* lease record: [proc, gen, state]
  lock,       \* process that holds the anchor
  expired,    \* the record's expiry has passed
  genFile,    \* writer generation
  pidFile,    \* pid projection: identity of a lease
  stateFile,  \* daemon state: [proc, status]
  frames,     \* frame files of each start
  child,      \* where each child stands
  gen,        \* generation each child got, 0 before
  launch,     \* where each launcher stands
  seen,       \* what a launcher or the operator has read: claimed frame and lease
  stop,       \* where stop_daemon stands
  failures, crashes

project == <<lease, lock, expired, genFile, pidFile, stateFile>>
bounded == <<failures, crashes>>
vars    == <<project, frames, child, gen, launch, seen, stop, bounded>>

Child(l)    == <<"child", l>>
Launcher(l) == <<"launcher", l>>
Operator    == <<"operator", None>>
Procs == {Child(l) : l \in Launchers} \cup {Launcher(l) : l \in Launchers} \cup {Operator}

Identity(r)   == [proc |-> r.proc, gen |-> r.gen]
NoFrames      == [claimed |-> None, ready |-> None, failed |-> FALSE, abort |-> FALSE, report |-> FALSE]
NothingSeen   == [claimed |-> None, lease |-> None]

Init ==
  /\ lease = None /\ lock = None /\ expired = FALSE /\ genFile = 0
  /\ pidFile = None /\ stateFile = None
  /\ frames = [l \in Launchers |-> NoFrames]
  /\ child = [l \in Launchers |-> "none"] /\ gen = [l \in Launchers |-> 0]
  /\ launch = [l \in Launchers |-> "start"]
  /\ seen = [p \in Procs |-> NothingSeen]
  /\ stop = "off" /\ failures = 0 /\ crashes = 0

-----------------------------------------------------------------------------
(* The lease and the projections, as every process uses them.              *)

ActiveLease == lease # None /\ lease.state = "active"
Running     == stateFile # None /\ stateFile.status = "running"

LeaseFor(p) == [proc |-> p, gen |-> genFile + 1, state |-> "active"]

\* DurableRuntimeLeaseGuard::acquire: a record that is still active is honoured.
MayAcquire == lock = None /\ (ActiveLease => expired)

\* reclaim_failed_start: the record must still be the failed child's.
MayReclaim(id) == lock = None /\ ActiveLease /\ Identity(lease) = id

TakeLease(p) ==
  /\ lease' = LeaseFor(p) /\ genFile' = genFile + 1 /\ lock' = p /\ expired' = FALSE

\* release_at or the drop of the guard; the record is the process's own.
ReleaseLease(p) ==
  /\ lease' = IF lease.proc = p THEN [lease EXCEPT !.state = "released"] ELSE lease
  /\ lock' = None /\ expired' = FALSE

WriteStopped == stateFile' = [stateFile EXCEPT !.status = "stopped"]

\* remove_matching_pid; the projection of another identity is an error and stays.
RemoveMatchingPid(id) == pidFile' = IF pidFile = id THEN None ELSE pidFile

\* daemon_startup_cleanup_complete, with and without a lease record.
CleanupComplete ==
  /\ lease # None => lock = None /\ lease.state = "released"
  /\ pidFile = None /\ ~Running

-----------------------------------------------------------------------------
(* The child: start_daemon_background_child and start_daemon_inner.        *)

GoChild(l, where) == child' = [child EXCEPT ![l] = where]
KeepOthers == UNCHANGED <<launch, seen, stop>>

\* Something the child does at this point may fail.
Breaks == failures < MaxFailures /\ failures' = failures + 1 /\ UNCHANGED crashes

Me(l) == [proc |-> Child(l), gen |-> gen[l]]

Acquire(l) ==
  /\ child[l] = "acquire"
  /\ \/ /\ MayAcquire /\ TakeLease(Child(l)) /\ gen' = [gen EXCEPT ![l] = genFile + 1]
        /\ GoChild(l, "claim")
     \/ ~MayAcquire /\ GoChild(l, "report_failure") /\ UNCHANGED <<lease, lock, expired, genFile, gen>>
  /\ UNCHANGED <<pidFile, stateFile, frames, bounded>> /\ KeepOthers

Claim(l) ==
  /\ child[l] = "claim"
  /\ \/ /\ frames' = [frames EXCEPT ![l].claimed = gen[l]] /\ GoChild(l, "prepare")
        /\ UNCHANGED bounded
     \/ Breaks /\ GoChild(l, "release") /\ UNCHANGED frames
  /\ UNCHANGED <<project, gen>> /\ KeepOthers

\* Recovery, policy, hotplug, schedules and worker; ensure_startup_not_aborted
\* between them and once more before the first projection.
Prepare(l) ==
  /\ child[l] = "prepare"
  /\ \/ ~frames[l].abort /\ GoChild(l, "state") /\ UNCHANGED bounded
     \/ frames[l].abort /\ GoChild(l, "release") /\ UNCHANGED bounded
     \/ Breaks /\ GoChild(l, "release")
  /\ UNCHANGED <<project, frames, gen>> /\ KeepOthers

WriteRunning(l) ==
  /\ child[l] = "state" /\ GoChild(l, "pid")
  /\ stateFile' = [proc |-> Child(l), status |-> "running"]
  /\ UNCHANGED <<lease, lock, expired, genFile, pidFile, frames, gen, bounded>> /\ KeepOthers

\* An error here stops the state and keeps what pid file there is.
WritePid(l) ==
  /\ child[l] = "pid"
  /\ \/ pidFile' = Me(l) /\ GoChild(l, "publish") /\ UNCHANGED <<stateFile, bounded>>
     \/ Breaks /\ GoChild(l, "release") /\ WriteStopped /\ UNCHANGED pidFile
  /\ UNCHANGED <<lease, lock, expired, genFile, frames, gen>> /\ KeepOthers

PublishReport(l) ==
  /\ child[l] = "publish"
  /\ \/ frames' = [frames EXCEPT ![l].report = TRUE] /\ GoChild(l, "last_check") /\ UNCHANGED bounded
     \/ Breaks /\ GoChild(l, "unwind") /\ UNCHANGED frames
  /\ UNCHANGED <<project, gen>> /\ KeepOthers

LastCheck(l) ==
  /\ child[l] = "last_check"
  /\ GoChild(l, IF frames[l].abort THEN "unwind" ELSE "ready")
  /\ UNCHANGED <<project, frames, gen, bounded>> /\ KeepOthers

PublishReady(l) ==
  /\ child[l] = "ready"
  /\ \/ frames' = [frames EXCEPT ![l].ready = gen[l]] /\ GoChild(l, "running") /\ UNCHANGED bounded
     \/ Breaks /\ GoChild(l, "unwind") /\ UNCHANGED frames
  /\ UNCHANGED <<project, gen>> /\ KeepOthers

\* The control loop ends: a shutdown or an error.
EndServing(l) ==
  /\ child[l] = "running" /\ GoChild(l, "unwind")
  /\ UNCHANGED <<project, frames, gen, bounded>> /\ KeepOthers

Unwind(l) ==
  /\ child[l] = "unwind" /\ GoChild(l, "remove_pid") /\ WriteStopped
  /\ UNCHANGED <<lease, lock, expired, genFile, pidFile, frames, gen, bounded>> /\ KeepOthers

RemovePid(l) ==
  /\ child[l] = "remove_pid" /\ GoChild(l, "release") /\ RemoveMatchingPid(Me(l))
  /\ UNCHANGED <<lease, lock, expired, genFile, stateFile, frames, gen, bounded>> /\ KeepOthers

ChildRelease(l) ==
  /\ child[l] = "release" /\ ReleaseLease(Child(l))
  /\ GoChild(l, IF frames[l].ready # None THEN "exiting" ELSE "report_failure")
  /\ UNCHANGED <<genFile, pidFile, stateFile, frames, gen, bounded>> /\ KeepOthers

\* write_daemon_startup_failure_frame: a start that was ready stays ready.
FailureFrame(f) == IF f.ready # None THEN f ELSE [f EXCEPT !.failed = TRUE]

ReportFailure(l) ==
  /\ child[l] = "report_failure" /\ GoChild(l, "exiting")
  /\ frames' = [frames EXCEPT ![l] = FailureFrame([@ EXCEPT !.report = FALSE])]
  /\ UNCHANGED <<project, gen, bounded>> /\ KeepOthers

Exit(l) ==
  /\ child[l] = "exiting" /\ GoChild(l, "exited")
  /\ UNCHANGED <<project, frames, gen, bounded>> /\ KeepOthers

ChildSteps(l) ==
  \/ Acquire(l) \/ Claim(l) \/ Prepare(l) \/ WriteRunning(l) \/ WritePid(l) \/ PublishReport(l)
  \/ LastCheck(l) \/ PublishReady(l) \/ Unwind(l) \/ RemovePid(l) \/ ChildRelease(l) \/ ReportFailure(l)
  \/ Exit(l)

-----------------------------------------------------------------------------
(* The launcher: start_daemon_background.                                  *)

GoLaunch(l, where) == launch' = [launch EXCEPT ![l] = where]
KeepChild == UNCHANGED <<gen, stop, bounded>>
Exited(l) == child[l] = "exited"

Spawn(l) ==
  /\ launch[l] = "start" /\ GoLaunch(l, "poll") /\ GoChild(l, "acquire")
  /\ UNCHANGED <<project, frames, seen>> /\ KeepChild

\* read_background_terminal_frame.
Poll(l) ==
  /\ launch[l] = "poll"
  /\ GoLaunch(l, CASE frames[l].failed -> "abort"
                   [] ~frames[l].failed /\ frames[l].ready # None -> "validate"
                   [] OTHER -> "pending")
  /\ UNCHANGED <<project, frames, child, seen>> /\ KeepChild

\* An exited child ends the start whatever its frames say; otherwise the poll
\* goes on until the deadline.
Pending(l) ==
  /\ launch[l] = "pending" /\ GoLaunch(l, IF Exited(l) THEN "finish" ELSE "poll")
  /\ UNCHANGED <<project, frames, child, seen>> /\ KeepChild

Deadline(l) ==
  /\ launch[l] = "pending" /\ ~Exited(l) /\ GoLaunch(l, "abort")
  /\ UNCHANGED <<project, frames, child, seen>> /\ KeepChild

\* complete_background_ready, up to the look at the process.
Validate(l) ==
  /\ launch[l] = "validate"
  /\ LET ok == frames[l].claimed = frames[l].ready /\ frames[l].report /\ ~Exited(l)
     IN GoLaunch(l, IF ok THEN "projections" ELSE "abort")
  /\ UNCHANGED <<project, frames, child, seen>> /\ KeepChild

\* daemon_status reads pid and state before it probes the lease.
ReadProjections(l) ==
  /\ launch[l] = "projections"
  /\ LET ok == /\ Running /\ stateFile.proc = Child(l)
               /\ pidFile = [proc |-> Child(l), gen |-> frames[l].ready]
     IN GoLaunch(l, IF ok THEN "probe" ELSE "abort")
  /\ UNCHANGED <<project, frames, child, seen>> /\ KeepChild

\* The lease is the child's, active, and its process has the lock.
Live(l) == ActiveLease /\ lock # None /\ Identity(lease) = [proc |-> Child(l), gen |-> frames[l].ready]

ProbeLease(l) ==
  /\ launch[l] = "probe" /\ GoLaunch(l, IF Live(l) THEN "alive" ELSE "abort")
  /\ UNCHANGED <<project, frames, child, seen>> /\ KeepChild

CheckAlive(l) ==
  /\ launch[l] = "alive" /\ GoLaunch(l, IF Exited(l) THEN "abort" ELSE "ok")
  /\ UNCHANGED <<project, frames, child, seen>> /\ KeepChild

\* terminate_background_child: ask, wait for the grace period, kill.
RequestAbort(l) ==
  /\ launch[l] = "abort"
  /\ \/ Exited(l) /\ GoLaunch(l, "finish") /\ UNCHANGED frames
     \/ ~Exited(l) /\ GoLaunch(l, "grace") /\ frames' = [frames EXCEPT ![l].abort = TRUE]
  /\ UNCHANGED <<project, child, seen>> /\ KeepChild

\* Fault: a child that does not stop is left to itself.
GraceFault(l) ==
  /\ launch[l] = "grace" /\ GoLaunch(l, "finish")
  /\ UNCHANGED <<project, frames, child, seen>> /\ KeepChild

Grace(l) ==
  /\ launch[l] = "grace" /\ GoLaunch(l, "finish")
  /\ \/ Exited(l) /\ UNCHANGED <<lock, child>>
     \/ /\ ~Exited(l) /\ GoChild(l, "exited")
        /\ lock' = IF lock = Child(l) THEN None ELSE lock
  /\ UNCHANGED <<lease, expired, genFile, pidFile, stateFile, frames, seen>> /\ KeepChild

-----------------------------------------------------------------------------
(* cleanup_failed_daemon_start.                                            *)

Finish(l) ==
  /\ launch[l] = "finish"
  /\ seen' = [seen EXCEPT ![Launcher(l)] = [NothingSeen EXCEPT !.claimed = frames[l].claimed]]
  /\ GoLaunch(l, CASE frames[l].claimed # None \/ lease # None -> "judge"
                   [] frames[l].claimed = None /\ lease = None /\ CleanupComplete -> "clean"
                   [] OTHER -> "dirty")
  /\ UNCHANGED <<project, frames, child>> /\ KeepChild

\* The identity to reclaim: the claimed frame's, which the record must still
\* have, or the record's own when it names this child.
Reclaims(l, claimed) ==
  /\ lease # None /\ lease.proc = Child(l) /\ (claimed # None => lease.gen = claimed)

Judge(l) ==
  LET claimed == seen[Launcher(l)].claimed
  IN /\ launch[l] = "judge"
     /\ seen' = [seen EXCEPT ![Launcher(l)].lease = lease]
     /\ GoLaunch(l,
          CASE claimed = None /\ lease # None /\ lease.proc # Child(l) -> "clean"
            [] claimed # None /\ ~Reclaims(l, claimed) -> "dirty"
            [] Reclaims(l, claimed) /\ lock # None -> "dirty"
            [] Reclaims(l, claimed) /\ lock = None /\ lease.state = "released" /\ pidFile = None /\ ~Running -> "clean"
            [] OTHER -> "reclaim")
     /\ UNCHANGED <<project, frames, child>> /\ KeepChild

\* An active record is reclaimed, a released one taken like a new lease.
Reclaim(l) ==
  LET was == seen[Launcher(l)].lease
      may == IF was.state = "active" THEN MayReclaim(Identity(was)) ELSE MayAcquire
  IN /\ launch[l] = "reclaim"
     /\ \/ may /\ TakeLease(Launcher(l)) /\ GoLaunch(l, "clear_state")
        \/ ~may /\ GoLaunch(l, "dirty") /\ UNCHANGED <<lease, lock, expired, genFile>>
     /\ UNCHANGED <<pidFile, stateFile, frames, child, seen>> /\ KeepChild

\* The pid projection is the child's or absent; a running state is the child's,
\* and after a released lease only with the projection.
MayClear(l) ==
  LET was == seen[Launcher(l)].lease
  IN /\ pidFile \in {None, Identity(was)}
     /\ Running => stateFile.proc = Child(l) /\ (was.state = "released" => pidFile = Identity(was))

ClearState(l) ==
  /\ launch[l] = "clear_state"
  /\ \/ /\ MayClear(l) /\ GoLaunch(l, "clear_pid")
        /\ IF Running THEN WriteStopped ELSE UNCHANGED stateFile
     \/ ~MayClear(l) /\ GoLaunch(l, "give_up") /\ UNCHANGED stateFile
  /\ UNCHANGED <<lease, lock, expired, genFile, pidFile, frames, child, seen>> /\ KeepChild

ClearPid(l) ==
  /\ launch[l] = "clear_pid" /\ GoLaunch(l, "give_back")
  /\ RemoveMatchingPid(Identity(seen[Launcher(l)].lease))
  /\ UNCHANGED <<lease, lock, expired, genFile, stateFile, frames, child, seen>> /\ KeepChild

GiveBack(l) ==
  /\ launch[l] \in {"give_up", "give_back"} /\ ReleaseLease(Launcher(l))
  /\ GoLaunch(l, IF launch[l] = "give_up" THEN "dirty" ELSE "recheck")
  /\ UNCHANGED <<genFile, pidFile, stateFile, frames, child, seen>> /\ KeepChild

Recheck(l) ==
  /\ launch[l] = "recheck" /\ GoLaunch(l, IF CleanupComplete THEN "clean" ELSE "dirty")
  /\ UNCHANGED <<project, frames, child, seen>> /\ KeepChild

\* The failure is published and reported with cleanup_complete.
Report(l) ==
  /\ launch[l] = "clean" /\ GoLaunch(l, "failed_clean")
  /\ frames' = [frames EXCEPT ![l] = FailureFrame(@)]
  /\ UNCHANGED <<project, child, seen>> /\ KeepChild

LauncherSteps(l) ==
  \/ Spawn(l) \/ Poll(l) \/ Pending(l) \/ Validate(l) \/ ReadProjections(l) \/ ProbeLease(l)
  \/ CheckAlive(l) \/ RequestAbort(l) \/ Grace(l) \/ Finish(l) \/ Judge(l) \/ Reclaim(l)
  \/ ClearState(l) \/ ClearPid(l) \/ GiveBack(l) \/ Recheck(l) \/ Report(l)

-----------------------------------------------------------------------------
(* stop_daemon: projections of a dead daemon, removed by hand.             *)

GoStop(where) == stop' = where
KeepStarts == UNCHANGED <<frames, child, gen, launch, bounded>>

StopObserve ==
  /\ stop = "off" /\ (pidFile # None \/ Running \/ ActiveLease)
  /\ pidFile # None => /\ lease # None /\ pidFile = Identity(lease)
                       /\ stateFile # None => stateFile.proc = pidFile.proc
  /\ lock = None /\ (ActiveLease => expired)
  /\ seen' = [seen EXCEPT ![Operator] = [NothingSeen EXCEPT !.lease = lease]]
  /\ GoStop("acquire")
  /\ UNCHANGED project /\ KeepStarts

StopAcquire ==
  /\ stop = "acquire"
  /\ \/ MayAcquire /\ TakeLease(Operator) /\ GoStop("state")
     \/ ~MayAcquire /\ GoStop("done") /\ UNCHANGED <<lease, lock, expired, genFile>>
  /\ UNCHANGED <<pidFile, stateFile, seen>> /\ KeepStarts

\* The pid projection must be the one of the record observed before.
StopState ==
  LET was == seen[Operator].lease
      ok  == pidFile # None => /\ was # None /\ pidFile = Identity(was)
                               /\ stateFile # None => stateFile.proc = pidFile.proc
  IN /\ stop = "state" /\ GoStop(IF ok THEN "pid" ELSE "release")
     /\ IF ok /\ stateFile # None THEN WriteStopped ELSE UNCHANGED stateFile
     /\ UNCHANGED <<lease, lock, expired, genFile, pidFile, seen>> /\ KeepStarts

StopPid ==
  /\ stop = "pid" /\ GoStop("release")
  /\ IF pidFile = None THEN UNCHANGED pidFile ELSE RemoveMatchingPid(Identity(seen[Operator].lease))
  /\ UNCHANGED <<lease, lock, expired, genFile, stateFile, seen>> /\ KeepStarts

StopRelease ==
  /\ stop = "release" /\ ReleaseLease(Operator) /\ GoStop("done")
  /\ UNCHANGED <<genFile, pidFile, stateFile, seen>> /\ KeepStarts

Stop == StopObserve \/ StopAcquire \/ StopState \/ StopPid \/ StopRelease

-----------------------------------------------------------------------------
(* The environment.                                                        *)

\* Nobody renews the record of a dead owner.
Expire ==
  /\ ActiveLease /\ lock = None /\ ~expired /\ expired' = TRUE
  /\ UNCHANGED <<lease, lock, genFile, pidFile, stateFile, frames, child, gen, launch, seen, stop, bounded>>

Dies(p) ==
  /\ crashes < MaxCrashes /\ crashes' = crashes + 1
  /\ lock' = IF lock = p THEN None ELSE lock
  /\ UNCHANGED <<lease, expired, genFile, pidFile, stateFile, frames, gen, seen, failures>>

ChildDies(l) ==
  /\ child[l] \notin {"none", "exited"} /\ Dies(Child(l)) /\ GoChild(l, "exited")
  /\ UNCHANGED <<launch, stop>>

LauncherDies(l) ==
  /\ launch[l] \notin {"start", "ok", "failed_clean", "dirty", "dead"} /\ Dies(Launcher(l)) /\ GoLaunch(l, "dead")
  /\ UNCHANGED <<child, stop>>

OperatorDies ==
  /\ stop \notin {"off", "done"} /\ Dies(Operator) /\ GoStop("done")
  /\ UNCHANGED <<child, launch>>

Next ==
  \/ \E l \in Launchers : ChildSteps(l) \/ LauncherSteps(l) \/ Deadline(l) \/ EndServing(l) \/ ChildDies(l) \/ LauncherDies(l)
  \/ Stop \/ Expire \/ OperatorDies

Spec == Init /\ [][Next]_vars

\* The launcher is scheduled and its deadline comes.  Its child may be stuck at
\* any step.
Fairness == \A l \in Launchers : WF_vars(LauncherSteps(l)) /\ SF_vars(Deadline(l))

FairSpec == Spec /\ Fairness

-----------------------------------------------------------------------------
(* Properties.                                                             *)

Gens == Nat
LeaseType == [proc : Procs, gen : Gens, state : {"active", "released"}]

\* Every variable has its type.
TypeOK ==
  /\ lease \in LeaseType \cup {None} /\ lock \in Procs \cup {None}
  /\ expired \in BOOLEAN /\ genFile \in Gens
  /\ pidFile \in [proc : Procs, gen : Gens] \cup {None}
  /\ stateFile \in [proc : Procs, status : {"running", "stopped"}] \cup {None}
  /\ frames \in [Launchers -> [claimed : Gens \cup {None}, ready : Gens \cup {None},
                               failed : BOOLEAN, abort : BOOLEAN, report : BOOLEAN]]
  /\ gen \in [Launchers -> Gens] /\ failures \in 0..MaxFailures /\ crashes \in 0..MaxCrashes

\* While a daemon serves, lease, lock, pid file and state file are its own:
\* neither the cleanup of another start nor stop_daemon, both of which judge
\* first and act later, touches the projections of a live daemon.
ServingIsUntouched ==
  \A l \in Launchers : child[l] = "running" =>
    /\ lock = Child(l) /\ ActiveLease /\ Identity(lease) = Me(l)
    /\ pidFile = Me(l) /\ stateFile = [proc |-> Child(l), status |-> "running"]

\* A launcher that reports a failed start with cleanup_complete has reaped its
\* child, and nothing names the child as a daemon any more.
FailedStartLeavesNothing ==
  \A l \in Launchers : launch[l] = "failed_clean" =>
    /\ Exited(l) /\ lock # Child(l)
    /\ ~(ActiveLease /\ lease.proc = Child(l))
    /\ pidFile # None => pidFile.proc # Child(l)
    /\ Running => stateFile.proc # Child(l)

\* The start has ended: the launcher reports success, or it reports failure and
\* the child is dead, or it died itself.
Settled(l) ==
  \/ launch[l] \in {"ok", "dead"}
  \/ launch[l] \in {"failed_clean", "dirty"} /\ Exited(l)
=============================================================================
