---------------------------- MODULE UpgradeHandoff ----------------------------
(***************************************************************************)
(* `eva upgrade apply` (upgrade_cmd.rs) over the apply lock (apply_lock.rs) *)
(* and the supervisor handoff (handoff.rs, supervisor.rs, generation.rs,   *)
(* drain.rs, rollback.rs).  Several operators may run it at once, with the *)
(* same plan or with different ones; every file write truncates first, so  *)
(* a crash or another writer can tear the file.                            *)
(*                                                                         *)
(*  locks   plan ids whose lock file exists; nothing ever removes one      *)
(*  files   the three state files: empty, torn or what was written         *)
(*  run     the operator's command: its plan, its verdict and its step     *)
(*  pointed plans whose pointer was written, in order (history)            *)
(*  gated   plans whose policies, binary and health all passed (history)   *)
(***************************************************************************)
EXTENDS Naturals, Sequences, FiniteSets, SequencesExt

CONSTANTS Operators,  \* concurrent invocations
          PlanIds     \* plans on disk

VARIABLES locks, files, run, pointed, gated

vars == <<locks, files, run, pointed, gated>>

Files == {"prepared", "pointer", "committed"}
Gates == {"SupervisorHandoff", "ReleasePointerMutation"}
Empty == [plan |-> "none", status |-> "none"]
Torn  == [plan |-> "none", status |-> "torn"]
Idle  == [at |-> "idle", plan |-> "none", status |-> "none"]

\* parse_upgrade_apply_options, parse_upgrade_apply_health: the options that
\* decide the handoff.
Options == [store : BOOLEAN, allowed : SUBSET Gates,
            probe : {"simulated", "ready", "missing", "spawn_error", "exit_error", "timeout"},
            health : {"healthy", "failed", "unavailable"}]

\* probe_runtime_binary, RuntimeBinaryProbe::ensure_ready; without
\* --runtime-binary the probe is simulated and ready.
Ready(probe) == probe \in {"simulated", "ready"}

\* SupervisorHandoffCoordinator::handoff up to its first write: policies, the
\* binary, the candidate's health.  Promotion and the drain of an idle
\* generation cannot fail here: the health report names the candidate.
Decision(i) ==
    IF ~i.store THEN "locked"
    ELSE IF i.allowed # Gates THEN "denied"
    ELSE IF ~Ready(i.probe) \/ i.health # "healthy" THEN "blocked"
    ELSE "committed"

Init ==
    /\ locks = {} /\ files = [f \in Files |-> Empty]
    /\ run = [o \in Operators |-> Idle] /\ pointed = << >> /\ gated = {}

Step(o, at)       == run' = [run EXCEPT ![o].at = at]
End(o, status)    == run' = [run EXCEPT ![o] = [@ EXCEPT !.at = "done", !.status = status]]
Report(o, status) == [plan |-> run[o].plan, status |-> status]

\* create_upgrade_apply up to the lock: the plan file, its confirmation.
Parse(o) ==
    /\ run[o].at = "idle"
    /\ \E p \in PlanIds, confirm \in BOOLEAN :
         run' = [run EXCEPT ![o] = IF confirm THEN [at |-> "parsed", plan |-> p, status |-> "none"]
                                             ELSE [at |-> "done", plan |-> p, status |-> "denied"]]
    /\ UNCHANGED <<locks, files, pointed, gated>>

\* Fault: a lock that exists is taken over.
AcquireLockFault(o) ==
    /\ run[o].at = "parsed" /\ locks' = locks \cup {run[o].plan} /\ Step(o, "locked")
    /\ UNCHANGED <<files, pointed, gated>>

\* FileSystemUpgradeApplyLockStore::acquire_lock: create_new on <plan_id>.lock.
AcquireLock(o) ==
    /\ run[o].at = "parsed"
    /\ IF run[o].plan \in locks
       THEN End(o, "conflict") /\ UNCHANGED locks
       ELSE locks' = locks \cup {run[o].plan} /\ Step(o, "locked")
    /\ UNCHANGED <<files, pointed, gated>>

\* The policies are enforced only here, after the lock is taken.
Handoff(o) ==
    /\ run[o].at = "locked"
    /\ \E i \in Options :
         LET verdict == Decision(i) IN
         /\ run' = [run EXCEPT ![o].at = IF verdict \in {"locked", "denied"} THEN "done" ELSE "prepare",
                               ![o].status = verdict]
         /\ gated' = IF i.allowed = Gates /\ Ready(i.probe) /\ i.health = "healthy" THEN gated \cup {run[o].plan} ELSE gated
    /\ UNCHANGED <<locks, files, pointed>>

\* write_state_file opens with truncate(true)...
Truncate(f) == files' = [files EXCEPT ![f] = Empty]
\* ... and then writes at the start of what the file holds by now.
Put(f, v)   == \E w \in (IF files[f] = Empty THEN {v} ELSE {v, Torn}) : files' = [files EXCEPT ![f] = w]

OpenFile(o, at, f, then) ==
    /\ run[o].at = at /\ Truncate(f) /\ Step(o, then)
    /\ UNCHANGED <<locks, pointed, gated>>

OpenPrepared(o) == OpenFile(o, "prepare", "prepared", "preparing")
\* prepare_handoff; a blocked handoff ends here with its rollback plan.
WritePrepared(o) ==
    /\ run[o].at = "preparing" /\ Put("prepared", Report(o, run[o].status))
    /\ Step(o, IF run[o].status = "blocked" THEN "done" ELSE "point")
    /\ UNCHANGED <<locks, pointed, gated>>

OpenPointer(o) == OpenFile(o, "point", "pointer", "pointing")
\* write_release_pointer: the plan's generation, whatever the pointer named.
WritePointer(o) ==
    /\ run[o].at = "pointing" /\ Put("pointer", Report(o, "committed"))
    /\ pointed' = Append(pointed, run[o].plan) /\ Step(o, "commit")
    /\ UNCHANGED <<locks, gated>>

OpenCommitted(o) == OpenFile(o, "commit", "committed", "committing")
WriteCommitted(o) ==
    /\ run[o].at = "committing" /\ Put("committed", Report(o, "committed"))
    /\ Step(o, "done")
    /\ UNCHANGED <<locks, pointed, gated>>

\* The command dies between two steps; the next invocation starts afresh.
Crash(o) ==
    /\ run[o].at \notin {"idle", "done"} 
    /\ run' = [run EXCEPT ![o] = Idle] /\ UNCHANGED <<locks, files, pointed, gated>>

\* The operator runs the command again.
Again(o) ==
    /\ run[o].at = "done" /\ run' = [run EXCEPT ![o] = Idle]
    /\ UNCHANGED <<locks, files, pointed, gated>>

Next == \E o \in Operators :
    \/ Parse(o) \/ AcquireLock(o) \/ Handoff(o)
    \/ OpenPrepared(o) \/ WritePrepared(o) \/ OpenPointer(o) \/ WritePointer(o)
    \/ OpenCommitted(o) \/ WriteCommitted(o) \/ Crash(o) \/ Again(o)

Spec == Init /\ [][Next]_vars

-----------------------------------------------------------------------------
\* The lock keeps a plan from moving the release pointer twice, across
\* retries, crashes and concurrent invocations of upgrade apply.
PlanPointsOnce == IsInjective(pointed)

\* The three writes of handoff keep their order: a committed record names a
\* plan whose pointer was written, and a pointer names a plan with a lock.
RecordsFollowPointer ==
    /\ files["committed"] \notin {Empty, Torn} => files["committed"].plan \in Range(pointed)
    /\ Range(pointed) \subseteq locks

\* Only a plan whose policies, binary and health all passed ever moves the
\* release pointer.
PointerNeedsGates == Range(pointed) \subseteq gated
=============================================================================
