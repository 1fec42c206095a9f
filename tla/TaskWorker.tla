------------------------------ MODULE TaskWorker ------------------------------
(***************************************************************************)
(* The daemon's task execution: the worker thread, the heartbeat thread of *)
(* its attempt, the control thread (submission, cancellation, replay       *)
(* reconciliation, drain) and the restart recovery, over the task store    *)
(* and the effect ledger.                                                  *)
(* eva-runtime/src/task_worker.rs, eva-runtime/src/recovery.rs,            *)
(* eva-storage/src/effect_ledger.rs.                                       *)
(*                                                                         *)
(* One step is one store or ledger transaction, or one access to state the *)
(* threads share (claim gate, registry of active attempts, cancellation    *)
(* flag, handler result capability).  TaskStateStore shows that a store    *)
(* operation may be taken as one step.  The process can die after any step.*)
(***************************************************************************)
EXTENDS TaskRecord

CONSTANTS
  Tasks, Env, Results, MaxTime, MaxGen,   \* as TaskLifecycle
  Owner,      \* execution owner of the daemon's single worker
  Known,      \* tasks whose kind has a registered handler
  Effectful,  \* those whose handler is registered as non-idempotent
  Keys,       \* idempotency keys
  KeyOf,      \* key of each task
  OpOf,       \* operation identity of each task
  Origin      \* for a replay delivery, the task whose dead letter it replays

ASSUME WorkerAssumption ==
  /\ Effectful \subseteq Known /\ Known \subseteq Tasks
  /\ KeyOf \in [Tasks -> Keys] /\ None \notin Tasks /\ None \notin Results
  /\ \A t \in Tasks : Env[t].replay <=> Origin[t] # None

\* What the store, the ledger and the worker keep.
Snapshots == SnapshotType({Owner}, Results, {"operator", "shutdown"})
Fences == [generation : Nat, owner : {Owner}, attempt : Nat]
EffectRecords ==
  [op : {OpOf[t] : t \in Tasks}, state : {"prepared", "committed"}, task : Tasks,
   fence : Fences, result : Results \cup {None}]

ASSUME AbsenceAssumption == None \notin Snapshots /\ None \notin EffectRecords

\* What TaskLifecycle assumes of the parameters they share.
ASSUME RecordAssumption ==
  /\ None \notin Int \cup BOOLEAN \cup {"error", "timeout", UnknownEffect, RestartNote}
  /\ Env \in [Tasks -> EnvType]
  /\ None \notin {Owner, "operator", "shutdown"}
  /\ MaxTime \in Nat /\ MaxGen \in Nat \ {0}

-----------------------------------------------------------------------------
(* One record of eva-storage/src/effect_ledger.rs and the decisions taken on *)
(* it.  A record binds an idempotency key to one operation identity (kind,   *)
(* agent, scope and input digest, here one value op) and to the task attempt *)
(* that prepared it; it moves from prepared to committed once and never      *)
(* back, and is never removed.                                               *)

PreparedRecord(op, t, fence) ==
  [op |-> op, state |-> "prepared", task |-> t, fence |-> fence, result |-> None]

OperationMatches(r, op) == r.op = op

\* verify_effect_task_claim, inside the ledger transaction: the attempt must
\* still be the live, uncancelled and unexpired claim it was dispatched with.
ClaimRunnable(s) == s.status = "running" /\ ~s.cancelRequested /\ ~s.cancelAccepted

VerifyEffectTaskClaim(s, fence, time) ==
  IF ~ClaimRunnable(s) THEN "refused"
  ELSE IF DeadlineExpired(s, time) THEN "expired"
  ELSE IF VerifyFence(s, fence) THEN "ok" ELSE "refused"

\* Fault: only a committed record stops a second dispatch.
LedgerStateFault(r, op) ==
  IF r = None THEN "absent"
  ELSE IF ~OperationMatches(r, op) THEN "collision"
  ELSE IF r.state = "prepared" THEN "absent" ELSE r.state

\* What inspect_for_claim and prepare_for_claim find under a key.
LedgerState(r, op) ==
  IF r = None THEN "absent"
  ELSE IF OperationMatches(r, op) THEN r.state ELSE "collision"

\* commit is accepted from the attempt that prepared the record only.
PreparedBy(r, op, t, fence) ==
  r # None /\ OperationMatches(r, op) /\ r.task = t /\ r.fence = fence

CommitRecord(r, result) == [r EXCEPT !.state = "committed", !.result = result]

Committed(r) == r # None /\ r.state = "committed"

-----------------------------------------------------------------------------
VARIABLES
  rec, gen, now,  \* the store: as TaskLifecycle
  ledger,     \* effect record of each key, or None
  calls,      \* how often the handler behind each key was invoked
  letters,    \* dead letters published, each by a generation of the daemon
  phase,      \* of the daemon process
  scan,       \* tasks the restart recovery has still to visit
  gate,       \* claim gate open; a closed gate after start is stop_requested
  wk,         \* the worker thread and its attempt
  ctl         \* the control thread

store  == <<rec, gen, now>>
effects == <<ledger, calls>>
vars   == <<rec, gen, now, ledger, calls, letters, phase, scan, gate, wk, ctl>>

Exists(t) == rec[t] # None
Put(t, s) == rec' = [rec EXCEPT ![t] = [s EXCEPT !.generation = gen]]
Serving == phase \notin {"recovering", "startFailed"}

\* A worker without an attempt; cap is the HandlerResultCapability, fin the way
\* the decision will be persisted, quiet suppresses the failure evidence.
IdleWorker ==
  [pc |-> "idle", task |-> None, fence |-> None, active |-> FALSE, cancel |-> FALSE,
   cap |-> "pending", hbError |-> FALSE, quiet |-> FALSE, fin |-> None, out |-> None]

IdleControl == [pc |-> "idle", task |-> None, fence |-> None]

Completed(r)      == Outcome("completed", r, None, None)
Failed(retryable) == Outcome("failed", None, "error", retryable)
TimedOut(retryable) == Outcome("timed_out", None, "timeout", retryable)

Init ==
  /\ rec = [t \in Tasks |-> None] /\ gen = 1 /\ now = 0
  /\ ledger = [k \in Keys |-> None] /\ calls = [k \in Keys |-> 0]
  /\ letters = {} /\ phase = "recovering" /\ scan = {}
  /\ gate = FALSE /\ wk = IdleWorker /\ ctl = IdleControl

-----------------------------------------------------------------------------
(* run_task_worker_loop.                                                   *)

Me == rec[wk.task]

\* The steps of the worker thread leave the rest of the daemon alone.
WorkerStep == UNCHANGED <<gen, now, phase, scan, gate, ctl>>

NeedsEvidence(s) ==
  /\ ~s.env.replay /\ s.status \in {"failed", "timed_out"}
  /\ s.retryable # None /\ s.attempts \notin s.deadLetters

\* Claim and registration happen under the claim gate's mutex, which the
\* control thread needs to close the gate.
Claim(t) ==
  /\ Serving /\ wk.pc = "idle" /\ gate /\ Exists(t) /\ Claimable(rec[t])
  /\ LET s == ClaimForExecution(rec[t], Owner, now)
     IN /\ Put(t, s)
        /\ wk' = [IdleWorker EXCEPT !.pc = "claimed", !.task = t,
                    !.fence = FenceOf([s EXCEPT !.generation = gen])]
  /\ UNCHANGED <<effects, letters>> /\ WorkerStep

Register ==
  /\ wk.pc = "claimed" /\ wk' = [wk EXCEPT !.pc = "registered", !.active = TRUE]
  /\ UNCHANGED <<rec, effects, letters>> /\ WorkerStep

WorkerExit ==
  /\ Serving /\ wk.pc = "idle" /\ ~gate /\ wk' = [wk EXCEPT !.pc = "exited"]
  /\ UNCHANGED <<rec, effects, letters>> /\ WorkerStep

-----------------------------------------------------------------------------
(* execute_task_claim up to the dispatch.                                  *)

Decide(fin, out) == wk' = [wk EXCEPT !.pc = "finish", !.fin = fin, !.out = out]

\* Without a heartbeat thread the attempt is unregistered and failed at once.
HeartbeatStartFails ==
  /\ wk.pc = "registered"
  /\ wk' = [wk EXCEPT !.pc = "finish", !.active = FALSE, !.quiet = TRUE,
                      !.fin = "plain", !.out = Failed(FALSE)]
  /\ UNCHANGED <<rec, effects, letters>> /\ WorkerStep

CancelPrecedesDispatch ==
  wk' = [wk EXCEPT !.pc = "finish", !.cancel = TRUE, !.quiet = TRUE,
                   !.fin = "plain", !.out = Failed(FALSE)]

PreDispatch ==
  /\ wk.pc = "registered"
  /\ \/ Me.cancelRequested /\ CancelPrecedesDispatch /\ UNCHANGED rec
     \/ /\ ~Me.cancelRequested /\ ~gate
        /\ Put(wk.task, RequestCancel(Me, "shutdown")) /\ CancelPrecedesDispatch
     \/ /\ ~Me.cancelRequested /\ gate /\ UNCHANGED rec
        /\ IF DeadlineExpired(Me, now) THEN Decide("plain", TimedOut(TRUE))
           ELSE wk' = [wk EXCEPT !.pc = "dispatch"]
  /\ UNCHANGED <<effects, letters>> /\ WorkerStep

-----------------------------------------------------------------------------
(* dispatch_claimed_attempt for safe and for unknown handlers.  Whatever   *)
(* happened, an expired deadline turns the decision into a timeout.        *)

DecideSafe(out) ==
  Decide("plain", IF DeadlineExpired(Me, now) THEN TimedOut(TRUE) ELSE out)

HandlerErrors == {Failed(b) : b \in BOOLEAN} \cup {TimedOut(b) : b \in BOOLEAN}

DispatchSafe ==
  /\ wk.pc = "dispatch" /\ wk.task \notin Effectful
  /\ \/ wk.task \notin Known /\ DecideSafe(Failed(FALSE))
     \/ /\ wk.task \in Known
        /\ \/ \E b \in BOOLEAN : DecideSafe(Failed(b))        \* unreadable payload
           \/ wk' = [wk EXCEPT !.pc = "handling"]
  /\ UNCHANGED <<rec, effects, letters>> /\ WorkerStep

SafeHandlerReturns ==
  /\ wk.pc = "handling" /\ wk.task \notin Effectful /\ wk.cap = "pending"
  /\ \E out \in {Completed(r) : r \in Results} \cup HandlerErrors : DecideSafe(out)
  /\ UNCHANGED <<rec, effects, letters>> /\ WorkerStep

\* The poll between two waits for the result: the drain revoked the result, or
\* the deadline passed and the worker revokes it itself.  The handler thread is
\* detached.
SafeHandlerAbandoned ==
  /\ wk.pc = "handling" /\ wk.task \notin Effectful
  /\ \/ wk.cap = "revoked" /\ DecideSafe(TimedOut(FALSE))
     \/ wk.cap = "pending" /\ DeadlineExpired(Me, now) /\ DecideSafe(TimedOut(TRUE))
  /\ UNCHANGED <<rec, effects, letters>> /\ WorkerStep

-----------------------------------------------------------------------------
(* dispatch_non_idempotent_attempt.                                        *)

MyKey == KeyOf[wk.task]
MyOp  == OpOf[wk.task]
Found == LedgerState(ledger[MyKey], MyOp)
Verdict == VerifyEffectTaskClaim(Me, wk.fence, now)

\* The ways a ledger transaction ends the dispatch without the handler.
NotDispatched ==
  \/ Verdict = "refused" /\ Decide("effect", Failed(FALSE))
  \/ Verdict = "expired" /\ Decide("effect", TimedOut(TRUE))
  \/ /\ Verdict = "ok" /\ Found \in {"collision", "prepared"}
     /\ Decide("effect", Failed(FALSE))
  \/ /\ Verdict = "ok" /\ Found = "committed"
     /\ Decide("committed", Completed(ledger[MyKey].result))

InspectForClaim ==
  /\ wk.pc = "dispatch" /\ wk.task \in Effectful
  /\ \/ NotDispatched
     \/ /\ Verdict = "ok" /\ Found = "absent"
        /\ \/ \E b \in BOOLEAN : Decide("effect", Failed(b))  \* unreadable payload
           \/ wk' = [wk EXCEPT !.pc = "prepare"]
  /\ UNCHANGED <<rec, effects, letters>> /\ WorkerStep

PrepareForClaim ==
  /\ wk.pc = "prepare"
  /\ \/ NotDispatched /\ UNCHANGED ledger
     \/ /\ Verdict = "ok" /\ Found = "absent"
        /\ ledger' = [ledger EXCEPT ![MyKey] = PreparedRecord(MyOp, wk.task, wk.fence)]
        /\ wk' = [wk EXCEPT !.pc = "prepared"]
  /\ UNCHANGED <<rec, calls, letters>> /\ WorkerStep

\* persist_effect_record fails, before or after its rename took effect.
PrepareFails ==
  /\ wk.pc = "prepare" /\ Verdict = "ok" /\ Found = "absent"
  /\ \/ UNCHANGED ledger
     \/ ledger' = [ledger EXCEPT ![MyKey] = PreparedRecord(MyOp, wk.task, wk.fence)]
  /\ Decide("effect", Failed(FALSE))
  /\ UNCHANGED <<rec, calls, letters>> /\ WorkerStep

\* A cancellation seen here, or a handler thread that cannot be spawned, leaves
\* the prepared record to an operator.
InvokeEffect ==
  /\ wk.pc = "prepared" /\ ~wk.cancel
  /\ calls' = [calls EXCEPT ![MyKey] = @ + 1]
  /\ wk' = [wk EXCEPT !.pc = "handling"]
  /\ UNCHANGED <<rec, ledger, letters>> /\ WorkerStep

AbandonPrepared ==
  /\ wk.pc = "prepared" /\ Decide("block", Failed(FALSE))
  /\ UNCHANGED <<rec, effects, letters>> /\ WorkerStep

EffectHandlerReturns ==
  /\ wk.pc = "handling" /\ wk.task \in Effectful /\ wk.cap = "pending"
  /\ \E out \in {Completed(r) : r \in Results} \cup {Failed(FALSE), TimedOut(FALSE)} :
       wk' = [wk EXCEPT !.pc = "returned", !.cap = "accepted", !.out = out]
  /\ UNCHANGED <<rec, effects, letters>> /\ WorkerStep

EffectHandlerAbandoned ==
  /\ wk.pc = "handling" /\ wk.task \in Effectful /\ wk.cap = "revoked"
  /\ Decide("block", Failed(FALSE))
  /\ UNCHANGED <<rec, effects, letters>> /\ WorkerStep

EffectHandlerFailed ==
  /\ wk.pc = "returned" /\ wk.out.status # "completed"
  /\ IF wk.cancel THEN Decide("block", Failed(FALSE)) ELSE Decide("effect", wk.out)
  /\ UNCHANGED <<rec, effects, letters>> /\ WorkerStep

CommitEffect ==
  /\ wk.pc = "returned" /\ wk.out.status = "completed"
  /\ LET mine == PreparedBy(ledger[MyKey], MyOp, wk.task, wk.fence)
         done == [ledger EXCEPT ![MyKey] = CommitRecord(@, wk.out.result)]
     IN \/ mine /\ ledger' = done /\ Decide("committed", wk.out)
        \/ mine /\ ledger' \in {ledger, done} /\ Decide("effect", Failed(FALSE)) \* I/O error
        \/ ~mine /\ UNCHANGED ledger /\ Decide("effect", Failed(FALSE))
  /\ UNCHANGED <<rec, calls, letters>> /\ WorkerStep

-----------------------------------------------------------------------------
(* execute_task_claim after the dispatch.                                  *)

Unregister(pc) == wk' = [IdleWorker EXCEPT !.pc = pc]

\* Fault: a late outcome overrides the cancellation.
FinishedFault(out) ==
  CASE wk.fin = "block"         -> BlockUnknownEffect(Me)
    [] wk.fin = "committed"     -> CompleteCommittedEffect(Me, out.result)
    [] OTHER                    -> ApplyOutcome(Me, out, now)

Finished(out) ==
  CASE wk.fin = "block"     -> BlockUnknownEffect(Me)
    [] wk.fin = "committed" -> CompleteCommittedEffect(Me, out.result)
    [] OTHER -> IF Me.status = "cancelling" THEN MarkCancelled(Me)
                ELSE ApplyOutcome(Me, out, now)

\* A lost heartbeat replaces the outcome of an attempt without an effect.
Finish ==
  /\ wk.pc = "finish" /\ VerifyFence(Me, wk.fence) /\ Me.status \in Active
  /\ \E out \in IF wk.hbError /\ wk.fin = "plain" THEN {Failed(b) : b \in BOOLEAN}
                ELSE {wk.out} :
       /\ Put(wk.task, Finished(out))
       /\ IF ~wk.quiet /\ NeedsEvidence(Finished(out))
          THEN wk' = [wk EXCEPT !.pc = "evidence"] ELSE Unregister("idle")
  /\ UNCHANGED <<effects, letters>> /\ WorkerStep

\* Any error of the store or the event bus ends the worker thread.
WorkerDies ==
  /\ wk.pc \in {"finish", "evidence", "checkpoint"} /\ Unregister("dead")
  /\ UNCHANGED <<rec, effects, letters>> /\ WorkerStep

\* Failure evidence: the dead letter first, the task's summary of it second.
\* The loop also picks up what an earlier process left between the two.
FindEvidence(t) ==
  /\ Serving /\ wk.pc = "idle" /\ gate /\ Exists(t) /\ NeedsEvidence(rec[t])
  /\ wk' = [IdleWorker EXCEPT !.pc = "evidence", !.task = t]
  /\ UNCHANGED <<rec, effects, letters>> /\ WorkerStep

HasLetter(t, attempt) == \E l \in letters : l.task = t /\ l.attempt = attempt

\* Fault: the dead letter is left to the next start.
RecordDeadLetterFault ==
  /\ wk.pc = "evidence" /\ wk' = [wk EXCEPT !.pc = "checkpoint"]
  /\ UNCHANGED <<rec, effects, letters>> /\ WorkerStep

RecordDeadLetter ==
  /\ wk.pc = "evidence"
  /\ letters' = IF HasLetter(wk.task, Me.attempts) THEN letters
                ELSE letters \cup {[task |-> wk.task, attempt |-> Me.attempts, by |-> gen]}
  /\ wk' = [wk EXCEPT !.pc = "checkpoint"]
  /\ UNCHANGED <<rec, effects>> /\ WorkerStep

CheckpointEvidence ==
  /\ wk.pc = "checkpoint" /\ NeedsEvidence(Me)
  /\ Put(wk.task, AddDeadLetter(Me, Me.attempts)) /\ Unregister("idle")
  /\ UNCHANGED <<effects, letters>> /\ WorkerStep

-----------------------------------------------------------------------------
(* TaskHeartbeatLoop, from registration until the decision is made.        *)

HeartbeatRuns ==
  wk.active /\ ~wk.hbError /\ wk.pc \in {"registered", "dispatch", "prepare", "prepared",
                                         "handling", "returned"}

Heartbeat ==
  /\ HeartbeatRuns /\ now > Me.heartbeat
  /\ Put(wk.task, TouchHeartbeat(Me, now))
  /\ UNCHANGED <<gen, now, effects, letters, phase, scan, gate, wk, ctl>>

HeartbeatFails ==
  /\ HeartbeatRuns /\ wk' = [wk EXCEPT !.hbError = TRUE, !.cancel = TRUE]
  /\ UNCHANGED <<store, effects, letters, phase, scan, gate, ctl>>

-----------------------------------------------------------------------------
(* The control thread of a serving daemon.                                 *)

Control == phase = "serving" /\ UNCHANGED <<gen, now, effects, letters, scan>>

Submit(t) ==
  /\ Control /\ ctl.pc = "idle" /\ Origin[t] = None /\ ~Exists(t)
  /\ Put(t, QueuedSnapshot(Env[t]))
  /\ UNCHANGED <<phase, gate, wk, ctl>>

\* cancel_control_task makes the request durable, then signals the attempt.
CancelTask(t) ==
  /\ Control /\ ctl.pc = "idle" /\ Exists(t)
  /\ IF rec[t].cancelRequested /\ rec[t].cancelReason = "operator" THEN UNCHANGED rec
     ELSE Put(t, IF rec[t].status = "queued" THEN MarkCancelled(RequestCancel(rec[t], "operator"))
                 ELSE RequestCancel(rec[t], "operator"))
  /\ ctl' = [ctl EXCEPT !.pc = "signal", !.task = t]
  /\ UNCHANGED <<phase, gate, wk>>

SignalCancellation ==
  /\ Control /\ ctl.pc = "signal" /\ ctl' = IdleControl
  /\ wk' = [wk EXCEPT !.cancel = @ \/ (wk.active /\ wk.task = ctl.task)]
  /\ UNCHANGED <<rec, phase, gate>>

\* reconcile_replay_delivery, driven by the scheduler for a dead letter.
ReconcileReplay(t) ==
  /\ Control /\ ctl.pc = "idle" /\ gate /\ wk.pc # "dead"
  /\ Origin[t] # None /\ \E l \in letters : l.task = Origin[t]
  /\ \/ ~Exists(t) /\ Put(t, QueuedSnapshot(Env[t]))
     \/ /\ Exists(t) /\ RetryStepEnabled(rec[t], now)
        /\ Put(t, RetryStep(rec[t], now))
     \/ /\ Exists(t) /\ rec[t].status = "interrupted" /\ Abandoned(rec[t])
        /\ Put(t, Requeue(rec[t]))
  /\ UNCHANGED <<phase, gate, wk, ctl>>

-----------------------------------------------------------------------------
(* drain_and_stop.                                                         *)

DrainSteps == {"grace", "drainCancel", "drainSignal", "cooperate", "flush", "join"}
GoTo(pc) == ctl' = [ctl EXCEPT !.pc = pc]
DrainEnds(ph) == phase' = ph /\ ctl' = IdleControl

CloseClaimGate ==
  /\ Control /\ ctl.pc = "idle" /\ gate /\ wk.pc # "claimed"
  /\ gate' = FALSE /\ GoTo("grace") /\ UNCHANGED <<rec, phase, wk>>

WaitForIdle ==
  /\ Control /\ ctl.pc \in {"grace", "cooperate", "flush"} /\ ~wk.active
  /\ GoTo("join") /\ UNCHANGED <<rec, phase, gate, wk>>

GraceElapses ==
  /\ Control /\ ctl.pc = "grace" /\ wk.active
  /\ ctl' = [pc |-> "drainCancel", task |-> wk.task, fence |-> wk.fence]
  /\ UNCHANGED <<rec, phase, gate, wk>>

\* request_execution_cancellation: only the exact attempt, and only while active.
DrainCancel ==
  /\ Control /\ ctl.pc = "drainCancel"
  /\ LET s == rec[ctl.task]
     IN \/ ~VerifyFence(s, ctl.fence) /\ DrainEnds("drainFailed") /\ UNCHANGED rec
        \/ /\ VerifyFence(s, ctl.fence) /\ GoTo("drainSignal") /\ UNCHANGED phase
           /\ IF IsTerminal(s) \/ s.cancelRequested THEN UNCHANGED rec
              ELSE Put(ctl.task, RequestCancel(s, "shutdown"))
  /\ UNCHANGED <<gate, wk>>

\* Fault: the drain cancels durably but does not signal the handler.
DrainSignalFault ==
  /\ Control /\ ctl.pc = "drainSignal" /\ GoTo("cooperate")
  /\ UNCHANGED <<rec, phase, gate, wk>>

DrainSignal ==
  /\ Control /\ ctl.pc = "drainSignal" /\ GoTo("cooperate")
  /\ wk' = [wk EXCEPT !.cancel = @ \/ (wk.active /\ wk.task = ctl.task)]
  /\ UNCHANGED <<rec, phase, gate>>

\* Fault: the handler is cancelled again but keeps its result permit.
RevokeHandlerResultsFault ==
  /\ Control /\ ctl.pc = "cooperate" /\ wk.active /\ GoTo("flush")
  /\ wk' = [wk EXCEPT !.cancel = TRUE]
  /\ UNCHANGED <<rec, phase, gate>>

RevokeHandlerResults ==
  /\ Control /\ ctl.pc = "cooperate" /\ wk.active /\ GoTo("flush")
  /\ wk' = [wk EXCEPT !.cap = IF @ = "pending" THEN "revoked" ELSE @, !.cancel = TRUE]
  /\ UNCHANGED <<rec, phase, gate>>

Residual == {t \in Tasks : Exists(t) /\ rec[t].status \in Active /\ rec[t].owner = Owner}

\* Fault: a joined thread counts as a clean stop.
JoinWorkerFault ==
  /\ Control /\ ctl.pc = "join" /\ wk.pc \in {"exited", "dead"}
  /\ DrainEnds("stopped")
  /\ UNCHANGED <<rec, gate, wk>>

JoinWorker ==
  /\ Control /\ ctl.pc = "join" /\ wk.pc \in {"exited", "dead"}
  /\ DrainEnds(IF wk.pc = "exited" /\ Residual = {} THEN "stopped" ELSE "drainFailed")
  /\ UNCHANGED <<rec, gate, wk>>

DrainBudgetExceeded ==
  /\ Control /\ ctl.pc \in DrainSteps /\ DrainEnds("drainFailed")
  /\ UNCHANGED <<rec, gate, wk>>

-----------------------------------------------------------------------------
(* Restart: recover_effect_aware_task for every record, then readiness.    *)

\* recover_registered_safe_task over recover_abandoned_* and the baseline.
SafeRecovery(s) ==
  IF Abandoned(s) THEN Requeue(s)
  ELSE IF s.status = "running" /\ s.env.replay THEN MarkInterrupted(s)
  ELSE IF s.status \in Active THEN BaselineInterrupt(s) ELSE s

\* Fault: recovery looks at active tasks only.
RecoveredTaskFault(t) ==
  LET s     == rec[t]
      entry == ledger[KeyOf[t]]
  IN IF t \notin Known THEN IF s.status \in Active THEN MarkInterrupted(s) ELSE s
     ELSE IF IsTerminal(s) THEN s
     ELSE IF entry = None THEN SafeRecovery(s)
     ELSE IF Committed(entry) THEN RecoverCommitted(s, entry.result)
     ELSE BlockUnknownEffect(s)

\* The record recovery leaves behind; None when it refuses to start the daemon.
RecoveredTask(t) ==
  LET s     == rec[t]
      entry == ledger[KeyOf[t]]
      found == LedgerState(entry, OpOf[t])
  IN IF t \notin Known THEN IF s.status \in Active THEN MarkInterrupted(s) ELSE s
     ELSE IF t \notin Effectful THEN SafeRecovery(s)
     ELSE CASE found = "absent" -> SafeRecovery(s)
            [] found = "collision" -> None
            [] found = "prepared" ->
                 IF s.status = "completed" THEN None
                 ELSE IF RequiresOperator(s) THEN s ELSE BlockUnknownEffect(s)
            [] found = "committed" ->
                 IF s.status # "completed" THEN RecoverCommitted(s, entry.result)
                 ELSE IF s.result = entry.result THEN s ELSE None

RecoverTask(t) ==
  /\ phase = "recovering" /\ t \in scan
  /\ LET s == RecoveredTask(t)
     IN \/ s = None /\ phase' = "startFailed" /\ UNCHANGED <<rec, scan>>
        \/ /\ s # None /\ scan' = scan \ {t} /\ UNCHANGED phase
           /\ IF s = rec[t] THEN UNCHANGED rec ELSE Put(t, s)
  /\ UNCHANGED <<gen, now, effects, letters, gate, wk, ctl>>

StartServing ==
  /\ phase = "recovering" /\ scan = {}
  /\ phase' = "serving" /\ gate' = TRUE
  /\ UNCHANGED <<store, effects, letters, scan, wk, ctl>>

\* The process ends, at any point, and the next one takes over the files.
Restart ==
  /\ gen < MaxGen /\ gen' = gen + 1
  /\ phase' = "recovering" /\ scan' = {t \in Tasks : Exists(t)}
  /\ gate' = FALSE /\ wk' = IdleWorker /\ ctl' = IdleControl
  /\ UNCHANGED <<rec, now, effects, letters>>

Tick ==
  /\ now < MaxTime /\ now' = now + 1
  /\ UNCHANGED <<rec, gen, effects, letters, phase, scan, gate, wk, ctl>>

-----------------------------------------------------------------------------
\* What the worker does by itself once it has an attempt or evidence in hand.
WorkerProgress ==
  \/ Register
  \/ PreDispatch
  \/ DispatchSafe
  \/ SafeHandlerAbandoned
  \/ InspectForClaim
  \/ PrepareForClaim
  \/ InvokeEffect
  \/ AbandonPrepared
  \/ EffectHandlerAbandoned
  \/ EffectHandlerFailed
  \/ CommitEffect
  \/ Finish
  \/ RecordDeadLetter
  \/ CheckpointEvidence
  \/ WorkerExit

WorkerFaults ==
  \/ HeartbeatStartFails
  \/ PrepareFails
  \/ WorkerDies

HandlerReturns ==
  \/ SafeHandlerReturns
  \/ EffectHandlerReturns

DrainProgress ==
  \/ WaitForIdle
  \/ GraceElapses
  \/ DrainCancel
  \/ DrainSignal
  \/ RevokeHandlerResults
  \/ JoinWorker

Next ==
  \/ \E t \in Tasks : Claim(t) \/ FindEvidence(t)
  \/ WorkerProgress
  \/ WorkerFaults
  \/ HandlerReturns
  \/ Heartbeat
  \/ HeartbeatFails
  \/ \E t \in Tasks : Submit(t) \/ CancelTask(t) \/ ReconcileReplay(t)
  \/ SignalCancellation
  \/ CloseClaimGate
  \/ DrainProgress
  \/ DrainBudgetExceeded
  \/ \E t \in Tasks : RecoverTask(t)
  \/ StartServing
  \/ Restart
  \/ Tick

Spec == Init /\ [][Next]_vars

\* Running threads are scheduled.  Nothing is assumed of handlers, which may
\* never return, of the drain budget, of faults or of the clock.
FairSpec == Spec /\ WF_vars(WorkerProgress) /\ WF_vars(DrainProgress)

-----------------------------------------------------------------------------
(* Properties.                                                             *)

\* The shape of the worker, the control thread and the ledger.
TypeOK ==
  /\ gen \in 1..MaxGen /\ now \in 0..MaxTime
  /\ phase \in {"recovering", "startFailed", "serving", "stopped", "drainFailed"}
  /\ scan \subseteq Tasks /\ gate \in BOOLEAN /\ letters \subseteq [task : Tasks, attempt : Nat, by : 1..gen]
  /\ \A t \in Tasks : Exists(t) => rec[t].status \in Statuses
  /\ \A k \in Keys : ledger[k] # None => ledger[k].state \in {"prepared", "committed"}
  /\ calls \in [Keys -> Nat]
  /\ wk.pc \in {"idle", "claimed", "registered", "dispatch", "prepare", "prepared",
                "handling", "returned", "finish", "evidence", "checkpoint", "exited", "dead"}
  /\ wk.cap \in {"pending", "accepted", "revoked"}
  /\ wk.fin \in {None, "plain", "effect", "committed", "block"}
  /\ ctl.pc \in {"idle", "signal"} \cup DrainSteps

\* The daemon drives the task records only through moves TaskLifecycle allows,
\* whatever its threads, drain and recovery do in between.
Lifecycle == INSTANCE TaskLifecycle WITH
               serving <- Serving, Owners <- {Owner}, Reasons <- {"operator", "shutdown"}
LifecycleSpec == Lifecycle!Spec

\* Non-idempotent tasks are executed at most once: whatever retries, replays,
\* cancellations, lost I/O and restarts happen between prepare, invocation,
\* commit and the task's own outcome, the operation behind a key starts at most
\* once, only after its record is durable, and every task reported completed
\* carries the committed result of its own operation.
Progress(k) ==
  CASE calls[k] = 0 /\ ledger[k] = None       -> "absent"
    [] calls[k] = 0 /\ ledger[k] # None       -> "reserved"
    [] calls[k] = 1 /\ ledger[k] # None       ->
         IF Committed(ledger[k]) THEN "known" ELSE "started"
    [] OTHER                                  -> "repeated"

Once == INSTANCE EffectOnce WITH
          Effects <- Effectful, Nothing <- None,
          effect <- [k \in Keys |-> Progress(k)],
          bound <- [k \in Keys |-> IF ledger[k] = None THEN None ELSE ledger[k].op],
          value <- [k \in Keys |-> IF Committed(ledger[k]) THEN ledger[k].result ELSE None],
          reported <- [t \in Effectful |->
                         IF Exists(t) /\ rec[t].status = "completed"
                         THEN rec[t].result ELSE None]
EffectOnceSpec == Once!Spec

\* A durable cancellation reaches the running attempt: past the check before
\* dispatch, the cancellation flag is set as soon as the thread that made the
\* request durable has taken its next step.
CancelReachesAttempt ==
  phase = "serving" /\ ctl.pc \notin {"signal", "drainSignal"}
    /\ wk.pc \in {"dispatch", "prepare", "prepared", "handling", "returned"}
    /\ Me.cancelRequested => wk.cancel

\* A daemon that reports a clean stop leaves nothing half done: no attempt is
\* still active and every dead letter it published is on its task's record.
StoppedIsSettled ==
  phase = "stopped" =>
    /\ \A t \in Tasks : Exists(t) => rec[t].status \notin Active
    /\ \A l \in letters : l.by = gen => l.attempt \in rec[l.task].deadLetters

\* The task's summary of a failure never claims a dead letter that was lost.
SummaryHasLetter ==
  \A t \in Tasks : Exists(t) => \A a \in rec[t].deadLetters : HasLetter(t, a)

\* A dead letter summary on a task record has its letter, wherever the daemon
\* stopped between the two writes, and the worker's state keeps its shape.
LettersAreExact == TypeOK /\ SummaryHasLetter

\* When a restarted daemon begins to serve, every non-idempotent task with a
\* ledger entry is settled by it: completed with the committed result, or
\* blocked for an operator because the outcome is unknown.
RecoverySettlesEffects ==
  [][phase = "recovering" /\ phase' = "serving" =>
       \A t \in Effectful : Exists(t) /\ ledger[KeyOf[t]] # None =>
         IF Committed(ledger[KeyOf[t]])
         THEN rec[t].status = "completed" /\ rec[t].result = ledger[KeyOf[t]].result
         ELSE RequiresOperator(rec[t])]_vars

\* A drain that began ends, even with a handler that never returns: after the
\* grace and the cooperative period its result is revoked and the worker goes on.
DrainTerminates ==
  ctl.pc \in DrainSteps ~> phase # "serving"

\* A non-idempotent handler that was invoked and whose result was not committed
\* has an unknown outcome: its task is never closed as cancelled.
CancelledMeansNoEffect ==
  \A t \in Effectful : Exists(t) /\ rec[t].status = "cancelled" =>
    LET entry == ledger[KeyOf[t]]
    IN ~(entry # None /\ entry.task = t /\ entry.state = "prepared" /\ calls[KeyOf[t]] > 0)
=============================================================================
