------------------------------ MODULE TaskRecord ------------------------------
(***************************************************************************)
(* The durable task snapshot of eva-storage/src/task_state.rs and the pure *)
(* transitions its methods make.  Nothing here is stateful: the modules    *)
(* TaskLifecycle, TaskStateStore and TaskWorker apply these operators to   *)
(* the records they keep.                                                  *)
(*                                                                         *)
(* Data abstraction.  The envelope keeps its attempt policy and the replay *)
(* marker.  execution_owner, attempt number and cancel_token identify one  *)
(* claim together; the token is drawn once per claim, so the pair (owner,  *)
(* attempts) stands for it.  An error is its kind, a result is its digest, *)
(* an interrupted_reason is the class of its text, logs are left out.      *)
(***************************************************************************)
EXTENDS Integers, FiniteSets

CONSTANT None            \* Rust's Option::None

Statuses == {"queued", "running", "cancelling", "completed", "failed",
             "timed_out", "cancelled", "interrupted"}
Terminal == {"completed", "failed", "cancelled", "timed_out", "interrupted"}
Active   == {"running", "cancelling"}

\* The text of interrupted_reason: the UNKNOWN_EFFECT_RECOVERY_REASON_PREFIX
\* class asks for an operator, every other text is a plain restart note.
UnknownEffect == "unknown_effect"
RestartNote   == "restart"

\* TaskEnvelope's attempt policy and replay marker, and the snapshot's fields.
EnvType == [max : Nat \ {0}, timeout : Nat \cup {None}, backoff : Nat, replay : BOOLEAN]

SnapshotType(owners, results, reasons) ==
  [env : EnvType, generation : Nat, status : Statuses, attempts : Nat,
   owner : owners \cup {None}, heartbeat : Nat \cup {None},
   deadline : Nat \cup {None}, cancelRequested : BOOLEAN,
   cancelAccepted : BOOLEAN, cancelReason : reasons \cup {None},
   result : results \cup {None}, reason : {None, UnknownEffect, RestartNote},
   errorKind : {None, "error", "timeout"}, retryable : BOOLEAN \cup {None},
   ready : Nat \cup {None}, deadLetters : SUBSET Nat]

\* A submitted task: queued_with_envelope / queued_with_replay_delivery.
QueuedSnapshot(env) ==
  [env |-> env, generation |-> 0, status |-> "queued", attempts |-> 0,
   owner |-> None, heartbeat |-> None, deadline |-> None,
   cancelRequested |-> FALSE, cancelAccepted |-> FALSE, cancelReason |-> None,
   result |-> None, reason |-> None, errorKind |-> None, retryable |-> None,
   ready |-> None, deadLetters |-> {}]

IsTerminal(s) == s.status \in Terminal
RequiresOperator(s) == s.status = "interrupted" /\ s.reason = UnknownEffect
DeadlineExpired(s, now) == s.deadline # None /\ now >= s.deadline

-----------------------------------------------------------------------------
(* TaskStateSnapshot::validate, the clauses that relate two fields.        *)

ExecutionMetadataValid(s) ==
  LET noError == s.errorKind = None /\ s.retryable = None /\ s.ready = None
  IN CASE s.status \in Active \cup {"cancelled"} ->
            s.result = None /\ noError /\ s.reason = None
       [] s.status = "completed" ->
            s.result # None /\ noError /\ s.reason = None
       [] s.status = "failed" ->
            s.result = None /\ s.errorKind # None /\ s.reason = None
       [] s.status = "timed_out" ->
            /\ s.result = None /\ s.errorKind = "timeout"
            /\ s.heartbeat # None /\ s.reason = None
       [] s.status = "interrupted" -> s.result = None
       [] OTHER -> TRUE

Validate(s) ==
  /\ s.attempts <= s.env.max
  /\ s.owner # None => s.attempts > 0
  /\ s.retryable # None => s.status \in {"failed", "timed_out"} /\ s.errorKind # None
  /\ s.ready # None => /\ s.status \in {"failed", "timed_out"}
                       /\ s.attempts < s.env.max
                       /\ s.retryable # FALSE
  /\ s.result # None => s.status = "completed"
  /\ s.owner # None => ExecutionMetadataValid(s)

-----------------------------------------------------------------------------
(* One attempt: claim, heartbeat and the fenced outcomes.                  *)

\* Fault: the retryability of the old error survives.
ClearOutcomeFault(s) ==
  [s EXCEPT !.result = None, !.reason = None, !.errorKind = None, !.ready = None]

\* The fields a new attempt or a requeue forgets.
ClearOutcome(s) ==
  [s EXCEPT !.result = None, !.reason = None, !.errorKind = None,
            !.retryable = None, !.ready = None]

Claimable(s) ==
  /\ s.status = "queued" /\ ~s.cancelRequested
  /\ s.deadLetters = {} /\ s.attempts < s.env.max /\ s.owner = None

ClaimForExecution(s, o, now) ==
  [ClearOutcome(s) EXCEPT
     !.attempts = @ + 1, !.owner = o, !.status = "running", !.heartbeat = now,
     !.deadline = IF s.env.timeout = None THEN None ELSE now + s.env.timeout]

\* TaskAttemptFence: what the claimer keeps, and what every later call of the
\* attempt must still match.
FenceOf(s) == [generation |-> s.generation, owner |-> s.owner, attempt |-> s.attempts]
VerifyFence(s, f) == FenceOf(s) = f

TouchHeartbeat(s, now) == [s EXCEPT !.heartbeat = now]

Complete(s, r) ==
  [s EXCEPT !.status = "completed", !.result = r, !.errorKind = None,
            !.retryable = None, !.ready = None]

CompleteCommittedEffect(s, r) ==
  [Complete(s, r) EXCEPT
     !.cancelAccepted = IF s.status = "cancelling" THEN FALSE ELSE @]

Fail(s, kind, retryable) ==
  [s EXCEPT !.status = "failed", !.result = None, !.errorKind = kind,
            !.retryable = retryable, !.ready = None]

TimeOut(s, now, retryable) ==
  [s EXCEPT !.status = "timed_out", !.heartbeat = now, !.result = None,
            !.errorKind = "timeout", !.retryable = retryable, !.ready = None]

\* mark_cancelled keeps interrupted_reason.
MarkCancelled(s) ==
  [s EXCEPT !.status = "cancelled", !.cancelRequested = TRUE, !.cancelAccepted = TRUE,
            !.result = None, !.errorKind = None, !.retryable = None, !.ready = None]

\* Fault: a repeated request on a finished task drops the first one.
RequestCancelFault(s, reason) ==
  [s EXCEPT !.cancelRequested = ~IsTerminal(s), !.cancelReason = reason,
            !.cancelAccepted = ~IsTerminal(s),
            !.status = IF IsTerminal(s) THEN @ ELSE "cancelling"]

RequestCancel(s, reason) ==
  [s EXCEPT !.cancelRequested = TRUE, !.cancelReason = reason,
            !.cancelAccepted = ~IsTerminal(s),
            !.status = IF IsTerminal(s) THEN @ ELSE "cancelling"]

\* An attempt's outcome as the worker reports it: TaskAttemptOutcome.
Outcome(status, r, kind, retryable) ==
  [status |-> status, result |-> r, errorKind |-> kind, retryable |-> retryable]

ApplyOutcome(s, o, now) ==
  CASE o.status = "completed" -> Complete(s, o.result)
    [] o.status = "failed"    -> Fail(s, o.errorKind, o.retryable)
    [] o.status = "timed_out" -> TimeOut(s, now, o.retryable)

-----------------------------------------------------------------------------
(* Retry, and the recovery of an attempt whose writer is gone.             *)

ErrorIsRetryable(s) ==
  IF s.retryable # None THEN s.retryable ELSE s.errorKind \in {"timeout", "unavailable"}

\* Fault: only an accepted cancellation bars the retry.
RetryEligibleFault(s) ==
  /\ s.status \in {"failed", "timed_out"} /\ s.attempts < s.env.max
  /\ ~s.cancelAccepted /\ ErrorIsRetryable(s)

RetryEligible(s) ==
  /\ s.status \in {"failed", "timed_out"} /\ s.attempts < s.env.max
  /\ ~s.cancelRequested /\ ~s.cancelAccepted /\ ErrorIsRetryable(s)

\* Fault: the old attempt's deadline stays behind.
RequeueFault(s) ==
  [ClearOutcome(s) EXCEPT !.status = "queued", !.owner = None, !.heartbeat = None]

\* Back to the queue without the old attempt's claim; attempts are kept.
Requeue(s) ==
  [ClearOutcome(s) EXCEPT !.status = "queued", !.owner = None,
                          !.heartbeat = None, !.deadline = None]

ScheduleRetry(s, at) == [s EXCEPT !.ready = at]

\* requeue_retryable: schedule an absolute due time first, requeue once due.
RetryStep(s, now) ==
  IF s.ready # None THEN Requeue(s)
  ELSE IF s.env.backoff = 0 THEN Requeue(s)
  ELSE ScheduleRetry(s, now + s.env.backoff)

RetryStepEnabled(s, now) == RetryEligible(s) /\ (s.ready # None => now >= s.ready)

\* Fault: an operator block counts as an abandoned attempt.
AbandonedFault(s) ==
  /\ s.status \in {"running", "interrupted"}
  /\ ~s.cancelRequested /\ ~s.cancelAccepted
  /\ s.deadLetters = {} /\ s.attempts < s.env.max

Abandoned(s) ==
  /\ s.status \in {"running", "interrupted"}
  /\ ~s.cancelRequested /\ ~s.cancelAccepted
  /\ s.deadLetters = {} /\ s.attempts < s.env.max /\ ~RequiresOperator(s)

\* recover_committed_effect; a completed task keeps its own result.
RecoverCommitted(s, r) ==
  [ClearOutcome(s) EXCEPT !.status = "completed", !.cancelAccepted = FALSE, !.result = r]

BlockUnknownEffect(s) ==
  [ClearOutcome(s) EXCEPT !.status = "interrupted", !.cancelAccepted = FALSE,
                          !.reason = UnknownEffect]

MarkInterrupted(s) ==
  [s EXCEPT !.status = "interrupted", !.result = None, !.reason = RestartNote]

\* runtime recovery's baseline only rewrites the status.
BaselineInterrupt(s) == [s EXCEPT !.status = "interrupted"]

AddDeadLetter(s, attempt) == [s EXCEPT !.deadLetters = @ \cup {attempt}]

-----------------------------------------------------------------------------
(* validate_task_state_transition: what commit_snapshot lets a candidate   *)
(* change, per commit mode.                                                *)

\* Fault: a cancelling task may not be interrupted.
NextStatusesFault(status) ==
  CASE status = "queued"     -> {"queued", "running", "cancelling", "cancelled", "interrupted"}
    [] status = "running"    -> {"running", "interrupted"} \cup {"cancelling", "completed",
                                 "failed", "cancelled", "timed_out"}
    [] status = "cancelling" -> {"cancelling", "completed", "cancelled"}
    [] OTHER                 -> {status}

NextStatuses(status) ==
  CASE status = "queued"     -> {"queued", "running", "cancelling", "cancelled", "interrupted"}
    [] status = "running"    -> {"running", "interrupted"} \cup {"cancelling", "completed",
                                 "failed", "cancelled", "timed_out"}
    [] status = "cancelling" -> {"cancelling", "completed", "cancelled", "interrupted"}
    [] OTHER                 -> {status}

IsClaim(cur, new) ==
  /\ Claimable(cur) /\ new.status = "running" /\ new.attempts = cur.attempts + 1
  /\ ~new.cancelRequested /\ new.owner # None
  /\ new.result = None /\ new.reason = None /\ new.errorKind = None
  /\ new.heartbeat # None
  /\ new.deadline = IF cur.env.timeout = None THEN None
                    ELSE new.heartbeat + cur.env.timeout

IsRetryRequeue(cur, new) ==
  \/ RetryEligible(cur) /\ new = Requeue(cur)
  \/ RetryEligible(cur) /\ cur.ready = None /\ new.ready # None
        /\ new = ScheduleRetry(cur, new.ready)
  \/ Abandoned(cur) /\ new = Requeue(cur)

IsRestartRecovery(cur, new) ==
  \/ new.result # None /\ cur.status # "completed" /\ new = RecoverCommitted(cur, new.result)
  \/ cur.status # "completed" /\ new = BlockUnknownEffect(cur)

TerminalMetadata(s) ==
  <<s.result, s.errorKind, s.retryable, s.ready, s.reason, s.heartbeat>>

TransitionAllowed(cur, new, mode) ==
  LET claim    == IsClaim(cur, new)
      special  == \/ mode = "RetryRequeue" /\ IsRetryRequeue(cur, new)
                  \/ mode = "RestartRecovery" /\ IsRestartRecovery(cur, new)
      live     == cur.owner # None /\ cur.status \in Active
  IN /\ <<cur.owner, cur.attempts>> # <<new.owner, new.attempts>> => claim \/ special
     /\ cur.owner # None /\ cur.deadline # new.deadline => special
     /\ live /\ cur.heartbeat # new.heartbeat =>
          mode \in {"AttemptOutcome", "Heartbeat"} \/ special
     /\ live /\ new.status \in Terminal \ {"interrupted"} =>
          \/ mode = "AttemptOutcome"
          \/ mode = "RestartRecovery" /\ IsRestartRecovery(cur, new)
     /\ IsTerminal(cur) /\ TerminalMetadata(cur) # TerminalMetadata(new) => special
     /\ special \/ new.status \in NextStatuses(cur.status)
     /\ new.status = "running" => claim \/ cur.status = "running"
=============================================================================
