---------------------------- MODULE TaskLifecycle ----------------------------
(***************************************************************************)
(* What the task store promises: every operation of                        *)
(* FileSystemTaskStateStore applied to the authoritative record in one     *)
(* indivisible step.  TaskStateStore refines it with reads, versioned      *)
(* commits and crashes between two file writes; TaskWorker refines it with *)
(* the daemon that drives the operations.                                  *)
(*                                                                         *)
(* gen is the writer generation of the process that owns the store.  A new *)
(* generation first recovers what the old one abandoned, then serves.      *)
(***************************************************************************)
EXTENDS TaskRecord

CONSTANTS
  Tasks,      \* task ids
  Env,        \* immutable envelope of each task: [max, timeout, backoff, replay]
  Owners,     \* execution owners (one per task worker)
  Results,    \* result digests a handler can return
  Reasons,    \* texts a cancellation request can carry
  MaxTime,    \* bound on the clock
  MaxGen      \* bound on writer generations

ASSUME NoneAssumption ==
  None \notin Int \cup BOOLEAN \cup {"error", "timeout", UnknownEffect, RestartNote}
ASSUME EnvAssumption == Env \in [Tasks -> EnvType]
ASSUME OwnersAssumption ==
  None \notin Owners /\ None \notin Results /\ None \notin Reasons
ASSUME BoundsAssumption == MaxTime \in Nat /\ MaxGen \in Nat \ {0}

VARIABLES
  rec,        \* authoritative record of each task, None before submission
  gen,        \* generation of the current writer
  serving,    \* FALSE while the current writer still recovers
  now         \* wall clock

vars == <<rec, gen, serving, now>>

Exists(t) == rec[t] # None
Put(t, s) == rec' = [rec EXCEPT ![t] = [s EXCEPT !.generation = gen]]

Init ==
  /\ rec = [t \in Tasks |-> None]
  /\ gen = 1 /\ serving = FALSE /\ now = 0

-----------------------------------------------------------------------------
(* Operations of a serving writer.  at is the clock the caller read before *)
(* it entered the store, so it may lag behind now.                         *)

Serve(t) == serving /\ Exists(t) /\ UNCHANGED <<gen, serving, now>>

Create(t) ==
  /\ serving /\ ~Exists(t)
  /\ Put(t, QueuedSnapshot(Env[t]))
  /\ UNCHANGED <<gen, serving, now>>

TryClaimQueued(t, o, at) ==
  /\ Serve(t) /\ Claimable(rec[t])
  /\ Put(t, ClaimForExecution(rec[t], o, at))

\* A live claim of this writer: only its holder passes verify_task_attempt_fence.
Fenced(t, o) == rec[t].owner = o /\ rec[t].generation = gen

HeartbeatExecution(t, o, at) ==
  /\ Serve(t) /\ Fenced(t, o) /\ rec[t].status \in Active
  /\ at > rec[t].heartbeat
  /\ Put(t, TouchHeartbeat(rec[t], at))

FinishExecution(t, o, out, at) ==
  /\ Serve(t) /\ Fenced(t, o)
  /\ \/ rec[t].status = "running" /\ Put(t, ApplyOutcome(rec[t], out, at))
     \/ rec[t].status = "cancelling" /\ Put(t, MarkCancelled(rec[t]))

FinishCommittedEffect(t, o, r) ==
  /\ Serve(t) /\ Fenced(t, o) /\ rec[t].status \in Active
  /\ Put(t, CompleteCommittedEffect(rec[t], r))

BlockPreparedEffect(t, o) ==
  /\ Serve(t) /\ Fenced(t, o) /\ rec[t].status \in Active
  /\ Put(t, BlockUnknownEffect(rec[t]))

RequestExecutionCancellation(t, o, why) ==
  /\ Serve(t) /\ Fenced(t, o)
  /\ rec[t].status \in Active /\ ~rec[t].cancelRequested
  /\ Put(t, RequestCancel(rec[t], why))

CancelCandidate(s, why) ==
  IF s.status = "queued" THEN MarkCancelled(RequestCancel(s, why))
  ELSE RequestCancel(s, why)

RequestCancellation(t, why) ==
  /\ Serve(t)
  /\ ~(rec[t].cancelRequested /\ rec[t].cancelReason = why)
  /\ Put(t, CancelCandidate(rec[t], why))

RequeueRetryable(t, at) ==
  /\ Serve(t) /\ RetryStepEnabled(rec[t], at)
  /\ Put(t, RetryStep(rec[t], at))

\* checkpoint_task_failure_evidence: one dead-letter summary per failed attempt.
NeedsEvidence(s) ==
  /\ ~s.env.replay /\ s.status \in {"failed", "timed_out"}
  /\ s.retryable # None /\ s.attempts \notin s.deadLetters

CheckpointEvidence(t) ==
  /\ Serve(t) /\ NeedsEvidence(rec[t])
  /\ Put(t, AddDeadLetter(rec[t], rec[t].attempts))

\* A replay delivery is also reclaimed while serving, from a state in which no
\* attempt of this writer can still be running.
RecoverReplayDelivery(t) ==
  /\ Exists(t) /\ rec[t].env.replay /\ Abandoned(rec[t])
  /\ ~(rec[t].status = "running" /\ rec[t].generation = gen)
  /\ Put(t, Requeue(rec[t]))
  /\ UNCHANGED <<gen, serving, now>>

-----------------------------------------------------------------------------
(* Restart recovery: a new generation on what older ones left behind.      *)

Recover(t) ==
  /\ ~serving /\ Exists(t) /\ rec[t].generation # gen
  /\ UNCHANGED <<gen, serving, now>>

RecoverAbandonedTask(t) ==
  Recover(t) /\ ~rec[t].env.replay /\ Abandoned(rec[t]) /\ Put(t, Requeue(rec[t]))

InterruptAfterRestart(t) ==
  /\ Recover(t) /\ rec[t].status \in Active
  /\ \/ Put(t, BaselineInterrupt(rec[t]))
     \/ Put(t, MarkInterrupted(rec[t]))

RecoverFromCommittedEffect(t, r) ==
  Recover(t) /\ rec[t].status # "completed" /\ Put(t, RecoverCommitted(rec[t], r))

BlockForUnknownEffect(t) ==
  /\ Recover(t) /\ rec[t].status # "completed" /\ ~RequiresOperator(rec[t])
  /\ Put(t, BlockUnknownEffect(rec[t]))

StartServing ==
  /\ ~serving
  /\ \A t \in Tasks : Exists(t) /\ rec[t].generation # gen => rec[t].status \notin Active
  /\ serving' = TRUE /\ UNCHANGED <<rec, gen, now>>

\* The process dies at any point; the next one advances the generation.
Restart ==
  /\ gen < MaxGen /\ gen' = gen + 1 /\ serving' = FALSE /\ UNCHANGED <<rec, now>>

Tick == now < MaxTime /\ now' = now + 1 /\ UNCHANGED <<rec, gen, serving>>

-----------------------------------------------------------------------------
Outcomes ==
  {Outcome("completed", r, None, None) : r \in Results}
    \cup {Outcome("failed", None, "error", b) : b \in BOOLEAN}
    \cup {Outcome("timed_out", None, "timeout", b) : b \in BOOLEAN}

Attempt(t) ==
  \E o \in Owners :
     \/ \E at \in 0..now : \/ TryClaimQueued(t, o, at)
                           \/ HeartbeatExecution(t, o, at)
                           \/ \E out \in Outcomes : FinishExecution(t, o, out, at)
     \/ \E r \in Results : FinishCommittedEffect(t, o, r)
     \/ BlockPreparedEffect(t, o)
     \/ \E why \in Reasons : RequestExecutionCancellation(t, o, why)

Next ==
  \/ \E t \in Tasks :
       \/ Create(t)
       \/ Attempt(t)
       \/ \E why \in Reasons : RequestCancellation(t, why)
       \/ \E at \in 0..now : RequeueRetryable(t, at)
       \/ CheckpointEvidence(t)
       \/ RecoverReplayDelivery(t)
       \/ RecoverAbandonedTask(t)
       \/ InterruptAfterRestart(t)
       \/ \E r \in Results : RecoverFromCommittedEffect(t, r)
       \/ BlockForUnknownEffect(t)
  \/ StartServing
  \/ Restart
  \/ Tick

Spec == Init /\ [][Next]_vars
-----------------------------------------------------------------------------
(* Properties.                                                             *)

\* Every record has the shape TaskStateSnapshot declares.
TypeOK ==
  /\ rec \in [Tasks -> SnapshotType(Owners, Results, Reasons) \cup {None}]
  /\ gen \in 1..MaxGen /\ serving \in BOOLEAN /\ now \in 0..MaxTime

\* Whatever sequence of claims, heartbeats, outcomes, cancellations, retries and
\* restarts produced a record, TaskStateSnapshot::validate accepts it, so the
\* record can be read back and its next commit is not refused for its own shape.
RecordsValid == \A t \in Tasks : Exists(t) => Validate(rec[t])

\* A cancellation request, once durable, is never outrun: the task is not left
\* queued or running, so neither a retry nor a restart starts another attempt.
CancelBarsExecution ==
  \A t \in Tasks : Exists(t) /\ rec[t].cancelRequested =>
    rec[t].status \notin {"queued", "running"}

\* A queued record carries nothing of an earlier attempt (claim, deadline,
\* error, retry time), and an active one carries a complete claim.
ClaimShape ==
  \A t \in Tasks : Exists(t) =>
    /\ rec[t].status = "queued" =>
         /\ rec[t].owner = None /\ rec[t].deadline = None /\ rec[t].heartbeat = None
         /\ rec[t].errorKind = None /\ rec[t].ready = None /\ rec[t].reason = None
    /\ rec[t].status \in Active =>
         rec[t].owner # None /\ rec[t].heartbeat # None /\ rec[t].errorKind = None

\* No step takes a durable cancellation back or spends an attempt after it.
CancelIsSticky ==
  [][\A t \in Tasks : Exists(t) /\ rec[t].cancelRequested =>
       rec[t]'.cancelRequested /\ rec[t]'.attempts = rec[t].attempts]_vars

\* A completed result is never rewritten, and a task blocked for an unknown
\* effect is released only by proof that the effect was committed.
SettledStaysSettled ==
  [][\A t \in Tasks : Exists(t) =>
       /\ rec[t].status = "completed" =>
            rec[t]'.status = "completed" /\ rec[t]'.result = rec[t].result
       /\ RequiresOperator(rec[t]) =>
            RequiresOperator(rec[t]') \/ rec[t]'.status = "completed"]_vars
=============================================================================
