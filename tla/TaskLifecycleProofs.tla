------------------------- MODULE TaskLifecycleProofs -------------------------
(***************************************************************************)
(* TaskLifecycle's invariants and action properties, for every set of      *)
(* tasks, envelopes, owners, results and reasons and every bound.          *)
(*                                                                         *)
(* None of the three safety invariants is inductive alone: that validate   *)
(* accepts a cancelled record rests on the shape of the attempt it came    *)
(* from, and that a retry never revives a cancelled task rests on both.    *)
(* IInv joins them per record (Sound).  One step of the store changes one  *)
(* record (PutPreserves); the lemmas after it show for each operation that *)
(* the new record is sound and an admissible successor of the old one.     *)
(***************************************************************************)
EXTENDS TaskLifecycle, TaskRecordProofs

Snap == SnapshotType(Owners, Results, Reasons)

IInv == TypeOK /\ \A t \in Tasks : Exists(t) => Sound(rec[t])

\* n may follow s: a cancellation and a settled outcome outlive the step.
Follows(s, n) ==
  /\ s.cancelRequested => n.cancelRequested /\ n.attempts = s.attempts
  /\ s.status = "completed" => n.status = "completed" /\ n.result = s.result
  /\ RequiresOperator(s) => RequiresOperator(n) \/ n.status = "completed"

StepOK == \A t \in Tasks : Exists(t) => Follows(rec[t], rec[t]')

\* A step that leaves the records alone.
LEMMA SameRecords ==
  ASSUME IInv, rec' = rec, gen' \in 1..MaxGen, serving' \in BOOLEAN, now' \in 0..MaxTime
  PROVE  IInv' /\ StepOK
BY DEF IInv, TypeOK, Exists, StepOK, Follows

\* A step that puts one sound record which may follow the old one.
LEMMA PutPreserves ==
  ASSUME IInv, NEW t \in Tasks, NEW n \in Snap, Sound(n),
         Exists(t) => Follows(rec[t], n),
         Put(t, n), UNCHANGED <<gen, serving, now>>
  PROVE  IInv' /\ StepOK
<1>. PICK m : m = [n EXCEPT !.generation = gen]  OBVIOUS
<1>1. gen \in Nat  BY BoundsAssumption DEF IInv, TypeOK
<1>2. /\ m \in Snap /\ Sound(m) /\ m.status = n.status /\ m.attempts = n.attempts
      /\ m.cancelRequested = n.cancelRequested /\ m.result = n.result
      /\ m.reason = n.reason
  BY <1>1, StampFacts DEF Snap
<1>3. rec' = [rec EXCEPT ![t] = m]  BY DEF Put
<1>4. TypeOK'  BY <1>2, <1>3 DEF IInv, TypeOK, Snap
<1>5. ASSUME NEW u \in Tasks, Exists(u)'  PROVE Sound(rec[u]')
  BY <1>2, <1>3, <1>5 DEF IInv, TypeOK, Exists
<1>6. Exists(t) => Follows(rec[t], m)
  BY <1>2 DEF Follows, RequiresOperator
<1>7. ASSUME NEW u \in Tasks, Exists(u)  PROVE Follows(rec[u], rec[u]')
  <2>1. CASE u = t  BY <1>3, <1>6, <1>7, <2>1 DEF IInv, TypeOK
  <2>2. CASE u # t
    <3>1. rec[u]' = rec[u]  BY <1>3, <2>2 DEF IInv, TypeOK
    <3>. QED  BY <3>1 DEF Follows
  <2>. QED  BY <2>1, <2>2
<1>. QED  BY <1>4, <1>5, <1>7 DEF IInv, StepOK

\* What the invariant says of a record that exists.
LEMMA RecordFacts ==
  ASSUME IInv, NEW t \in Tasks, Exists(t)
  PROVE  rec[t] \in Snap /\ Sound(rec[t])
BY DEF IInv, TypeOK, Exists, Snap

LEMMA NoneFacts ==
  /\ None \notin Int /\ None \notin BOOLEAN /\ None \notin {"error", "timeout"}
  /\ None \notin Owners /\ None \notin Results /\ None \notin Reasons
BY NoneAssumption, OwnersAssumption

LEMMA CreateStep ==
  ASSUME IInv, NEW t \in Tasks, Create(t)  PROVE IInv' /\ StepOK
<1>1. Env[t] \in EnvType  BY EnvAssumption
<1>2. QueuedSnapshot(Env[t]) \in Snap /\ Sound(QueuedSnapshot(Env[t]))
  BY <1>1, QueuedFacts DEF Snap
<1>. QED  BY <1>2, PutPreserves DEF Create

LEMMA ClaimStep ==
  ASSUME IInv, NEW t \in Tasks, NEW o \in Owners, NEW at \in Nat, TryClaimQueued(t, o, at)
  PROVE  IInv' /\ StepOK
<1>1. Exists(t) /\ Claimable(rec[t])  BY DEF TryClaimQueued, Serve
<1>2. rec[t] \in Snap /\ Sound(rec[t])  BY <1>1, RecordFacts
<1>. PICK n : n = ClaimForExecution(rec[t], o, at)  OBVIOUS
<1>3. n \in Snap /\ Sound(n)
  BY <1>1, <1>2, NoneFacts, ClaimFacts DEF Snap
<1>4. Follows(rec[t], n)
  BY <1>1 DEF Claimable, Follows, RequiresOperator
<1>. QED  BY <1>3, <1>4, PutPreserves DEF TryClaimQueued, Serve

LEMMA HeartbeatStep ==
  ASSUME IInv, NEW t \in Tasks, NEW o \in Owners, NEW at \in Nat, HeartbeatExecution(t, o, at)
  PROVE  IInv' /\ StepOK
<1>1. Exists(t) /\ rec[t].status \in Active  BY DEF HeartbeatExecution, Serve
<1>2. rec[t] \in Snap /\ Sound(rec[t])  BY <1>1, RecordFacts
<1>. PICK n : n = TouchHeartbeat(rec[t], at)  OBVIOUS
<1>3. /\ n \in Snap /\ Sound(n) /\ n.status = rec[t].status
      /\ n.attempts = rec[t].attempts /\ n.cancelRequested = rec[t].cancelRequested
  BY <1>1, <1>2, NoneFacts, TouchFacts DEF Snap
<1>4. Follows(rec[t], n)
  BY <1>1, <1>3 DEF Active, Follows, RequiresOperator
<1>. QED  BY <1>3, <1>4, PutPreserves DEF HeartbeatExecution, Serve

\* A running attempt's outcome; the record carries no cancellation.
LEMMA OutcomeStep ==
  ASSUME IInv, NEW t \in Tasks, NEW out \in Outcomes, NEW at \in Nat,
         Serve(t), rec[t].status = "running", Put(t, ApplyOutcome(rec[t], out, at))
  PROVE  IInv' /\ StepOK
<1>1. Exists(t)  BY DEF Serve
<1>2. rec[t] \in Snap /\ Sound(rec[t])  BY <1>1, RecordFacts
<1>3. ~rec[t].cancelRequested  BY <1>2 DEF Sound
<1>. PICK n : n = ApplyOutcome(rec[t], out, at)  OBVIOUS
<1>4. ASSUME \E r \in Results : out = Outcome("completed", r, None, None)
      PROVE  n \in Snap /\ Sound(n)
  <2>1. PICK r \in Results : out = Outcome("completed", r, None, None)  BY <1>4
  <2>2. n = Complete(rec[t], r)  BY <2>1 DEF ApplyOutcome, Outcome
  <2>3. n \in Snap /\ Sound(n)  BY <1>2, <2>2, NoneFacts, CompleteFacts DEF Snap
  <2>. QED  BY <2>3
<1>5. ASSUME \E b \in BOOLEAN : out = Outcome("failed", None, "error", b)
      PROVE  n \in Snap /\ Sound(n)
  <2>1. PICK b \in BOOLEAN : out = Outcome("failed", None, "error", b)  BY <1>5
  <2>2. n = Fail(rec[t], "error", b)  BY <2>1 DEF ApplyOutcome, Outcome
  <2>3. n \in Snap /\ Sound(n)  BY <1>2, <2>2, NoneFacts, FailFacts DEF Snap
  <2>. QED  BY <2>3
<1>6. ASSUME \E b \in BOOLEAN : out = Outcome("timed_out", None, "timeout", b)
      PROVE  n \in Snap /\ Sound(n)
  <2>1. PICK b \in BOOLEAN : out = Outcome("timed_out", None, "timeout", b)  BY <1>6
  <2>2. n = TimeOut(rec[t], at, b)  BY <2>1 DEF ApplyOutcome, Outcome
  <2>3. n \in Snap /\ Sound(n)  BY <1>2, <2>2, NoneFacts, TimeOutFacts DEF Snap
  <2>. QED  BY <2>3
<1>7. n \in Snap /\ Sound(n)  BY <1>4, <1>5, <1>6 DEF Outcomes
<1>8. Follows(rec[t], n)  BY <1>3 DEF Follows, RequiresOperator
<1>. QED  BY <1>7, <1>8, PutPreserves DEF Serve

\* finish_execution on a cancelling record drops the outcome.
LEMMA FinishStep ==
  ASSUME IInv, NEW t \in Tasks, NEW o \in Owners, NEW out \in Outcomes, NEW at \in Nat,
         FinishExecution(t, o, out, at)
  PROVE  IInv' /\ StepOK
<1>1. CASE rec[t].status = "running" /\ Put(t, ApplyOutcome(rec[t], out, at))
  BY <1>1, OutcomeStep DEF FinishExecution
<1>2. CASE rec[t].status = "cancelling" /\ Put(t, MarkCancelled(rec[t]))
  <2>1. Exists(t) /\ rec[t].status = "cancelling"  BY <1>2 DEF FinishExecution, Serve
  <2>2. rec[t] \in Snap /\ Sound(rec[t])  BY <2>1, RecordFacts
  <2>. PICK n : n = MarkCancelled(rec[t])  OBVIOUS
  <2>3. /\ n \in Snap /\ Sound(n) /\ n.attempts = rec[t].attempts
        /\ n.cancelRequested
    BY <2>1, <2>2, MarkCancelledFacts DEF Snap
  <2>4. Follows(rec[t], n)  BY <1>2, <2>3 DEF Follows, RequiresOperator
  <2>. QED  BY <1>2, <2>3, <2>4, PutPreserves DEF FinishExecution, Serve
<1>. QED  BY <1>1, <1>2 DEF FinishExecution

LEMMA CommittedStep ==
  ASSUME IInv, NEW t \in Tasks, NEW o \in Owners, NEW r \in Results,
         FinishCommittedEffect(t, o, r)
  PROVE  IInv' /\ StepOK
<1>1. Exists(t) /\ rec[t].status \in Active  BY DEF FinishCommittedEffect, Serve
<1>2. rec[t] \in Snap /\ Sound(rec[t])  BY <1>1, RecordFacts
<1>. PICK n : n = CompleteCommittedEffect(rec[t], r)  OBVIOUS
<1>3. /\ n \in Snap /\ Sound(n) /\ n.attempts = rec[t].attempts
      /\ rec[t].cancelRequested => n.cancelRequested
  BY <1>1, <1>2, NoneFacts, CompleteCommittedFacts DEF Snap
<1>4. Follows(rec[t], n)
  BY <1>1, <1>3 DEF Active, Follows, RequiresOperator
<1>. QED  BY <1>3, <1>4, PutPreserves DEF FinishCommittedEffect, Serve

LEMMA BlockPreparedStep ==
  ASSUME IInv, NEW t \in Tasks, NEW o \in Owners, BlockPreparedEffect(t, o)
  PROVE  IInv' /\ StepOK
<1>1. Exists(t) /\ rec[t].status \in Active  BY DEF BlockPreparedEffect, Serve
<1>2. rec[t] \in Snap /\ Sound(rec[t])  BY <1>1, RecordFacts
<1>. PICK n : n = BlockUnknownEffect(rec[t])  OBVIOUS
<1>3. /\ n \in Snap /\ Sound(n) /\ n.attempts = rec[t].attempts
      /\ rec[t].cancelRequested => n.cancelRequested
  BY <1>1, <1>2, NoneFacts, BlockFacts DEF Snap
<1>4. Follows(rec[t], n)
  BY <1>1, <1>3 DEF Active, Follows, RequiresOperator
<1>. QED  BY <1>3, <1>4, PutPreserves DEF BlockPreparedEffect, Serve

LEMMA ExecutionCancelStep ==
  ASSUME IInv, NEW t \in Tasks, NEW o \in Owners, NEW why \in Reasons,
         RequestExecutionCancellation(t, o, why)
  PROVE  IInv' /\ StepOK
<1>1. Exists(t) /\ rec[t].status \in Active  BY DEF RequestExecutionCancellation, Serve
<1>2. rec[t] \in Snap /\ Sound(rec[t])  BY <1>1, RecordFacts
<1>. PICK n : n = RequestCancel(rec[t], why)  OBVIOUS
<1>3. /\ n \in Snap /\ Sound(n) /\ n.attempts = rec[t].attempts
      /\ rec[t].cancelRequested => n.cancelRequested
  BY <1>1, <1>2, NoneFacts, CancelActiveFacts DEF Snap
<1>4. Follows(rec[t], n)
  BY <1>1, <1>3 DEF Active, Follows, RequiresOperator
<1>. QED  BY <1>3, <1>4, PutPreserves DEF RequestExecutionCancellation, Serve

\* A cancellation request meets a queued, an active or a finished task.
LEMMA CancelStep ==
  ASSUME IInv, NEW t \in Tasks, NEW why \in Reasons, RequestCancellation(t, why)
  PROVE  IInv' /\ StepOK
<1>1. Exists(t)  BY DEF RequestCancellation, Serve
<1>2. rec[t] \in Snap /\ Sound(rec[t])  BY <1>1, RecordFacts
<1>. PICK n : n = CancelCandidate(rec[t], why)  OBVIOUS
<1>3. ASSUME rec[t].status = "queued"
      PROVE  n \in Snap /\ Sound(n) /\ Follows(rec[t], n)
  <2>1. n = MarkCancelled(RequestCancel(rec[t], why))  BY <1>3 DEF CancelCandidate
  <2>2. /\ n \in Snap /\ Sound(n) /\ n.attempts = rec[t].attempts
        /\ n.cancelRequested
    BY <1>2, <1>3, <2>1, CancelQueuedFacts DEF Snap
  <2>. QED  BY <1>3, <2>2 DEF Follows, RequiresOperator
<1>4. ASSUME rec[t].status \in Active
      PROVE  n \in Snap /\ Sound(n) /\ Follows(rec[t], n)
  <2>1. n = RequestCancel(rec[t], why)  BY <1>4 DEF CancelCandidate, Active
  <2>2. /\ n \in Snap /\ Sound(n) /\ n.attempts = rec[t].attempts
        /\ n.cancelRequested
    BY <1>2, <1>4, <2>1, CancelActiveFacts DEF Snap
  <2>. QED  BY <1>4, <2>2 DEF Follows, RequiresOperator, Active
<1>5. ASSUME rec[t].status \in Terminal
      PROVE  n \in Snap /\ Sound(n) /\ Follows(rec[t], n)
  <2>1. n = RequestCancel(rec[t], why)  BY <1>5 DEF CancelCandidate, Terminal
  <2>2. /\ n \in Snap /\ Sound(n) /\ n.attempts = rec[t].attempts
        /\ n.cancelRequested /\ n.status = rec[t].status
        /\ n.result = rec[t].result /\ n.reason = rec[t].reason
    BY <1>2, <1>5, <2>1, CancelTerminalFacts DEF Snap
  <2>. QED  BY <2>2 DEF Follows, RequiresOperator
<1>6. rec[t].status \in Statuses  BY <1>2 DEF Snap, SnapshotType
<1>7. n \in Snap /\ Sound(n) /\ Follows(rec[t], n)
  BY <1>3, <1>4, <1>5, <1>6 DEF Statuses, Active, Terminal
<1>. QED  BY <1>7, PutPreserves DEF RequestCancellation, Serve

\* A retry is scheduled or requeued only for an uncancelled failed attempt.
LEMMA RetryStepLemma ==
  ASSUME IInv, NEW t \in Tasks, NEW at \in Nat, RequeueRetryable(t, at)
  PROVE  IInv' /\ StepOK
<1>1. Exists(t) /\ RetryEligible(rec[t])
  BY DEF RequeueRetryable, Serve, RetryStepEnabled
<1>2. rec[t] \in Snap /\ Sound(rec[t])  BY <1>1, RecordFacts
<1>. PICK n : n = RetryStep(rec[t], at)  OBVIOUS
<1>3. n = Requeue(rec[t]) \/ n = ScheduleRetry(rec[t], at + rec[t].env.backoff)
  BY DEF RetryStep
<1>4. ~rec[t].cancelRequested /\ rec[t].status \in {"failed", "timed_out"}
  BY <1>1 DEF RetryEligible
<1>5. at + rec[t].env.backoff \in Nat
  <2>1. rec[t].env \in EnvType  BY <1>2 DEF Snap, SnapshotType
  <2>. QED  BY <2>1 DEF EnvType
<1>6. ASSUME n = Requeue(rec[t])  PROVE n \in Snap /\ Sound(n)
  BY <1>2, <1>4, <1>6, RequeueFacts DEF Snap
<1>7. ASSUME n = ScheduleRetry(rec[t], at + rec[t].env.backoff)
      PROVE  n \in Snap /\ Sound(n)
  BY <1>1, <1>2, <1>5, <1>7, NoneFacts, ScheduleFacts DEF Snap
<1>8. Follows(rec[t], n)  BY <1>4 DEF Follows, RequiresOperator
<1>. QED  BY <1>3, <1>6, <1>7, <1>8, PutPreserves DEF RequeueRetryable, Serve

LEMMA EvidenceStep ==
  ASSUME IInv, NEW t \in Tasks, CheckpointEvidence(t)
  PROVE  IInv' /\ StepOK
<1>1. Exists(t)  BY DEF CheckpointEvidence, Serve
<1>2. rec[t] \in Snap /\ Sound(rec[t])  BY <1>1, RecordFacts
<1>3. rec[t].attempts \in Nat  BY <1>2 DEF Snap, SnapshotType
<1>. PICK n : n = AddDeadLetter(rec[t], rec[t].attempts)  OBVIOUS
<1>4. /\ n \in Snap /\ Sound(n) /\ n.attempts = rec[t].attempts
      /\ n.cancelRequested = rec[t].cancelRequested /\ n.status = rec[t].status
      /\ n.result = rec[t].result /\ n.reason = rec[t].reason
  BY <1>2, <1>3, AddDeadLetterFacts DEF Snap
<1>5. Follows(rec[t], n)  BY <1>4 DEF Follows, RequiresOperator
<1>. QED  BY <1>4, <1>5, PutPreserves DEF CheckpointEvidence, Serve

\* Both recoveries of an abandoned attempt requeue it without its claim.
LEMMA AbandonedStep ==
  ASSUME IInv, NEW t \in Tasks, RecoverReplayDelivery(t) \/ RecoverAbandonedTask(t)
  PROVE  IInv' /\ StepOK
<1>1. Exists(t) /\ Abandoned(rec[t])
  BY DEF RecoverReplayDelivery, RecoverAbandonedTask, Recover
<1>2. rec[t] \in Snap /\ Sound(rec[t])  BY <1>1, RecordFacts
<1>3. /\ ~rec[t].cancelRequested /\ ~RequiresOperator(rec[t])
      /\ rec[t].status # "completed"
  BY <1>1 DEF Abandoned
<1>. PICK n : n = Requeue(rec[t])  OBVIOUS
<1>4. n \in Snap /\ Sound(n)  BY <1>2, <1>3, RequeueFacts DEF Snap
<1>5. Follows(rec[t], n)  BY <1>3 DEF Follows
<1>. QED  BY <1>4, <1>5, PutPreserves
          DEF RecoverReplayDelivery, RecoverAbandonedTask, Recover

LEMMA InterruptStep ==
  ASSUME IInv, NEW t \in Tasks, InterruptAfterRestart(t)
  PROVE  IInv' /\ StepOK
<1>1. Exists(t) /\ rec[t].status \in Active
  BY DEF InterruptAfterRestart, Recover
<1>2. rec[t] \in Snap /\ Sound(rec[t])  BY <1>1, RecordFacts
<1>3. CASE Put(t, BaselineInterrupt(rec[t]))
  <2>. PICK n : n = BaselineInterrupt(rec[t])  OBVIOUS
  <2>1. /\ n \in Snap /\ Sound(n) /\ n.attempts = rec[t].attempts
        /\ n.cancelRequested = rec[t].cancelRequested
    BY <1>1, <1>2, BaselineFacts DEF Snap
  <2>2. Follows(rec[t], n)  BY <1>1, <2>1 DEF Active, Follows, RequiresOperator
  <2>. QED  BY <1>3, <2>1, <2>2, PutPreserves DEF InterruptAfterRestart, Recover
<1>4. CASE Put(t, MarkInterrupted(rec[t]))
  <2>. PICK n : n = MarkInterrupted(rec[t])  OBVIOUS
  <2>1. /\ n \in Snap /\ Sound(n) /\ n.attempts = rec[t].attempts
        /\ n.cancelRequested = rec[t].cancelRequested
    BY <1>1, <1>2, MarkInterruptedFacts DEF Snap
  <2>2. Follows(rec[t], n)  BY <1>1, <2>1 DEF Active, Follows, RequiresOperator
  <2>. QED  BY <1>4, <2>1, <2>2, PutPreserves DEF InterruptAfterRestart, Recover
<1>. QED  BY <1>3, <1>4 DEF InterruptAfterRestart

\* Proof of a committed effect releases any task that is not completed.
LEMMA RecoverCommittedStep ==
  ASSUME IInv, NEW t \in Tasks, NEW r \in Results, RecoverFromCommittedEffect(t, r)
  PROVE  IInv' /\ StepOK
<1>1. Exists(t) /\ rec[t].status # "completed"
  BY DEF RecoverFromCommittedEffect, Recover
<1>2. rec[t] \in Snap /\ Sound(rec[t])  BY <1>1, RecordFacts
<1>. PICK n : n = RecoverCommitted(rec[t], r)  OBVIOUS
<1>3. /\ n \in Snap /\ Sound(n) /\ n.attempts = rec[t].attempts
      /\ n.cancelRequested = rec[t].cancelRequested /\ n.status = "completed"
  BY <1>2, NoneFacts, RecoverCommittedFacts DEF Snap
<1>4. Follows(rec[t], n)  BY <1>1, <1>3 DEF Follows
<1>. QED  BY <1>3, <1>4, PutPreserves DEF RecoverFromCommittedEffect, Recover

LEMMA BlockStep ==
  ASSUME IInv, NEW t \in Tasks, BlockForUnknownEffect(t)
  PROVE  IInv' /\ StepOK
<1>1. Exists(t) /\ rec[t].status # "completed" /\ ~RequiresOperator(rec[t])
  BY DEF BlockForUnknownEffect, Recover
<1>2. rec[t] \in Snap /\ Sound(rec[t])  BY <1>1, RecordFacts
<1>. PICK n : n = BlockUnknownEffect(rec[t])  OBVIOUS
<1>3. /\ n \in Snap /\ Sound(n) /\ n.attempts = rec[t].attempts
      /\ n.cancelRequested = rec[t].cancelRequested
  BY <1>2, BlockFacts DEF Snap
<1>4. Follows(rec[t], n)  BY <1>1, <1>3 DEF Follows
<1>. QED  BY <1>3, <1>4, PutPreserves DEF BlockForUnknownEffect, Recover

-----------------------------------------------------------------------------
\* One attempt's operations, by the case of the disjunct taken.
LEMMA AttemptStep ==
  ASSUME IInv, NEW t \in Tasks, Attempt(t)
  PROVE  IInv' /\ StepOK
<1>1. \A at \in 0..now : at \in Nat  BY BoundsAssumption DEF IInv, TypeOK
<1>2. PICK o \in Owners :
        \/ \E at \in 0..now : \/ TryClaimQueued(t, o, at)
                              \/ HeartbeatExecution(t, o, at)
                              \/ \E out \in Outcomes : FinishExecution(t, o, out, at)
        \/ \E r \in Results : FinishCommittedEffect(t, o, r)
        \/ BlockPreparedEffect(t, o)
        \/ \E why \in Reasons : RequestExecutionCancellation(t, o, why)
  BY DEF Attempt
<1>3. CASE \E at \in 0..now : TryClaimQueued(t, o, at)  BY <1>1, <1>3, ClaimStep
<1>4. CASE \E at \in 0..now : HeartbeatExecution(t, o, at)  BY <1>1, <1>4, HeartbeatStep
<1>5. CASE \E at \in 0..now : \E out \in Outcomes : FinishExecution(t, o, out, at)
  BY <1>1, <1>5, FinishStep
<1>6. CASE \E r \in Results : FinishCommittedEffect(t, o, r)  BY <1>6, CommittedStep
<1>7. CASE BlockPreparedEffect(t, o)  BY <1>7, BlockPreparedStep
<1>8. CASE \E why \in Reasons : RequestExecutionCancellation(t, o, why)
  BY <1>8, ExecutionCancelStep
<1>. QED  BY <1>2, <1>3, <1>4, <1>5, <1>6, <1>7, <1>8

\* IInv is inductive, and no step takes back what StepOK protects.
LEMMA NextStep ==
  ASSUME IInv, [Next]_vars  PROVE IInv' /\ StepOK
<1>1. \A at \in 0..now : at \in Nat  BY BoundsAssumption DEF IInv, TypeOK
<1>2. CASE UNCHANGED vars
  <2>1. rec' = rec /\ gen' = gen /\ serving' = serving /\ now' = now
    BY <1>2 DEF vars
  <2>2. gen \in 1..MaxGen /\ serving \in BOOLEAN /\ now \in 0..MaxTime
    BY DEF IInv, TypeOK
  <2>. QED  BY <2>1, <2>2, SameRecords
<1>3. CASE StartServing  BY <1>3, SameRecords DEF StartServing, IInv, TypeOK
<1>4. CASE Restart
  <2>1. gen' \in 1..MaxGen  BY <1>4, BoundsAssumption DEF Restart, IInv, TypeOK
  <2>2. serving' \in BOOLEAN  BY <1>4 DEF Restart
  <2>3. rec' = rec /\ now' \in 0..MaxTime  BY <1>4 DEF Restart, IInv, TypeOK
  <2>. QED  BY <2>1, <2>2, <2>3, SameRecords
<1>5. CASE Tick  BY <1>5, BoundsAssumption, SameRecords DEF Tick, IInv, TypeOK
<1>6. ASSUME NEW t \in Tasks, Create(t)  PROVE IInv' /\ StepOK  BY <1>6, CreateStep
<1>7. ASSUME NEW t \in Tasks, Attempt(t)  PROVE IInv' /\ StepOK  BY <1>7, AttemptStep
<1>8. ASSUME NEW t \in Tasks, \E why \in Reasons : RequestCancellation(t, why)
      PROVE  IInv' /\ StepOK
  BY <1>8, CancelStep
<1>9. ASSUME NEW t \in Tasks, \E at \in 0..now : RequeueRetryable(t, at)
      PROVE  IInv' /\ StepOK
  BY <1>1, <1>9, RetryStepLemma
<1>10. ASSUME NEW t \in Tasks, CheckpointEvidence(t)  PROVE IInv' /\ StepOK
  BY <1>10, EvidenceStep
<1>11. ASSUME NEW t \in Tasks, RecoverReplayDelivery(t) \/ RecoverAbandonedTask(t)
       PROVE  IInv' /\ StepOK
  BY <1>11, AbandonedStep
<1>12. ASSUME NEW t \in Tasks, InterruptAfterRestart(t)  PROVE IInv' /\ StepOK
  BY <1>12, InterruptStep
<1>13. ASSUME NEW t \in Tasks, \E r \in Results : RecoverFromCommittedEffect(t, r)
       PROVE  IInv' /\ StepOK
  BY <1>13, RecoverCommittedStep
<1>14. ASSUME NEW t \in Tasks, BlockForUnknownEffect(t)  PROVE IInv' /\ StepOK
  BY <1>14, BlockStep
<1>. QED
  BY <1>2, <1>3, <1>4, <1>5, <1>6, <1>7, <1>8, <1>9, <1>10, <1>11, <1>12, <1>13, <1>14
  DEF Next

LEMMA InitIInv == Init => IInv
<1>. SUFFICES ASSUME Init PROVE IInv  OBVIOUS
<1>1. \A t \in Tasks : rec[t] = None  BY DEF Init
<1>2. gen \in 1..MaxGen /\ now \in 0..MaxTime  BY BoundsAssumption DEF Init
<1>3. serving \in BOOLEAN  BY DEF Init
<1>4. rec \in [Tasks -> Snap \cup {None}]  BY DEF Init
<1>. QED  BY <1>1, <1>2, <1>3, <1>4 DEF IInv, TypeOK, Exists, Snap

\* The inductive invariant holds in every reachable state.
THEOREM Invariance == Spec => []IInv
<1>1. IInv /\ [Next]_vars => IInv'  BY NextStep
<1>. QED  BY <1>1, InitIInv, PTL DEF Spec

\* Every record keeps the shape TaskStateSnapshot declares.
THEOREM TypeCorrect == Spec => []TypeOK
<1>1. IInv => TypeOK  BY DEF IInv
<1>. QED  BY <1>1, Invariance, PTL

\* TaskStateSnapshot::validate accepts every record any history of claims,
\* outcomes, cancellations, retries and restarts can write.
THEOREM RecordsStayValid == Spec => []RecordsValid
<1>1. IInv => RecordsValid  BY DEF IInv, RecordsValid, Sound
<1>. QED  BY <1>1, Invariance, PTL

\* A durably cancelled task is never queued or running, whatever retry or
\* restart recovery does with it.
THEOREM CancellationBars == Spec => []CancelBarsExecution
<1>1. IInv => CancelBarsExecution  BY DEF IInv, CancelBarsExecution, Sound
<1>. QED  BY <1>1, Invariance, PTL

\* Queued records carry nothing of an attempt, active ones a whole claim.
THEOREM ClaimsWellShaped == Spec => []ClaimShape
<1>1. IInv => ClaimShape  BY DEF IInv, ClaimShape, Sound
<1>. QED  BY <1>1, Invariance, PTL

\* No operation takes a durable cancellation back or starts an attempt after it.
THEOREM CancellationSticks == Spec => CancelIsSticky
<1>1. IInv /\ [Next]_vars =>
        [\A t \in Tasks : Exists(t) /\ rec[t].cancelRequested =>
           rec[t]'.cancelRequested /\ rec[t]'.attempts = rec[t].attempts]_vars
  BY NextStep DEF StepOK, Follows
<1>. QED  BY <1>1, Invariance, PTL DEF Spec, CancelIsSticky

\* A completed result is final, and only proof of a committed effect releases a
\* task blocked for an unknown one.
THEOREM SettledOutcomes == Spec => SettledStaysSettled
<1>1. IInv /\ [Next]_vars =>
        [\A t \in Tasks : Exists(t) =>
           /\ rec[t].status = "completed" =>
                rec[t]'.status = "completed" /\ rec[t]'.result = rec[t].result
           /\ RequiresOperator(rec[t]) =>
                RequiresOperator(rec[t]') \/ rec[t]'.status = "completed"]_vars
  BY NextStep DEF StepOK, Follows
<1>. QED  BY <1>1, Invariance, PTL DEF Spec, SettledStaysSettled
=============================================================================
