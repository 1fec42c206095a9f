------------------------ MODULE TaskStateStoreProofs ------------------------
(***************************************************************************)
(* Proofs about TaskStateStore for any set of threads, tasks and owners.   *)
(*                                                                         *)
(* The argument: a transaction between its read and its commit carries the *)
(* operation that explains its candidate (Explained).  The version it read *)
(* only grows, so at commit an unchanged version means an unchanged record *)
(* and the operation applies to the record that is replaced.  From there   *)
(* commit_snapshot's own checks pass (OnlyConflictsRefuse), the commit is  *)
(* one step of TaskLifecycle, and the attempt number a claim takes is new. *)
(***************************************************************************)
EXTENDS TaskStateStore, TaskRecordProofs

-----------------------------------------------------------------------------
(* The operations of a thread c on the record s it read, with the          *)
(* candidate n and the commit mode m.                                      *)

\* The attempt of the current writer that s carries.
Live(s) == serving /\ s.status \in Active /\ s.owner \in Owners /\ s.generation = gen

\* A record of an older writer, met by restart recovery.
Left(s) == ~serving /\ s.generation # gen

ClaimOp(c, s, n, m) ==
  /\ serving /\ c \in Owners /\ Claimable(s) /\ m = "CompareAndSet"
  /\ \E at \in 0..now : n = ClaimForExecution(s, c, at)
HeartbeatOp(s, n, m) ==
  /\ Live(s) /\ m = "Heartbeat"
  /\ \E at \in 0..now : at > s.heartbeat /\ n = TouchHeartbeat(s, at)
FinishOp(s, n, m) ==
  /\ Live(s) /\ m = "AttemptOutcome" /\ s.status = "running"
  /\ \E at \in 0..now, out \in Outcomes : n = ApplyOutcome(s, out, at)
CancelledOp(s, n, m) ==
  Live(s) /\ m = "AttemptOutcome" /\ s.status = "cancelling" /\ n = MarkCancelled(s)
CommittedOp(s, n, m) ==
  Live(s) /\ m = "AttemptOutcome" /\ \E r \in Results : n = CompleteCommittedEffect(s, r)
BlockOp(s, n, m) == Live(s) /\ m = "AttemptOutcome" /\ n = BlockUnknownEffect(s)
CancelOp(s, n, m) ==
  /\ serving /\ m = "CompareAndSet"
  /\ \E why \in Reasons :
       /\ ~(s.cancelRequested /\ s.cancelReason = why)
       /\ \/ s.status = "queued" /\ n = MarkCancelled(RequestCancel(s, why))
          \/ s.status # "queued" /\ n = RequestCancel(s, why)
RetryOp(s, n, m) ==
  /\ serving /\ m = "RetryRequeue"
  /\ \E at \in 0..now : RetryStepEnabled(s, at) /\ n = RetryStep(s, at)
EvidenceOp(s, n, m) ==
  /\ serving /\ m = "CompareAndSet" /\ ~s.env.replay /\ s.status \in {"failed", "timed_out"}
  /\ s.retryable # None /\ s.attempts \notin s.deadLetters
  /\ n = AddDeadLetter(s, s.attempts)
ReplayOp(s, n, m) ==
  /\ s.env.replay /\ Abandoned(s) /\ ~(s.status = "running" /\ s.generation = gen)
  /\ m = "RetryRequeue" /\ n = Requeue(s)
AbandonedOp(s, n, m) ==
  Left(s) /\ ~s.env.replay /\ Abandoned(s) /\ m = "RetryRequeue" /\ n = Requeue(s)
InterruptOp(s, n, m) ==
  /\ Left(s) /\ s.status \in Active /\ m = "CompareAndSet"
  /\ n = BaselineInterrupt(s) \/ n = MarkInterrupted(s)
RecoverOp(s, n, m) ==
  /\ Left(s) /\ s.status # "completed" /\ m = "RestartRecovery"
  /\ \E r \in Results : n = RecoverCommitted(s, r)
UnknownOp(s, n, m) ==
  /\ Left(s) /\ s.status # "completed" /\ ~RequiresOperator(s) /\ m = "RestartRecovery"
  /\ n = BlockUnknownEffect(s)

\* An operation of the attempt that holds the record.
AttemptOp(s, n, m) ==
  \/ HeartbeatOp(s, n, m) \/ FinishOp(s, n, m) \/ CancelledOp(s, n, m)
  \/ CommittedOp(s, n, m) \/ BlockOp(s, n, m)

\* An operation of restart recovery.
RecoveryOp(s, n, m) ==
  AbandonedOp(s, n, m) \/ InterruptOp(s, n, m) \/ RecoverOp(s, n, m) \/ UnknownOp(s, n, m)

UpdateOp(c, s, n, m) ==
  \/ ClaimOp(c, s, n, m) \/ AttemptOp(s, n, m) \/ CancelOp(s, n, m) \/ RetryOp(s, n, m)
  \/ EvidenceOp(s, n, m) \/ ReplayOp(s, n, m) \/ RecoveryOp(s, n, m)

CreateOp(t, s, n, m) ==
  serving /\ s = None /\ n = QueuedSnapshot(Env[t]) /\ m = "Create"

Explained(c, x) ==
  \/ CreateOp(x.task, x.read, x.cand, x.mode)
  \/ x.read # None /\ UpdateOp(c, x.read, x.cand, x.mode)

-----------------------------------------------------------------------------
(* The inductive invariant.                                                *)

StoreType ==
  /\ file \in [Tasks -> Files \cup {None}]
  /\ latest \in Aliases \cup {None}
  /\ txn \in [Threads -> Proposals \cup {None}]
  /\ lock \in Threads \cup {None}
  /\ held \in [Owners -> Claims \cup {None}]
  /\ gen \in 1..MaxGen /\ serving \in BOOLEAN /\ now \in 0..MaxTime

FilesSound == \A t \in Tasks : file[t] # None => Sound(file[t].snap)

\* The record lock is held from the commit to the end of the alias write.
LockedTxn == lock # None => txn[lock] # None /\ txn[lock].stage = "alias"

\* What a transaction in flight knows: the version it read is not ahead of the
\* file's; until another commit the file still has the record it read; its own
\* commit is in the file once it left the commit stage.
TxnKnows(c, x) ==
  /\ x.base <= Version(x.task)
  /\ x.stage = "commit" => Explained(c, x) /\ (x.base = Version(x.task) => x.read = Snap(x.task))
  /\ x.stage # "commit" => x.base < Version(x.task)
TxnsKnow == \A c \in Threads : txn[c] # None => TxnKnows(c, txn[c])

HeldByWriter == \A o \in Owners : held[o] # None => held[o].fence.generation = gen

\* Owner o believes it has attempt a of task t, or its committed claim is on its
\* way back to it.
HasClaim(o, t, a) == held[o] # None /\ held[o].task = t /\ held[o].fence.attempt = a
WonClaim(o, t, a) ==
  /\ txn[o] # None /\ txn[o].stage # "commit" /\ IsClaimTxn(o, txn[o])
  /\ txn[o].task = t /\ txn[o].cand.attempts = a
Pledged(o, t, a) == HasClaim(o, t, a) \/ WonClaim(o, t, a)

PledgesCounted ==
  \A o \in Owners, t \in Tasks, a \in Nat :
    Pledged(o, t, a) => file[t] # None /\ a <= file[t].snap.attempts
PledgesDiffer ==
  \A o, p \in Owners, t \in Tasks, a \in Nat : Pledged(o, t, a) /\ Pledged(p, t, a) => o = p

AliasBehind == latest # None => latest.version <= Version(latest.task)

IInv ==
  /\ StoreType /\ FilesSound /\ LockedTxn /\ TxnsKnow /\ HeldByWriter
  /\ PledgesCounted /\ PledgesDiffer /\ AliasBehind

-----------------------------------------------------------------------------
(* What commit_snapshot asks of an update: Permitted is what an operation  *)
(* on a sound record s guarantees of its candidate n.                      *)

Permitted(s, n, m) ==
  /\ n \in Snapshots /\ Sound(n)
  /\ n.generation = s.generation /\ n.env = s.env /\ n.attempts >= s.attempts
  /\ m \in Modes /\ m # "Create" /\ TransitionAllowed(s, n, m)

\* None is no number, no flag and no text.
LEMMA NoneFacts ==
  /\ None \notin Int /\ None \notin BOOLEAN /\ None \notin {"error", "timeout"}
  /\ None \notin Owners /\ None \notin Results /\ None \notin Reasons /\ None \notin Threads
  /\ None \notin {UnknownEffect, RestartNote}
BY RecordAssumption, ThreadsAssumption

\* The clock readings a thread can have made are numbers.
LEMMA ClockFacts ==
  ASSUME StoreType
  PROVE  now \in Nat /\ gen \in Nat /\ \A at \in 0..now : at \in Nat
BY RecordAssumption DEF StoreType

\* A claim.
LEMMA ClaimPermitted ==
  ASSUME StoreType, NEW c, NEW s \in Snapshots, Sound(s), NEW n, NEW m, ClaimOp(c, s, n, m)
  PROVE  Permitted(s, n, m) /\ n.status = "running" /\ n.attempts = s.attempts + 1 /\ n.owner = c
<1>1. PICK at \in 0..now : n = ClaimForExecution(s, c, at)  BY DEF ClaimOp
<1>2. c \in Owners /\ Claimable(s) /\ m = "CompareAndSet" /\ at \in Nat
  BY ClockFacts DEF ClaimOp
<1>3. /\ n \in Snapshots /\ Sound(n) /\ n.status = "running" /\ n.attempts = s.attempts + 1
      /\ n.cancelRequested = s.cancelRequested /\ n.result = None /\ n.reason = None
  BY <1>1, <1>2, ClaimFacts, NoneFacts DEF Snapshots
<1>4. PICK k : k = ClearOutcome(s)  OBVIOUS
<1>5. k \in Snapshots /\ k.errorKind = None /\ k.env = s.env /\ k.generation = s.generation
  BY <1>4, ClearFacts DEF Snapshots, SnapshotType, ClearOutcome
<1>6. n = [k EXCEPT !.attempts = k.attempts + 1, !.owner = c, !.status = "running",
             !.heartbeat = at,
             !.deadline = IF s.env.timeout = None THEN None ELSE at + s.env.timeout]
  BY <1>1, <1>4 DEF ClaimForExecution
<1>7. /\ n.env = s.env /\ n.generation = s.generation /\ n.errorKind = None /\ n.owner = c
      /\ n.heartbeat = at
      /\ n.deadline = IF s.env.timeout = None THEN None ELSE at + s.env.timeout
  BY <1>5, <1>6 DEF Snapshots, SnapshotType
<1>8. s.attempts \in Nat /\ s.status = "queued" /\ s.owner = None /\ ~s.cancelRequested
  BY <1>2 DEF Claimable, Snapshots, SnapshotType
<1>9. IsClaim(s, n)
  BY <1>2, <1>3, <1>7, <1>8, NoneFacts DEF IsClaim
<1>10. TransitionAllowed(s, n, m)
  BY <1>3, <1>8, <1>9 DEF TransitionAllowed, IsTerminal, Terminal, NextStatuses
<1>. QED  BY <1>2, <1>3, <1>7, <1>8, <1>10 DEF Permitted, Modes

\* An operation that keeps the claim of the record and its terminal metadata or
\* ends a live attempt passes the transition table.
LEMMA PlainTransition ==
  ASSUME NEW s \in Snapshots, NEW n \in Snapshots, NEW m,
         n.owner = s.owner, n.attempts = s.attempts, n.deadline = s.deadline,
         n.heartbeat = s.heartbeat \/ m \in {"AttemptOutcome", "Heartbeat"},
         s.status \in Active /\ n.status \in Terminal =>
           n.status = "interrupted" \/ m = "AttemptOutcome",
         IsTerminal(s) => TerminalMetadata(n) = TerminalMetadata(s),
         n.status \in NextStatuses(s.status), n.status = "running" => s.status = "running"
  PROVE  TransitionAllowed(s, n, m)
BY DEF TransitionAllowed

\* The heartbeat, the outcomes and the two effect endings of a live attempt.
LEMMA HeartbeatPermitted ==
  ASSUME StoreType, NEW s \in Snapshots, Sound(s), NEW n, NEW m, HeartbeatOp(s, n, m)
  PROVE  Permitted(s, n, m) /\ n.attempts = s.attempts
<1>1. PICK at \in 0..now : n = TouchHeartbeat(s, at)  BY DEF HeartbeatOp
<1>2. at \in Nat /\ m = "Heartbeat" /\ s.status \in Active  BY ClockFacts DEF HeartbeatOp, Live
<1>3. n \in Snapshots /\ Sound(n) /\ n.status = s.status /\ n.attempts = s.attempts
  BY <1>1, <1>2, TouchFacts, NoneFacts DEF Snapshots
<1>4. n.env = s.env /\ n.generation = s.generation /\ n.owner = s.owner /\ n.deadline = s.deadline
  BY <1>1 DEF TouchHeartbeat, Snapshots, SnapshotType
<1>5. TransitionAllowed(s, n, m)
  BY <1>2, <1>3, <1>4, PlainTransition DEF Active, Terminal, IsTerminal, NextStatuses
<1>. QED  BY <1>2, <1>3, <1>4, <1>5 DEF Permitted, Modes, Snapshots, SnapshotType

\* The outcome an attempt reports.
LEMMA FinishPermitted ==
  ASSUME StoreType, NEW s \in Snapshots, Sound(s), NEW n, NEW m, FinishOp(s, n, m)
  PROVE  Permitted(s, n, m) /\ n.attempts = s.attempts
<1>1. PICK at \in 0..now, out \in Outcomes : n = ApplyOutcome(s, out, at)  BY DEF FinishOp
<1>2. at \in Nat /\ m = "AttemptOutcome" /\ s.status = "running"  BY ClockFacts DEF FinishOp
<1>3. \/ \E r \in Results : n = Complete(s, r)
      \/ \E b \in BOOLEAN : n = Fail(s, "error", b) \/ n = TimeOut(s, at, b)
  BY <1>1 DEF Outcomes, Outcome, ApplyOutcome
<1> DEFINE Ended == /\ n \in Snapshots /\ Sound(n) /\ n.attempts = s.attempts
                   /\ n.status \in {"completed", "failed", "timed_out"}
<1>4. Ended
  <2>1. ASSUME NEW r \in Results, n = Complete(s, r)  PROVE Ended
    BY <2>1, <1>2, CompleteFacts, NoneFacts DEF Snapshots
  <2>2. ASSUME NEW b \in BOOLEAN, n = Fail(s, "error", b)  PROVE Ended
    BY <2>2, <1>2, FailFacts, NoneFacts DEF Snapshots
  <2>3. ASSUME NEW b \in BOOLEAN, n = TimeOut(s, at, b)  PROVE Ended
    BY <2>3, <1>2, TimeOutFacts, NoneFacts DEF Snapshots
  <2>. QED  BY <1>3, <2>1, <2>2, <2>3
<1>5. n.env = s.env /\ n.generation = s.generation /\ n.owner = s.owner /\ n.deadline = s.deadline
  BY <1>3 DEF Complete, Fail, TimeOut, Snapshots, SnapshotType
<1>6. TransitionAllowed(s, n, m)
  BY <1>2, <1>4, <1>5, PlainTransition DEF Active, Terminal, IsTerminal, NextStatuses
<1>. QED  BY <1>2, <1>4, <1>5, <1>6 DEF Permitted, Modes, Snapshots, SnapshotType

\* A cancelling attempt closes as cancelled.
LEMMA CancelledPermitted ==
  ASSUME StoreType, NEW s \in Snapshots, Sound(s), NEW n, NEW m, CancelledOp(s, n, m)
  PROVE  Permitted(s, n, m) /\ n.attempts = s.attempts
<1>1. n = MarkCancelled(s) /\ m = "AttemptOutcome" /\ s.status = "cancelling"  BY DEF CancelledOp
<1>2. n \in Snapshots /\ Sound(n) /\ n.status = "cancelled" /\ n.attempts = s.attempts
  BY <1>1, MarkCancelledFacts DEF Snapshots
<1>3. n.env = s.env /\ n.generation = s.generation /\ n.owner = s.owner /\ n.deadline = s.deadline
  BY <1>1 DEF MarkCancelled, Snapshots, SnapshotType
<1>4. TransitionAllowed(s, n, m)
  BY <1>1, <1>2, <1>3, PlainTransition DEF Active, Terminal, IsTerminal, NextStatuses
<1>. QED  BY <1>1, <1>2, <1>3, <1>4 DEF Permitted, Modes, Snapshots, SnapshotType

\* A committed effect completes the attempt.
LEMMA CommittedPermitted ==
  ASSUME StoreType, NEW s \in Snapshots, Sound(s), NEW n, NEW m, CommittedOp(s, n, m)
  PROVE  Permitted(s, n, m) /\ n.attempts = s.attempts
<1>1. PICK r \in Results : n = CompleteCommittedEffect(s, r)  BY DEF CommittedOp
<1>2. m = "AttemptOutcome" /\ s.status \in Active  BY DEF CommittedOp, Live
<1>3. n \in Snapshots /\ Sound(n) /\ n.status = "completed" /\ n.attempts = s.attempts
  BY <1>1, <1>2, CompleteCommittedFacts, NoneFacts DEF Snapshots
<1>4. PICK k : k = Complete(s, r)  OBVIOUS
<1>5. /\ k.env = s.env /\ k.generation = s.generation /\ k.owner = s.owner
      /\ k.deadline = s.deadline
  BY <1>4 DEF Complete, Snapshots, SnapshotType
<1>6. n.env = k.env /\ n.generation = k.generation /\ n.owner = k.owner /\ n.deadline = k.deadline
  BY <1>1, <1>4 DEF CompleteCommittedEffect, Complete, Snapshots, SnapshotType
<1>7. TransitionAllowed(s, n, m)
  BY <1>2, <1>3, <1>5, <1>6, PlainTransition DEF Active, Terminal, IsTerminal, NextStatuses
<1>. QED  BY <1>2, <1>3, <1>5, <1>6, <1>7 DEF Permitted, Modes, Snapshots, SnapshotType

\* What BlockUnknownEffect and RecoverCommitted leave alone.
LEMMA BlockKeeps ==
  ASSUME NEW s \in Snapshots, NEW n, n = BlockUnknownEffect(s)
  PROVE  /\ n.env = s.env /\ n.generation = s.generation /\ n.owner = s.owner
         /\ n.deadline = s.deadline /\ n.heartbeat = s.heartbeat
<1>1. PICK k : k = ClearOutcome(s)  OBVIOUS
<1>2. /\ k \in Snapshots /\ k.env = s.env /\ k.generation = s.generation /\ k.owner = s.owner
      /\ k.deadline = s.deadline /\ k.heartbeat = s.heartbeat
  BY <1>1, ClearFacts DEF ClearOutcome, Snapshots, SnapshotType
<1>. QED  BY <1>1, <1>2 DEF BlockUnknownEffect, Snapshots, SnapshotType

\* A prepared effect whose outcome is unknown blocks the task.
LEMMA BlockPermitted ==
  ASSUME StoreType, NEW s \in Snapshots, Sound(s), NEW n, NEW m, BlockOp(s, n, m)
  PROVE  Permitted(s, n, m) /\ n.attempts = s.attempts
<1>1. n = BlockUnknownEffect(s) /\ m = "AttemptOutcome" /\ s.status \in Active
  BY DEF BlockOp, Live
<1>2. n \in Snapshots /\ Sound(n) /\ n.status = "interrupted" /\ n.attempts = s.attempts
  BY <1>1, BlockFacts DEF Snapshots
<1>3. n.env = s.env /\ n.generation = s.generation /\ n.owner = s.owner /\ n.deadline = s.deadline
  BY <1>1, BlockKeeps
<1>4. TransitionAllowed(s, n, m)
  BY <1>1, <1>2, <1>3, PlainTransition DEF Active, Terminal, IsTerminal, NextStatuses
<1>. QED  BY <1>1, <1>2, <1>3, <1>4 DEF Permitted, Modes, Snapshots, SnapshotType

\* A cancellation request, on a queued, an active or a finished record.
LEMMA CancelPermitted ==
  ASSUME StoreType, NEW s \in Snapshots, Sound(s), NEW n, NEW m, CancelOp(s, n, m)
  PROVE  Permitted(s, n, m) /\ n.attempts = s.attempts /\ n.status # "running"
<1>1. PICK why \in Reasons :
        \/ s.status = "queued" /\ n = MarkCancelled(RequestCancel(s, why))
        \/ s.status # "queued" /\ n = RequestCancel(s, why)
  BY DEF CancelOp
<1>2. m = "CompareAndSet"  BY DEF CancelOp
<1>3. s.status \in Statuses  BY DEF Snapshots, SnapshotType
<1> DEFINE Kept == /\ n.env = s.env /\ n.generation = s.generation /\ n.owner = s.owner
                   /\ n.deadline = s.deadline /\ n.heartbeat = s.heartbeat
<1>4. CASE s.status = "queued"
  <2>1. n = MarkCancelled(RequestCancel(s, why))  BY <1>1, <1>4
  <2>2. n \in Snapshots /\ Sound(n) /\ n.status = "cancelled" /\ n.attempts = s.attempts
    BY <1>4, <2>1, CancelQueuedFacts DEF Snapshots
  <2>3. PICK k : k = RequestCancel(s, why)  OBVIOUS
  <2>4. k = [s EXCEPT !.cancelRequested = TRUE, !.cancelReason = why,
                      !.cancelAccepted = TRUE, !.status = "cancelling"]
    BY <1>4, <2>3 DEF RequestCancel, IsTerminal, Terminal
  <2>5. /\ k \in Snapshots /\ k.env = s.env /\ k.generation = s.generation /\ k.owner = s.owner
        /\ k.deadline = s.deadline /\ k.heartbeat = s.heartbeat
    BY <2>4 DEF Snapshots, SnapshotType, Statuses
  <2>6. Kept  BY <2>1, <2>3, <2>5 DEF MarkCancelled, Snapshots, SnapshotType
  <2>7. TransitionAllowed(s, n, m)
    BY <1>2, <1>4, <2>2, <2>6, PlainTransition DEF Active, Terminal, IsTerminal, NextStatuses
  <2>. QED  BY <1>2, <2>2, <2>6, <2>7 DEF Permitted, Modes, Snapshots, SnapshotType
<1>5. CASE s.status \in Active
  <2>1. n = RequestCancel(s, why)  BY <1>1, <1>5 DEF Active
  <2>2. n \in Snapshots /\ Sound(n) /\ n.status = "cancelling" /\ n.attempts = s.attempts
    BY <1>5, <2>1, CancelActiveFacts DEF Snapshots
  <2>3. Kept  BY <2>1 DEF RequestCancel, Snapshots, SnapshotType
  <2>4. TransitionAllowed(s, n, m)
    BY <1>2, <1>5, <2>2, <2>3, PlainTransition DEF Active, Terminal, IsTerminal, NextStatuses
  <2>. QED  BY <1>2, <2>2, <2>3, <2>4 DEF Permitted, Modes, Snapshots, SnapshotType
<1>6. CASE s.status \in Terminal
  <2>1. n = RequestCancel(s, why)  BY <1>1, <1>6 DEF Terminal
  <2>2. n \in Snapshots /\ Sound(n) /\ n.status = s.status /\ n.attempts = s.attempts
    BY <1>6, <2>1, CancelTerminalFacts DEF Snapshots
  <2>3. Kept  BY <2>1 DEF RequestCancel, Snapshots, SnapshotType
  <2>4. TerminalMetadata(n) = TerminalMetadata(s)
    BY <2>1 DEF RequestCancel, Snapshots, SnapshotType, TerminalMetadata
  <2>5. TransitionAllowed(s, n, m)
    BY <1>2, <1>6, <2>2, <2>3, <2>4, PlainTransition DEF Active, Terminal, IsTerminal, NextStatuses
  <2>6. n.status # "running"  BY <1>6, <2>2 DEF Terminal
  <2>. QED  BY <1>2, <2>2, <2>3, <2>5, <2>6 DEF Permitted, Modes, Snapshots, SnapshotType
<1>. QED  BY <1>3, <1>4, <1>5, <1>6 DEF Statuses, Active, Terminal

\* Back to the queue, after a failed attempt or an abandoned one.
LEMMA RequeuePermitted ==
  ASSUME NEW s \in Snapshots, Sound(s), NEW n, n = Requeue(s), NEW m, m = "RetryRequeue",
         RetryEligible(s) \/ Abandoned(s)
  PROVE  Permitted(s, n, m) /\ n.attempts = s.attempts
<1>1. ~s.cancelRequested  BY DEF RetryEligible, Abandoned
<1>2. n \in Snapshots /\ Sound(n) /\ n.status = "queued" /\ n.attempts = s.attempts
  BY <1>1, RequeueFacts DEF Snapshots
<1>3. PICK k : k = ClearOutcome(s)  OBVIOUS
<1>4. k \in Snapshots /\ k.env = s.env /\ k.generation = s.generation
  BY <1>3, ClearFacts DEF ClearOutcome, Snapshots, SnapshotType
<1>5. n.env = s.env /\ n.generation = s.generation
  BY <1>3, <1>4 DEF Requeue, Snapshots, SnapshotType
<1>6. IsRetryRequeue(s, n)  BY DEF IsRetryRequeue
<1>7. TransitionAllowed(s, n, m)  BY <1>2, <1>6 DEF TransitionAllowed, Terminal
<1>. QED  BY <1>2, <1>5, <1>7 DEF Permitted, Modes, Snapshots, SnapshotType

\* A retry schedules its due time or requeues.
LEMMA RetryPermitted ==
  ASSUME StoreType, NEW s \in Snapshots, Sound(s), NEW n, NEW m, RetryOp(s, n, m)
  PROVE  Permitted(s, n, m) /\ n.attempts = s.attempts
<1>1. PICK at \in 0..now : RetryStepEnabled(s, at) /\ n = RetryStep(s, at)  BY DEF RetryOp
<1>2. at \in Nat /\ m = "RetryRequeue" /\ RetryEligible(s)
  BY <1>1, ClockFacts DEF RetryOp, RetryStepEnabled
<1>3. CASE n = Requeue(s)  BY <1>2, <1>3, RequeuePermitted
<1>4. CASE n # Requeue(s)
  <2>1. s.env \in EnvType  BY DEF Snapshots, SnapshotType
  <2>2. s.env.backoff \in Nat  BY <2>1 DEF EnvType
  <2>3. PICK d \in Nat : d = at + s.env.backoff  BY <1>2, <2>2
  <2>4. s.ready = None /\ n = ScheduleRetry(s, d)  BY <1>1, <1>4, <2>3 DEF RetryStep
  <2>5. n \in Snapshots /\ Sound(n) /\ n.status = s.status /\ n.attempts = s.attempts
    BY <1>2, <2>4, ScheduleFacts, NoneFacts DEF Snapshots
  <2>6. /\ n.env = s.env /\ n.generation = s.generation /\ n.owner = s.owner
        /\ n.deadline = s.deadline /\ n.heartbeat = s.heartbeat /\ n.ready = d
    BY <2>4 DEF ScheduleRetry, Snapshots, SnapshotType
  <2>7. d # None  BY NoneFacts
  <2>8. IsRetryRequeue(s, n)  BY <1>2, <2>4, <2>6, <2>7 DEF IsRetryRequeue
  <2>9. s.status \in {"failed", "timed_out"}  BY <1>2 DEF RetryEligible
  <2>10. TransitionAllowed(s, n, m)
    BY <1>2, <2>5, <2>6, <2>8, <2>9 DEF TransitionAllowed, Active
  <2>. QED  BY <1>2, <2>5, <2>6, <2>10 DEF Permitted, Modes, Snapshots, SnapshotType
<1>. QED  BY <1>3, <1>4

\* A dead-letter summary is added to a failed attempt.
LEMMA EvidencePermitted ==
  ASSUME StoreType, NEW s \in Snapshots, Sound(s), NEW n, NEW m, EvidenceOp(s, n, m)
  PROVE  Permitted(s, n, m) /\ n.attempts = s.attempts /\ n.status # "running"
<1>1. s.attempts \in Nat  BY DEF Snapshots, SnapshotType
<1>2. /\ n = AddDeadLetter(s, s.attempts) /\ m = "CompareAndSet"
      /\ s.status \in {"failed", "timed_out"}
  BY DEF EvidenceOp
<1>3. n \in Snapshots /\ Sound(n) /\ n.status = s.status /\ n.attempts = s.attempts
  BY <1>1, <1>2, AddDeadLetterFacts DEF Snapshots
<1>4. /\ n.env = s.env /\ n.generation = s.generation /\ n.owner = s.owner
      /\ n.deadline = s.deadline /\ n.heartbeat = s.heartbeat
      /\ TerminalMetadata(n) = TerminalMetadata(s)
  BY <1>2 DEF AddDeadLetter, Snapshots, SnapshotType, TerminalMetadata
<1>5. TransitionAllowed(s, n, m)
  BY <1>2, <1>3, <1>4, PlainTransition DEF Active, Terminal, IsTerminal, NextStatuses
<1>. QED  BY <1>2, <1>3, <1>4, <1>5 DEF Permitted, Modes, Snapshots, SnapshotType

\* A replay delivery is reclaimed.
LEMMA ReplayPermitted ==
  ASSUME StoreType, NEW s \in Snapshots, Sound(s), NEW n, NEW m, ReplayOp(s, n, m)
  PROVE  Permitted(s, n, m) /\ n.attempts = s.attempts
BY RequeuePermitted DEF ReplayOp

\* An abandoned task is requeued by restart recovery.
LEMMA AbandonedPermitted ==
  ASSUME StoreType, NEW s \in Snapshots, Sound(s), NEW n, NEW m, AbandonedOp(s, n, m)
  PROVE  Permitted(s, n, m) /\ n.attempts = s.attempts
BY RequeuePermitted DEF AbandonedOp

\* An active attempt of an older writer is interrupted.
LEMMA InterruptPermitted ==
  ASSUME StoreType, NEW s \in Snapshots, Sound(s), NEW n, NEW m, InterruptOp(s, n, m)
  PROVE  Permitted(s, n, m) /\ n.attempts = s.attempts /\ n.status # "running"
<1>1. m = "CompareAndSet" /\ s.status \in Active  BY DEF InterruptOp
<1>2. n = BaselineInterrupt(s) \/ n = MarkInterrupted(s)  BY DEF InterruptOp
<1>3. n \in Snapshots /\ Sound(n) /\ n.status = "interrupted" /\ n.attempts = s.attempts
  BY <1>1, <1>2, BaselineFacts, MarkInterruptedFacts DEF Snapshots
<1>4. /\ n.env = s.env /\ n.generation = s.generation /\ n.owner = s.owner
      /\ n.deadline = s.deadline /\ n.heartbeat = s.heartbeat
  BY <1>2 DEF BaselineInterrupt, MarkInterrupted, Snapshots, SnapshotType
<1>5. TransitionAllowed(s, n, m)
  BY <1>1, <1>3, <1>4, PlainTransition DEF Active, Terminal, IsTerminal, NextStatuses
<1>. QED  BY <1>1, <1>3, <1>4, <1>5 DEF Permitted, Modes, Snapshots, SnapshotType

\* A committed effect closes the task at recovery.
LEMMA RecoverPermitted ==
  ASSUME StoreType, NEW s \in Snapshots, Sound(s), NEW n, NEW m, RecoverOp(s, n, m)
  PROVE  Permitted(s, n, m) /\ n.attempts = s.attempts
<1>1. PICK r \in Results : n = RecoverCommitted(s, r)  BY DEF RecoverOp
<1>2. m = "RestartRecovery" /\ s.status # "completed" /\ r # None  BY NoneFacts DEF RecoverOp
<1>3. /\ n \in Snapshots /\ Sound(n) /\ n.status = "completed" /\ n.attempts = s.attempts
      /\ n.result = r
  BY <1>1, RecoverCommittedFacts, NoneFacts DEF Snapshots
<1>4. PICK k : k = ClearOutcome(s)  OBVIOUS
<1>5. k \in Snapshots /\ k.env = s.env /\ k.generation = s.generation
  BY <1>4, ClearFacts DEF ClearOutcome, Snapshots, SnapshotType
<1>6. n.env = s.env /\ n.generation = s.generation
  BY <1>1, <1>4, <1>5 DEF RecoverCommitted, Snapshots, SnapshotType
<1>7. IsRestartRecovery(s, n)  BY <1>1, <1>2, <1>3 DEF IsRestartRecovery
<1>8. TransitionAllowed(s, n, m)  BY <1>2, <1>3, <1>7 DEF TransitionAllowed
<1>. QED  BY <1>2, <1>3, <1>6, <1>8 DEF Permitted, Modes, Snapshots, SnapshotType

\* An unknown effect leaves the task to an operator.
LEMMA UnknownPermitted ==
  ASSUME StoreType, NEW s \in Snapshots, Sound(s), NEW n, NEW m, UnknownOp(s, n, m)
  PROVE  Permitted(s, n, m) /\ n.attempts = s.attempts
<1>1. n = BlockUnknownEffect(s) /\ m = "RestartRecovery" /\ s.status # "completed"
  BY DEF UnknownOp
<1>2. n \in Snapshots /\ Sound(n) /\ n.status = "interrupted" /\ n.attempts = s.attempts
  BY <1>1, BlockFacts DEF Snapshots
<1>3. n.env = s.env /\ n.generation = s.generation  BY <1>1, BlockKeeps
<1>4. IsRestartRecovery(s, n)  BY <1>1 DEF IsRestartRecovery
<1>5. TransitionAllowed(s, n, m)  BY <1>1, <1>2, <1>4 DEF TransitionAllowed
<1>. QED  BY <1>1, <1>2, <1>3, <1>5 DEF Permitted, Modes, Snapshots, SnapshotType

\* Every operation on a sound record is permitted, and only a claim is both a
\* compare-and-set and a running candidate.
LEMMA UpdatePermitted ==
  ASSUME StoreType, NEW c, NEW s \in Snapshots, Sound(s), NEW n, NEW m, UpdateOp(c, s, n, m)
  PROVE  /\ Permitted(s, n, m)
         /\ m = "CompareAndSet" /\ n.status = "running" => ClaimOp(c, s, n, m)
<1>1. CASE ClaimOp(c, s, n, m)  BY <1>1, ClaimPermitted
<1>2. CASE AttemptOp(s, n, m)
  <2>1. Permitted(s, n, m)
    BY <1>2, HeartbeatPermitted, FinishPermitted, CancelledPermitted, CommittedPermitted,
       BlockPermitted DEF AttemptOp
  <2>2. m # "CompareAndSet"
    BY <1>2 DEF AttemptOp, HeartbeatOp, FinishOp, CancelledOp, CommittedOp, BlockOp
  <2>. QED  BY <2>1, <2>2
<1>3. CASE CancelOp(s, n, m)  BY <1>3, CancelPermitted
<1>4. CASE RetryOp(s, n, m)  BY <1>4, RetryPermitted DEF RetryOp
<1>5. CASE EvidenceOp(s, n, m)  BY <1>5, EvidencePermitted
<1>6. CASE ReplayOp(s, n, m)  BY <1>6, ReplayPermitted DEF ReplayOp
<1>7. CASE RecoveryOp(s, n, m)
  <2>1. CASE InterruptOp(s, n, m)  BY <2>1, InterruptPermitted
  <2>2. CASE AbandonedOp(s, n, m) \/ RecoverOp(s, n, m) \/ UnknownOp(s, n, m)
    <3>1. m # "CompareAndSet"  BY <2>2 DEF AbandonedOp, RecoverOp, UnknownOp
    <3>. QED  BY <2>2, <3>1, AbandonedPermitted, RecoverPermitted, UnknownPermitted
  <2>. QED  BY <1>7, <2>1, <2>2 DEF RecoveryOp
<1>. QED  BY <1>1, <1>2, <1>3, <1>4, <1>5, <1>6, <1>7 DEF UpdateOp

-----------------------------------------------------------------------------
(* Files and transactions.                                                 *)

\* The record file of a task, and its absence.
LEMMA FileFacts ==
  ASSUME StoreType, FilesSound, NEW t \in Tasks
  PROVE  /\ file[t] = None => Version(t) = 0 /\ Snap(t) = None
         /\ file[t] # None =>
              /\ file[t] \in Files /\ Version(t) = file[t].version /\ Version(t) \in 1..MaxVersion
              /\ Snap(t) = file[t].snap /\ Snap(t) \in Snapshots /\ Snap(t) # None
              /\ Sound(Snap(t))
         /\ Version(t) \in Nat
<1>1. file[t] \in Files \cup {None}  BY DEF StoreType
<1>2. ASSUME file[t] # None
      PROVE  /\ file[t] \in Files /\ file[t].version \in 1..MaxVersion
             /\ file[t].snap \in Snapshots /\ Sound(file[t].snap)
  BY <1>1, <1>2 DEF Files, FilesSound
<1>3. MaxVersion \in Nat  BY MaxVersionAssumption
<1>. QED  BY <1>2, <1>3, AbsenceAssumption DEF Version, Snap

\* The transaction of a thread.
LEMMA TxnFacts ==
  ASSUME StoreType, NEW c \in Threads, txn[c] # None
  PROVE  /\ txn[c] \in Proposals /\ txn[c].task \in Tasks /\ txn[c].base \in Nat
         /\ txn[c].cand \in Snapshots /\ txn[c].read \in Snapshots \cup {None}
         /\ txn[c].mode \in Modes /\ txn[c].stage \in {"commit", "alias", "refresh"}
BY DEF StoreType, Proposals

\* A transaction whose version still matches: its operation applies to the record
\* in the file, and commit_snapshot's checks pass.
LEMMA Current ==
  ASSUME IInv, NEW c \in Threads, NEW x \in Proposals, txn[c] = x, x.stage = "commit",
         VersionMatches(x)
  PROVE  /\ Admissible(x) /\ Sound(x.cand)
         /\ file[x.task] = None =>
              x.base = 0 /\ CreateOp(x.task, None, x.cand, x.mode)
         /\ file[x.task] # None =>
              /\ UpdateOp(c, Snap(x.task), x.cand, x.mode)
              /\ Permitted(Snap(x.task), x.cand, x.mode)
<1>1. txn[c] # None  BY AbsenceAssumption
<1>2. StoreType /\ FilesSound /\ TxnKnows(c, x)  BY <1>1 DEF IInv, TxnsKnow
<1>3. PICK t \in Tasks : t = x.task  BY DEF Proposals
<1>4. Explained(c, x) /\ x.read = Snap(t)  BY <1>2, <1>3 DEF TxnKnows, VersionMatches
<1>5. CASE file[t] = None
  <2>1. x.base = 0 /\ x.read = None
    BY <1>2, <1>3, <1>4, <1>5, FileFacts DEF VersionMatches
  <2>2. CreateOp(t, None, x.cand, x.mode)  BY <1>3, <1>4, <2>1 DEF Explained
  <2>3. Env[t] \in EnvType  BY RecordAssumption
  <2>4. Sound(x.cand)  BY <2>2, <2>3, QueuedFacts DEF CreateOp
  <2>. QED  BY <1>3, <1>5, <2>1, <2>2, <2>4 DEF Admissible, Sound
<1>6. CASE file[t] # None
  <2>1. PICK s \in Snapshots : s = Snap(t)  BY <1>2, <1>6, FileFacts
  <2>2. s # None /\ Sound(s)  BY <1>2, <1>6, <2>1, FileFacts
  <2>3. UpdateOp(c, s, x.cand, x.mode)
    BY <1>4, <2>1, <2>2 DEF Explained, CreateOp
  <2>4. Permitted(s, x.cand, x.mode)  BY <1>2, <2>2, <2>3, UpdatePermitted
  <2>. QED  BY <1>3, <1>6, <2>1, <2>3, <2>4 DEF Admissible, Permitted, Sound
<1>. QED  BY <1>3, <1>5, <1>6

\* An operation stays explained while its process serves on and the clock moves.
LEMMA ExplainedStays ==
  ASSUME now \in Nat, now' \in Nat, now' >= now, gen' = gen, serving' = serving,
         NEW c, NEW x, Explained(c, x)
  PROVE  Explained(c, x)'
<1>1. \A at \in 0..now : at \in 0..now'  OBVIOUS
<1>2. CASE CreateOp(x.task, x.read, x.cand, x.mode)  BY <1>2 DEF Explained, CreateOp
<1>3. CASE x.read # None /\ UpdateOp(c, x.read, x.cand, x.mode)
  <2>1. PICK s, n, m : s = x.read /\ n = x.cand /\ m = x.mode  OBVIOUS
  <2>2. UpdateOp(c, s, n, m)  BY <1>3, <2>1
  <2>3. ClaimOp(c, s, n, m) => ClaimOp(c, s, n, m)'  BY <1>1 DEF ClaimOp
  <2>4. AttemptOp(s, n, m) => AttemptOp(s, n, m)'
    <3>1. Live(s) => Live(s)'  BY DEF Live
    <3>2. HeartbeatOp(s, n, m) => HeartbeatOp(s, n, m)'  BY <1>1, <3>1 DEF HeartbeatOp
    <3>3. FinishOp(s, n, m) => FinishOp(s, n, m)'  BY <1>1, <3>1 DEF FinishOp
    <3>4. CancelledOp(s, n, m) => CancelledOp(s, n, m)'  BY <3>1 DEF CancelledOp
    <3>5. CommittedOp(s, n, m) => CommittedOp(s, n, m)'  BY <3>1 DEF CommittedOp
    <3>6. BlockOp(s, n, m) => BlockOp(s, n, m)'  BY <3>1 DEF BlockOp
    <3>. QED  BY <3>2, <3>3, <3>4, <3>5, <3>6 DEF AttemptOp
  <2>5. CancelOp(s, n, m) => CancelOp(s, n, m)'  BY DEF CancelOp
  <2>6. RetryOp(s, n, m) => RetryOp(s, n, m)'  BY <1>1 DEF RetryOp
  <2>7. EvidenceOp(s, n, m) => EvidenceOp(s, n, m)'  BY DEF EvidenceOp
  <2>8. ReplayOp(s, n, m) => ReplayOp(s, n, m)'  BY DEF ReplayOp
  <2>9. RecoveryOp(s, n, m) => RecoveryOp(s, n, m)'
    BY DEF RecoveryOp, AbandonedOp, InterruptOp, RecoverOp, UnknownOp, Left
  <2>10. UpdateOp(c, s, n, m)'
    BY <2>2, <2>3, <2>4, <2>5, <2>6, <2>7, <2>8, <2>9 DEF UpdateOp
  <2>. QED  BY <1>3, <2>1, <2>10 DEF Explained
<1>. QED  BY <1>2, <1>3 DEF Explained

\* The frame of a step that writes no record: at most the transaction and the
\* claim of one thread c change, and c wins no attempt it had not won before.
LEMMA NoWrite ==
  ASSUME IInv, StoreType', LockedTxn', AliasBehind', NEW c,
         file' = file, gen' = gen, serving' = serving, now' >= now,
         \A d \in Threads : d # c => txn'[d] = txn[d],
         c \in Threads /\ txn'[c] # None => TxnKnows(c, txn[c])',
         \A o \in Owners : o # c => held'[o] = held[o],
         c \in Owners /\ held'[c] # None => held'[c].fence.generation = gen,
         \A t \in Tasks, a \in Nat : c \in Owners /\ Pledged(c, t, a)' => Pledged(c, t, a)
  PROVE  IInv'
<1>1. now \in Nat /\ now' \in Nat  BY RecordAssumption DEF IInv, StoreType
<1>2. \A t : Version(t)' = Version(t) /\ Snap(t)' = Snap(t)  BY DEF Version, Snap
<1>3. FilesSound'  BY DEF IInv, FilesSound
<1>4. TxnsKnow'
  <2>1. SUFFICES ASSUME NEW d \in Threads, d # c, txn'[d] # None  PROVE TxnKnows(d, txn[d])'
    BY DEF TxnsKnow
  <2>2. PICK x : x = txn[d]  OBVIOUS
  <2>3. TxnKnows(d, x)  BY <2>1, <2>2 DEF IInv, TxnsKnow
  <2>4. Explained(d, x) => Explained(d, x)'  BY <1>1, ExplainedStays
  <2>5. TxnKnows(d, x)'  BY <1>2, <2>3, <2>4 DEF TxnKnows
  <2>6. txn'[d] = x  BY <2>1, <2>2
  <2>. QED  BY <2>5, <2>6 DEF TxnKnows
<1>5. HeldByWriter'  BY DEF IInv, HeldByWriter
<1>6. \A o \in Owners, t \in Tasks, a \in Nat : Pledged(o, t, a)' => Pledged(o, t, a)
  <2>1. SUFFICES ASSUME NEW o \in Owners, o # c, NEW t \in Tasks, NEW a \in Nat
                 PROVE  Pledged(o, t, a)' => Pledged(o, t, a)
    OBVIOUS
  <2>2. held'[o] = held[o] /\ txn'[o] = txn[o]  BY <2>1, ThreadsAssumption
  <2>. QED  BY <2>2 DEF Pledged, HasClaim, WonClaim, IsClaimTxn
<1>7. PledgesCounted'  BY <1>6 DEF IInv, PledgesCounted
<1>8. PledgesDiffer'  BY <1>6 DEF IInv, PledgesDiffer
<1>. QED  BY <1>3, <1>4, <1>5, <1>7, <1>8 DEF IInv

-----------------------------------------------------------------------------
(* Proposals.                                                              *)

\* Writing no record and no clock: what TaskLifecycle does not see.
Quiet == UNCHANGED <<file, gen, serving, now>>

\* A proposal that its operation explains.
LEMMA ProposeStep ==
  ASSUME IInv, NEW c \in Threads, NEW t \in Tasks, NEW n \in Snapshots, NEW m \in Modes,
         Propose(c, t, n, m), Explained(c, Proposal(t, n, m))
  PROVE  IInv' /\ Quiet
<1>1. PICK x : x = Proposal(t, n, m)  OBVIOUS
<1>2. /\ x.task = t /\ x.base = Version(t) /\ x.read = Snap(t) /\ x.cand = n /\ x.mode = m
      /\ x.stage = "commit"
  BY <1>1 DEF Proposal
<1>3. /\ txn[c] = None /\ txn' = [txn EXCEPT ![c] = x]
      /\ UNCHANGED <<file, latest, lock, held, gen, serving, now>>
  BY <1>1 DEF Propose
<1>4. StoreType /\ FilesSound /\ LockedTxn /\ AliasBehind  BY DEF IInv
<1>5. now \in Nat /\ Version(t) \in Nat  BY <1>4, ClockFacts, FileFacts
<1>6. Snap(t) \in Snapshots \cup {None}  BY <1>4, FileFacts
<1>7. x \in Proposals  BY <1>1, <1>5, <1>6 DEF Proposal, Proposals
<1>8. txn \in [Threads -> Proposals \cup {None}]  BY <1>4 DEF StoreType
<1>9. txn'[c] = x /\ \A d \in Threads : d # c => txn'[d] = txn[d]  BY <1>3, <1>8
<1>10. StoreType'  BY <1>3, <1>4, <1>7, <1>8 DEF StoreType
<1>11. LockedTxn'  BY <1>3, <1>4, <1>9 DEF LockedTxn, StoreType
<1>12. AliasBehind'  BY <1>3, <1>4 DEF AliasBehind, Version
<1>13. TxnKnows(c, txn[c])'
  <2>1. Version(t)' = Version(t) /\ Snap(t)' = Snap(t)  BY <1>3 DEF Version, Snap
  <2>2. Explained(c, x)'  BY <1>1, <1>3, <1>5, ExplainedStays
  <2>3. TxnKnows(c, x)'  BY <1>2, <1>5, <2>1, <2>2 DEF TxnKnows
  <2>. QED  BY <1>9, <2>3 DEF TxnKnows
<1>14. \A u \in Tasks, a \in Nat : c \in Owners /\ Pledged(c, u, a)' => Pledged(c, u, a)
  BY <1>2, <1>3, <1>9 DEF Pledged, HasClaim, WonClaim
<1>15. c \in Owners /\ held'[c] # None => held'[c].fence.generation = gen
  BY <1>3 DEF IInv, HeldByWriter
<1>. QED  BY <1>3, <1>5, <1>9, <1>10, <1>11, <1>12, <1>13, <1>14, <1>15, NoWrite DEF Quiet

\* A proposal to update a stored record.
LEMMA UpdateStep ==
  ASSUME IInv, NEW c \in Threads, NEW t \in Tasks, file[t] # None, NEW n, NEW m,
         Propose(c, t, n, m), UpdateOp(c, Snap(t), n, m)
  PROVE  IInv' /\ Quiet
<1>1. PICK s \in Snapshots : s = Snap(t) /\ s # None /\ Sound(s)  BY FileFacts DEF IInv
<1>2. UpdateOp(c, s, n, m)  BY <1>1
<1>3. Permitted(s, n, m)  BY <1>1, <1>2, UpdatePermitted DEF IInv
<1>4. PICK x : x = Proposal(t, n, m)  OBVIOUS
<1>5. x.read = s /\ x.cand = n /\ x.mode = m  BY <1>1, <1>4 DEF Proposal
<1>6. Explained(c, x)  BY <1>1, <1>2, <1>5 DEF Explained
<1>. QED  BY <1>3, <1>4, <1>6, ProposeStep DEF Permitted

\* The record an attempt's call meets is live under the current writer.
LEMMA FenceHolds ==
  ASSUME IInv, NEW o \in Owners, NEW t \in Tasks, WithFence(o, t), Snap(t).status \in Active
  PROVE  file[t] # None /\ Live(Snap(t))
<1>1. file[t] # None /\ serving /\ held[o] # None /\ FenceOf(Snap(t)) = held[o].fence
  BY DEF WithFence, Stored, VerifyFence
<1>2. PICK s \in Snapshots : s = Snap(t) /\ Sound(s)  BY <1>1, FileFacts DEF IInv
<1>3. s.generation = gen  BY <1>1, <1>2 DEF FenceOf, IInv, HeldByWriter
<1>4. s.owner \in Owners  BY <1>2 DEF Sound, Snapshots, SnapshotType
<1>. QED  BY <1>1, <1>2, <1>3, <1>4 DEF Live

\* The submission of a task.
LEMMA CreateStep ==
  ASSUME IInv, NEW c \in Threads, NEW t \in Tasks, Create(c, t)
  PROVE  IInv' /\ Quiet
<1>1. PICK n : n = QueuedSnapshot(Env[t])  OBVIOUS
<1>2. Env[t] \in EnvType  BY RecordAssumption
<1>3. n \in Snapshots  BY <1>1, <1>2, QueuedFacts DEF Snapshots
<1>4. PICK x : x = Proposal(t, n, "Create")  OBVIOUS
<1>5. x.task = t /\ x.read = None /\ x.cand = n /\ x.mode = "Create"
  BY <1>4 DEF Proposal, Create, Snap
<1>6. Explained(c, x)  BY <1>1, <1>5 DEF Explained, CreateOp, Create
<1>. QED  BY <1>1, <1>3, <1>4, <1>6, ProposeStep DEF Create, Modes

\* What a worker thread proposes.
LEMMA WorkerStep ==
  ASSUME IInv, NEW o \in Owners, Worker(o)
  PROVE  IInv' /\ Quiet
<1>1. PICK t \in Tasks :
        \/ TryClaimQueued(o, t)
        \/ \E out \in Outcomes : FinishExecution(o, t, out)
        \/ \E r \in Results : FinishCommittedEffect(o, t, r)
        \/ BlockPreparedEffect(o, t)
        \/ CheckpointEvidence(o, t)
  BY DEF Worker
<1>2. o \in Threads /\ now \in 0..now  BY ThreadsAssumption, ClockFacts DEF IInv
<1>3. PICK s : s = Snap(t)  OBVIOUS
<1>4. CASE TryClaimQueued(o, t)
  <2>1. PICK n : n = ClaimForExecution(s, o, now)  OBVIOUS
  <2>2. ClaimOp(o, s, n, "CompareAndSet")
    BY <1>2, <1>3, <1>4, <2>1 DEF TryClaimQueued, ClaimOp, Stored
  <2>3. UpdateOp(o, s, n, "CompareAndSet")  BY <2>2 DEF UpdateOp
  <2>. QED  BY <1>2, <1>3, <1>4, <2>1, <2>3, UpdateStep DEF TryClaimQueued, Stored
<1>5. ASSUME NEW out \in Outcomes, FinishExecution(o, t, out)  PROVE IInv' /\ Quiet
  <2>1. file[t] # None /\ Live(s) /\ s.status \in Active
    BY <1>3, <1>5, FenceHolds DEF FinishExecution
  <2>2. PICK n : n = IF s.status = "running" THEN ApplyOutcome(s, out, now) ELSE MarkCancelled(s)
    OBVIOUS
  <2>3. FinishOp(s, n, "AttemptOutcome") \/ CancelledOp(s, n, "AttemptOutcome")
    BY <1>2, <2>1, <2>2 DEF FinishOp, CancelledOp, Active
  <2>4. UpdateOp(o, s, n, "AttemptOutcome")  BY <2>3 DEF UpdateOp, AttemptOp
  <2>5. Propose(o, t, n, "AttemptOutcome")  BY <1>3, <1>5, <2>2 DEF FinishExecution
  <2>. QED  BY <1>2, <1>3, <2>1, <2>4, <2>5, UpdateStep
<1>6. ASSUME NEW r \in Results, FinishCommittedEffect(o, t, r)  PROVE IInv' /\ Quiet
  <2>1. file[t] # None /\ Live(s)  BY <1>3, <1>6, FenceHolds DEF FinishCommittedEffect
  <2>2. PICK n : n = CompleteCommittedEffect(s, r)  OBVIOUS
  <2>3. UpdateOp(o, s, n, "AttemptOutcome")
    BY <2>1, <2>2 DEF UpdateOp, AttemptOp, CommittedOp
  <2>4. Propose(o, t, n, "AttemptOutcome")  BY <1>3, <1>6, <2>2 DEF FinishCommittedEffect
  <2>. QED  BY <1>2, <1>3, <2>1, <2>3, <2>4, UpdateStep
<1>7. CASE BlockPreparedEffect(o, t)
  <2>1. file[t] # None /\ Live(s)  BY <1>3, <1>7, FenceHolds DEF BlockPreparedEffect
  <2>2. PICK n : n = BlockUnknownEffect(s)  OBVIOUS
  <2>3. UpdateOp(o, s, n, "AttemptOutcome")  BY <2>1, <2>2 DEF UpdateOp, AttemptOp, BlockOp
  <2>4. Propose(o, t, n, "AttemptOutcome")  BY <1>3, <1>7, <2>2 DEF BlockPreparedEffect
  <2>. QED  BY <1>2, <1>3, <2>1, <2>3, <2>4, UpdateStep
<1>8. CASE CheckpointEvidence(o, t)
  <2>1. PICK n : n = AddDeadLetter(s, s.attempts)  OBVIOUS
  <2>2. EvidenceOp(s, n, "CompareAndSet")
    BY <1>3, <1>8, <2>1 DEF CheckpointEvidence, EvidenceOp, Stored
  <2>3. UpdateOp(o, s, n, "CompareAndSet")  BY <2>2 DEF UpdateOp
  <2>. QED  BY <1>2, <1>3, <1>8, <2>1, <2>3, UpdateStep DEF CheckpointEvidence, Stored
<1>. QED  BY <1>1, <1>4, <1>5, <1>6, <1>7, <1>8

\* What the heartbeat, control and scheduler threads propose.
LEMMA ServiceStep ==
  ASSUME IInv, NEW c \in Threads, Service(c)
  PROVE  IInv' /\ Quiet
<1>1. PICK t \in Tasks :
        \/ Create(c, t)
        \/ \E o \in Owners : HeartbeatExecution(c, o, t)
        \/ \E o \in Owners, why \in Reasons : RequestExecutionCancellation(c, o, t, why)
        \/ \E why \in Reasons : RequestCancellation(c, t, why)
        \/ RequeueRetryable(c, t)
        \/ RecoverReplayDelivery(c, t)
  BY DEF Service
<1>2. now \in 0..now  BY ClockFacts DEF IInv
<1>3. PICK s : s = Snap(t)  OBVIOUS
<1>4. ASSUME NEW o \in Owners, HeartbeatExecution(c, o, t)  PROVE IInv' /\ Quiet
  <2>1. file[t] # None /\ Live(s)  BY <1>3, <1>4, FenceHolds DEF HeartbeatExecution
  <2>2. PICK n : n = TouchHeartbeat(s, now)  OBVIOUS
  <2>3. HeartbeatOp(s, n, "Heartbeat")
    BY <1>2, <1>3, <1>4, <2>1, <2>2 DEF HeartbeatOp, HeartbeatExecution
  <2>4. UpdateOp(c, s, n, "Heartbeat")  BY <2>3 DEF UpdateOp, AttemptOp
  <2>5. Propose(c, t, n, "Heartbeat")  BY <1>3, <1>4, <2>2 DEF HeartbeatExecution
  <2>. QED  BY <1>3, <2>1, <2>4, <2>5, UpdateStep
<1>5. ASSUME NEW o \in Owners, NEW why \in Reasons, RequestExecutionCancellation(c, o, t, why)
      PROVE  IInv' /\ Quiet
  <2>1. file[t] # None /\ Live(s) /\ s.status # "queued" /\ ~s.cancelRequested
    BY <1>3, <1>5, FenceHolds DEF RequestExecutionCancellation, Live, Active
  <2>2. PICK n : n = RequestCancel(s, why)  OBVIOUS
  <2>3. CancelOp(s, n, "CompareAndSet")  BY <2>1, <2>2 DEF CancelOp, Live
  <2>4. UpdateOp(c, s, n, "CompareAndSet")  BY <2>3 DEF UpdateOp
  <2>5. Propose(c, t, n, "CompareAndSet")
    BY <1>3, <1>5, <2>2 DEF RequestExecutionCancellation
  <2>. QED  BY <1>3, <2>1, <2>4, <2>5, UpdateStep
<1>6. ASSUME NEW why \in Reasons, RequestCancellation(c, t, why)  PROVE IInv' /\ Quiet
  <2>1. file[t] # None /\ serving /\ ~(s.cancelRequested /\ s.cancelReason = why)
    BY <1>3, <1>6 DEF RequestCancellation, Stored
  <2>2. PICK n : n = IF s.status = "queued" THEN MarkCancelled(RequestCancel(s, why))
                     ELSE RequestCancel(s, why)
    OBVIOUS
  <2>3. CancelOp(s, n, "CompareAndSet")  BY <2>1, <2>2 DEF CancelOp
  <2>4. UpdateOp(c, s, n, "CompareAndSet")  BY <2>3 DEF UpdateOp
  <2>5. Propose(c, t, n, "CompareAndSet")  BY <1>3, <1>6, <2>2 DEF RequestCancellation
  <2>. QED  BY <1>3, <2>1, <2>4, <2>5, UpdateStep
<1>7. CASE RequeueRetryable(c, t)
  <2>1. PICK n : n = RetryStep(s, now)  OBVIOUS
  <2>2. RetryOp(s, n, "RetryRequeue")
    BY <1>2, <1>3, <1>7, <2>1 DEF RequeueRetryable, RetryOp, Stored
  <2>3. UpdateOp(c, s, n, "RetryRequeue")  BY <2>2 DEF UpdateOp
  <2>. QED  BY <1>3, <1>7, <2>1, <2>3, UpdateStep DEF RequeueRetryable, Stored
<1>8. CASE RecoverReplayDelivery(c, t)
  <2>1. PICK n : n = Requeue(s)  OBVIOUS
  <2>2. ReplayOp(s, n, "RetryRequeue")
    BY <1>3, <1>8, <2>1 DEF RecoverReplayDelivery, ReplayOp
  <2>3. UpdateOp(c, s, n, "RetryRequeue")  BY <2>2 DEF UpdateOp
  <2>. QED  BY <1>3, <1>8, <2>1, <2>3, UpdateStep DEF RecoverReplayDelivery
<1>. QED  BY <1>1, <1>4, <1>5, <1>6, <1>7, <1>8, CreateStep

\* What restart recovery proposes.
LEMMA RecoveryStep ==
  ASSUME IInv, NEW c \in Threads, Recovery(c)
  PROVE  IInv' /\ Quiet
<1>1. PICK t \in Tasks :
        \/ RecoverAbandonedTask(c, t)
        \/ InterruptAfterRestart(c, t)
        \/ \E r \in Results : RecoverFromCommittedEffect(c, t, r)
        \/ BlockForUnknownEffect(c, t)
  BY DEF Recovery
<1>2. PICK s : s = Snap(t)  OBVIOUS
<1>3. file[t] # None /\ Left(s)
  BY <1>1, <1>2 DEF RecoverAbandonedTask, InterruptAfterRestart, RecoverFromCommittedEffect,
                    BlockForUnknownEffect, Recoverable, Left
<1>4. PICK n, m : Propose(c, t, n, m) /\ RecoveryOp(s, n, m)
  <2>1. CASE RecoverAbandonedTask(c, t)
    <3>1. PICK n : n = Requeue(s)  OBVIOUS
    <3>2. RecoveryOp(s, n, "RetryRequeue")
      BY <1>2, <1>3, <2>1, <3>1 DEF RecoverAbandonedTask, RecoveryOp, AbandonedOp
    <3>. QED  BY <1>2, <2>1, <3>1, <3>2 DEF RecoverAbandonedTask
  <2>2. CASE InterruptAfterRestart(c, t)
    <3>1. PICK n \in {BaselineInterrupt(s), MarkInterrupted(s)} : Propose(c, t, n, "CompareAndSet")
      BY <1>2, <2>2 DEF InterruptAfterRestart
    <3>2. RecoveryOp(s, n, "CompareAndSet")
      BY <1>2, <1>3, <2>2, <3>1 DEF InterruptAfterRestart, RecoveryOp, InterruptOp
    <3>. QED  BY <3>1, <3>2
  <2>3. ASSUME NEW r \in Results, RecoverFromCommittedEffect(c, t, r)
        PROVE  \E n, m : Propose(c, t, n, m) /\ RecoveryOp(s, n, m)
    <3>1. PICK n : n = RecoverCommitted(s, r)  OBVIOUS
    <3>2. RecoveryOp(s, n, "RestartRecovery")
      BY <1>2, <1>3, <2>3, <3>1 DEF RecoverFromCommittedEffect, RecoveryOp, RecoverOp
    <3>. QED  BY <1>2, <2>3, <3>1, <3>2 DEF RecoverFromCommittedEffect
  <2>4. CASE BlockForUnknownEffect(c, t)
    <3>1. PICK n : n = BlockUnknownEffect(s)  OBVIOUS
    <3>2. RecoveryOp(s, n, "RestartRecovery")
      BY <1>2, <1>3, <2>4, <3>1 DEF BlockForUnknownEffect, RecoveryOp, UnknownOp
    <3>. QED  BY <1>2, <2>4, <3>1, <3>2 DEF BlockForUnknownEffect
  <2>. QED  BY <1>1, <2>1, <2>2, <2>3, <2>4
<1>5. UpdateOp(c, s, n, m)  BY <1>4 DEF UpdateOp
<1>. QED  BY <1>2, <1>3, <1>4, <1>5, UpdateStep

-----------------------------------------------------------------------------
(* commit_snapshot and what follows it.                                    *)

\* The transaction returns: what its owner then holds it had already won.
LEMMA ReturnFacts ==
  ASSUME IInv, NEW c \in Threads, txn[c] # None, txn[c].stage # "commit",
         txn' = [txn EXCEPT ![c] = None], gen' = gen,
         held' = held \/ held' = HeldAfter(c, txn[c])
  PROVE  /\ txn' \in [Threads -> Proposals \cup {None}] /\ txn'[c] = None
         /\ \A d \in Threads : d # c => txn'[d] = txn[d]
         /\ held' \in [Owners -> Claims \cup {None}]
         /\ \A o \in Owners : o # c => held'[o] = held[o]
         /\ c \in Owners /\ held'[c] # None => held'[c].fence.generation = gen
         /\ \A t \in Tasks, a \in Nat : c \in Owners /\ Pledged(c, t, a)' => Pledged(c, t, a)
<1>1. StoreType /\ HeldByWriter /\ gen \in Nat  BY ClockFacts DEF IInv
<1>2. PICK x \in Proposals : x = txn[c]  BY <1>1 DEF StoreType
<1>3. txn' \in [Threads -> Proposals \cup {None}] /\ txn'[c] = None
      /\ \A d \in Threads : d # c => txn'[d] = txn[d]
  BY <1>1 DEF StoreType
<1>4. PICK h : h = Claimed(x)  OBVIOUS
<1>5. /\ h \in Claims /\ h.fence.generation = gen /\ h.task = x.task
      /\ h.fence.attempt = x.cand.attempts
  BY <1>1, <1>2, <1>4 DEF Claimed, Claims, Proposals, Snapshots, SnapshotType
<1>6. held \in [Owners -> Claims \cup {None}]  BY <1>1 DEF StoreType
<1>7. CASE c \in Owners /\ IsClaimTxn(c, x) /\ held' = [held EXCEPT ![c] = h]
  <2>1. held' \in [Owners -> Claims \cup {None}] /\ held'[c] = h
        /\ \A o \in Owners : o # c => held'[o] = held[o]
    BY <1>5, <1>6, <1>7
  <2>2. ASSUME NEW t \in Tasks, NEW a \in Nat, Pledged(c, t, a)'  PROVE Pledged(c, t, a)
    BY <1>2, <1>3, <1>5, <1>7, <2>1, <2>2 DEF Pledged, HasClaim, WonClaim
  <2>. QED  BY <1>3, <1>5, <2>1, <2>2
<1>8. CASE held' = held \/ (c \in Owners /\ held' = [held EXCEPT ![c] = None])
  <2>1. held' \in [Owners -> Claims \cup {None}]
        /\ \A o \in Owners : o # c => held'[o] = held[o]
    BY <1>6, <1>8
  <2>2. c \in Owners /\ held'[c] # None => held'[c] = held[c]  BY <1>6, <1>8
  <2>3. ASSUME NEW t \in Tasks, NEW a \in Nat, c \in Owners, Pledged(c, t, a)'
        PROVE  Pledged(c, t, a)
    BY <1>3, <2>2, <2>3 DEF Pledged, HasClaim, WonClaim
  <2>. QED  BY <1>1, <1>3, <2>1, <2>2, <2>3 DEF HeldByWriter
<1>. QED  BY <1>2, <1>4, <1>7, <1>8 DEF HeldAfter, IsClaimTxn

\* The alias can be rewritten from a file that some transaction committed.
LEMMA AliasFacts ==
  ASSUME IInv, NEW c \in Threads, txn[c] # None, txn[c].stage # "commit", file' = file,
         \/ latest' = latest
         \/ latest' = [task |-> txn[c].task, version |-> Version(txn[c].task)]
  PROVE  latest' \in Aliases \cup {None} /\ AliasBehind'
<1>1. PICK x \in Proposals : x = txn[c]  BY DEF IInv, StoreType
<1>2. x.task \in Tasks /\ x.base \in Nat /\ x.base < Version(x.task)
  BY <1>1, TxnFacts DEF IInv, TxnsKnow, TxnKnows
<1>3. Version(x.task) \in 1..MaxVersion /\ Version(x.task) \in Nat
  BY <1>2, FileFacts DEF IInv
<1>4. \A t : Version(t)' = Version(t)  BY DEF Version
<1>5. CASE latest' = latest  BY <1>4, <1>5 DEF IInv, StoreType, AliasBehind
<1>6. CASE latest' = [task |-> x.task, version |-> Version(x.task)]
  <2>1. latest' \in Aliases /\ latest'.task = x.task /\ latest'.version = Version(x.task)
    BY <1>2, <1>3, <1>6 DEF Aliases
  <2>2. latest'.version <= Version(latest.task)'  BY <1>3, <1>4, <2>1
  <2>. QED  BY <2>1, <2>2 DEF AliasBehind
<1>. QED  BY <1>1, <1>5, <1>6

\* The alias is written and the call returns.
LEMMA WriteLatestStep ==
  ASSUME IInv, NEW c \in Threads, WriteLatest(c)
  PROVE  IInv' /\ Quiet
<1>1. c # None /\ txn[c] # None /\ txn[c].stage = "alias"
  BY NoneFacts DEF WriteLatest, IInv, LockedTxn
<1>2. /\ latest' = [task |-> txn[c].task, version |-> Version(txn[c].task)]
      /\ held' = HeldAfter(c, txn[c]) /\ txn' = [txn EXCEPT ![c] = None] /\ lock' = None
      /\ UNCHANGED <<file, gen, serving, now>>
  BY DEF WriteLatest
<1>3. latest' \in Aliases \cup {None} /\ AliasBehind'  BY <1>1, <1>2, AliasFacts
<1>4. StoreType'  BY <1>1, <1>2, <1>3, ReturnFacts DEF IInv, StoreType
<1>5. LockedTxn'  BY <1>2 DEF LockedTxn
<1>6. now' >= now  BY <1>2, ClockFacts DEF IInv
<1>. QED  BY <1>1, <1>2, <1>3, <1>4, <1>5, <1>6, ReturnFacts, NoWrite DEF Quiet

\* A retry that finds its own commit repairs the alias and returns.
LEMMA RefreshLatestStep ==
  ASSUME IInv, NEW c \in Threads, RefreshLatest(c)
  PROVE  IInv' /\ Quiet
<1>1. txn[c] # None /\ txn[c].stage # "commit" /\ lock = None  BY DEF RefreshLatest
<1>2. /\ \/ latest' = latest
         \/ latest' = [task |-> txn[c].task, version |-> Version(txn[c].task)]
      /\ held' = held \/ held' = HeldAfter(c, txn[c])
      /\ txn' = [txn EXCEPT ![c] = None] /\ UNCHANGED <<file, lock, gen, serving, now>>
  BY DEF RefreshLatest
<1>3. latest' \in Aliases \cup {None} /\ AliasBehind'  BY <1>1, <1>2, AliasFacts
<1>4. StoreType'  BY <1>1, <1>2, <1>3, ReturnFacts DEF IInv, StoreType
<1>5. LockedTxn'  BY <1>1, <1>2 DEF LockedTxn
<1>6. now' >= now  BY <1>2, ClockFacts DEF IInv
<1>. QED  BY <1>1, <1>2, <1>3, <1>4, <1>5, <1>6, ReturnFacts, NoWrite DEF Quiet

\* The alias write fails: the record stays committed and the claim stays won.
LEMMA LatestWriteFailsStep ==
  ASSUME IInv, NEW c \in Threads, LatestWriteFails(c)
  PROVE  IInv' /\ Quiet
<1>1. c # None /\ txn[c] # None /\ txn[c].stage = "alias"
  BY NoneFacts DEF LatestWriteFails, IInv, LockedTxn
<1>2. PICK x \in Proposals : x = txn[c]  BY <1>1 DEF IInv, StoreType
<1>3. PICK y : y = IF x.mode # "Create" /\ RepairsLatest(c, x)
                   THEN [x EXCEPT !.stage = "refresh"] ELSE None
  OBVIOUS
<1>4. /\ txn' = [txn EXCEPT ![c] = y] /\ lock' = None
      /\ UNCHANGED <<file, latest, held, gen, serving, now>>
  BY <1>2, <1>3 DEF LatestWriteFails
<1>5. y = None \/ (/\ y \in Proposals /\ y.stage = "refresh" /\ y.task = x.task /\ y.base = x.base
                   /\ y.mode = x.mode /\ y.cand = x.cand)
  BY <1>3 DEF Proposals
<1>6. txn \in [Threads -> Proposals \cup {None}]  BY DEF IInv, StoreType
<1>7. txn'[c] = y /\ \A d \in Threads : d # c => txn'[d] = txn[d]  BY <1>4, <1>6
<1>8. StoreType'  BY <1>4, <1>5, <1>6 DEF IInv, StoreType
<1>9. LockedTxn'  BY <1>4 DEF LockedTxn
<1>10. AliasBehind'  BY <1>4 DEF IInv, AliasBehind, Version
<1>11. txn'[c] # None => TxnKnows(c, txn[c])'
  <2>1. SUFFICES ASSUME y # None  PROVE TxnKnows(c, y)'  BY <1>7 DEF TxnKnows
  <2>2. x.task \in Tasks /\ x.base \in Nat /\ x.base < Version(x.task)
    BY <1>1, <1>2, TxnFacts DEF IInv, TxnsKnow, TxnKnows
  <2>3. Version(x.task)' = Version(x.task) /\ Version(x.task) \in Nat
    BY <1>4, <2>2, FileFacts DEF Version, IInv
  <2>. QED  BY <1>5, <2>1, <2>2, <2>3 DEF TxnKnows
<1>12. ASSUME NEW t \in Tasks, NEW a \in Nat, c \in Owners, Pledged(c, t, a)'
       PROVE  Pledged(c, t, a)
  BY <1>1, <1>2, <1>4, <1>5, <1>7, <1>12 DEF Pledged, HasClaim, WonClaim, IsClaimTxn
<1>13. c \in Owners /\ held'[c] # None => held'[c].fence.generation = gen
  BY <1>4 DEF IInv, HeldByWriter
<1>14. now' >= now  BY <1>4, ClockFacts DEF IInv
<1>. QED  BY <1>4, <1>7, <1>8, <1>9, <1>10, <1>11, <1>12, <1>13, <1>14, NoWrite DEF Quiet

\* Nothing is written: a conflict, a refusal, or a file that cannot be replaced or repaired.
LEMMA GiveUpStep ==
  ASSUME IInv, NEW c \in Threads, Refuse(c) \/ WriteFails(c) \/ RefreshFails(c)
  PROVE  IInv' /\ Quiet
<1>1. /\ txn' = [txn EXCEPT ![c] = None] /\ lock = None
      /\ UNCHANGED <<file, latest, lock, held, gen, serving, now>>
  BY DEF Refuse, WriteFails, RefreshFails
<1>2. txn \in [Threads -> Proposals \cup {None}]  BY DEF IInv, StoreType
<1>3. txn'[c] = None /\ \A d \in Threads : d # c => txn'[d] = txn[d]  BY <1>1, <1>2
<1>4. StoreType'  BY <1>1, <1>2 DEF IInv, StoreType
<1>5. LockedTxn'  BY <1>1 DEF LockedTxn
<1>6. AliasBehind'  BY <1>1 DEF IInv, AliasBehind, Version
<1>7. ASSUME NEW t \in Tasks, NEW a \in Nat, c \in Owners, Pledged(c, t, a)'
      PROVE  Pledged(c, t, a)
  BY <1>1, <1>3, <1>7 DEF Pledged, HasClaim, WonClaim
<1>8. c \in Owners /\ held'[c] # None => held'[c].fence.generation = gen
  BY <1>1 DEF IInv, HeldByWriter
<1>9. now' >= now  BY <1>1, ClockFacts DEF IInv
<1>. QED  BY <1>1, <1>3, <1>4, <1>5, <1>6, <1>7, <1>8, <1>9, NoWrite DEF Quiet

\* The commit.
LEMMA CommitStep ==
  ASSUME IInv, NEW c \in Threads, Commit(c)
  PROVE  IInv'
<1>1. txn[c] # None /\ txn[c].stage = "commit" /\ lock = None  BY DEF Commit
<1>2. PICK x \in Proposals : x = txn[c]  BY <1>1 DEF IInv, StoreType
<1>3. PICK t \in Tasks : t = x.task  BY DEF Proposals
<1>4. PICK n : n = [x.cand EXCEPT !.generation = gen]  OBVIOUS
<1>5. PICK f : f = [version |-> x.base + 1, snap |-> n]  OBVIOUS
<1>6. PICK y : y = [x EXCEPT !.stage = "alias"]  OBVIOUS
<1>7. /\ VersionMatches(x) /\ x.base < MaxVersion /\ file' = [file EXCEPT ![t] = f]
      /\ txn' = [txn EXCEPT ![c] = y] /\ lock' = c
      /\ UNCHANGED <<latest, held, gen, serving, now>>
  BY <1>2, <1>3, <1>4, <1>5, <1>6 DEF Commit
<1>8. StoreType /\ FilesSound  BY DEF IInv
<1>9. x.base = Version(t) /\ x.base \in Nat /\ x.cand \in Snapshots /\ x.stage = "commit"
  BY <1>1, <1>2, <1>3, <1>7 DEF VersionMatches, Proposals
<1>10. Sound(x.cand)  BY <1>2, <1>7, <1>9, Current
<1>11. n \in Snapshots /\ Sound(n) /\ n.attempts = x.cand.attempts
  BY <1>4, <1>8, <1>9, <1>10, StampFacts, ClockFacts DEF Snapshots
<1>12. f \in Files /\ f # None /\ f.version = x.base + 1 /\ f.snap = n
  BY <1>5, <1>7, <1>9, <1>11, MaxVersionAssumption, AbsenceAssumption DEF Files
<1>13. /\ y \in Proposals /\ y # None /\ y.stage = "alias" /\ y.task = t /\ y.base = x.base
       /\ y.mode = x.mode /\ y.cand = x.cand
  BY <1>3, <1>6, AbsenceAssumption DEF Proposals
<1>14. file'[t] = f /\ \A u \in Tasks : u # t => file'[u] = file[u]
  BY <1>7, <1>8 DEF StoreType
<1>15. txn'[c] = y /\ \A d \in Threads : d # c => txn'[d] = txn[d]
  BY <1>7, <1>8 DEF StoreType
<1>16. StoreType'  BY <1>7, <1>8, <1>12, <1>13 DEF StoreType
<1>17. FilesSound'  BY <1>8, <1>11, <1>12, <1>14 DEF FilesSound
<1>18. LockedTxn'  BY <1>7, <1>13, <1>15 DEF LockedTxn
<1>19. /\ Version(t)' = Version(t) + 1
       /\ \A u \in Tasks : u # t => Version(u)' = Version(u) /\ Snap(u)' = Snap(u)
  BY <1>9, <1>12, <1>14 DEF Version, Snap
<1>20. \A u \in Tasks : Version(u) \in Nat /\ Version(u)' \in Nat /\ Version(u)' >= Version(u)
  <2>1. \A u \in Tasks : Version(u) \in Nat  BY <1>8, FileFacts
  <2>. QED  BY <1>19, <2>1
<1>21. TxnsKnow'
  <2>1. TxnKnows(c, y)'  BY <1>9, <1>13, <1>19, <1>20 DEF TxnKnows
  <2>2. ASSUME NEW d \in Threads, d # c, txn'[d] # None  PROVE TxnKnows(d, txn[d])'
    <3>1. PICK z \in Proposals : z = txn[d]  BY <1>8, <1>15, <2>2 DEF StoreType
    <3>2. TxnKnows(d, z)  BY <1>15, <2>2, <3>1 DEF IInv, TxnsKnow
    <3>3. now \in Nat  BY <1>8, ClockFacts
    <3>4. Explained(d, z) => Explained(d, z)'  BY <1>7, <3>3, ExplainedStays
    <3>5. z.task \in Tasks /\ z.base \in Nat  BY DEF Proposals
    <3>6. TxnKnows(d, z)'
      BY <1>19, <1>20, <3>2, <3>4, <3>5 DEF TxnKnows
    <3>7. txn'[d] = z  BY <1>15, <2>2, <3>1
    <3>. QED  BY <3>6, <3>7 DEF TxnKnows
  <2>3. TxnKnows(c, txn[c])'  BY <1>15, <2>1 DEF TxnKnows
  <2>. QED  BY <2>2, <2>3 DEF TxnsKnow
<1>22. HeldByWriter'  BY <1>7 DEF IInv, HeldByWriter
<1>23. \A o \in Owners, u \in Tasks, a \in Nat : Pledged(o, u, a)' =>
         \/ Pledged(o, u, a)
         \/ o = c /\ u = t /\ a = n.attempts /\ IsClaimTxn(c, x)
  <2>1. SUFFICES ASSUME NEW o \in Owners, NEW u \in Tasks, NEW a \in Nat, Pledged(o, u, a)'
                 PROVE  \/ Pledged(o, u, a)
                        \/ o = c /\ u = t /\ a = n.attempts /\ IsClaimTxn(c, x)
    OBVIOUS
  <2>2. held'[o] = held[o]  BY <1>7
  <2>3. CASE o # c
    <3>1. txn'[o] = txn[o]  BY <1>15, <2>3, ThreadsAssumption
    <3>. QED  BY <2>1, <2>2, <3>1 DEF Pledged, HasClaim, WonClaim, IsClaimTxn
  <2>4. CASE o = c
    BY <1>11, <1>13, <1>15, <2>1, <2>2, <2>4 DEF Pledged, HasClaim, WonClaim, IsClaimTxn
  <2>. QED  BY <2>3, <2>4
<1>24. /\ n.attempts \in Nat
       /\ file[t] # None => file[t].snap.attempts \in Nat /\ n.attempts >= file[t].snap.attempts
       /\ IsClaimTxn(c, x) => file[t] # None /\ n.attempts = file[t].snap.attempts + 1
  <2>1. n.attempts \in Nat  BY <1>11 DEF Snapshots, SnapshotType
  <2>2. CASE file[t] = None
    BY <1>2, <1>3, <1>7, <1>9, <2>1, <2>2, Current DEF CreateOp, IsClaimTxn
  <2>3. CASE file[t] # None
    <3>1. PICK s \in Snapshots : s = Snap(t) /\ s = file[t].snap /\ Sound(s)
      BY <1>8, <2>3, FileFacts
    <3>2. s.attempts \in Nat  BY DEF Snapshots, SnapshotType
    <3>3. UpdateOp(c, s, x.cand, x.mode) /\ Permitted(s, x.cand, x.mode)
      BY <1>2, <1>3, <1>7, <1>9, <2>3, <3>1, Current
    <3>4. IsClaimTxn(c, x) => ClaimOp(c, s, x.cand, x.mode)
      BY <1>8, <3>1, <3>3, UpdatePermitted DEF IsClaimTxn
    <3>5. IsClaimTxn(c, x) => x.cand.attempts = s.attempts + 1
      BY <1>8, <3>1, <3>4, ClaimPermitted
    <3>. QED  BY <1>11, <2>1, <2>3, <3>1, <3>2, <3>3, <3>5 DEF Permitted
  <2>. QED  BY <2>2, <2>3
<1>25. PledgesCounted'
  <2>1. SUFFICES ASSUME NEW o \in Owners, NEW u \in Tasks, NEW a \in Nat, Pledged(o, u, a)'
                 PROVE  file'[u] # None /\ a <= file'[u].snap.attempts
    BY DEF PledgesCounted
  <2>2. CASE Pledged(o, u, a)
    <3>1. file[u] # None /\ a <= file[u].snap.attempts  BY <2>2 DEF IInv, PledgesCounted
    <3>. QED  BY <1>12, <1>14, <1>24, <3>1
  <2>3. CASE u = t /\ a = n.attempts  BY <1>12, <1>14, <1>24, <2>3
  <2>. QED  BY <1>23, <2>1, <2>2, <2>3
<1>26. PledgesDiffer'
  <2>1. SUFFICES ASSUME NEW o \in Owners, NEW p \in Owners, NEW u \in Tasks, NEW a \in Nat,
                        Pledged(o, u, a)', Pledged(p, u, a)'
                 PROVE  o = p
    BY DEF PledgesDiffer
  <2>2. \A q \in Owners : Pledged(q, u, a) /\ u = t => file[t] # None /\ a <= file[t].snap.attempts
    BY DEF IInv, PledgesCounted
  <2>3. CASE Pledged(o, u, a) /\ Pledged(p, u, a)  BY <2>3 DEF IInv, PledgesDiffer
  <2>4. CASE ~(Pledged(o, u, a) /\ Pledged(p, u, a))
    <3>1. u = t /\ a = n.attempts /\ IsClaimTxn(c, x)  BY <1>23, <2>1, <2>4
    <3>2. ~Pledged(o, u, a) /\ ~Pledged(p, u, a)  BY <1>24, <2>2, <3>1
    <3>. QED  BY <1>23, <2>1, <3>2
  <2>. QED  BY <2>3, <2>4
<1>27. AliasBehind'
  <2>1. SUFFICES ASSUME latest # None  PROVE latest.version <= Version(latest.task)'
    BY <1>7 DEF AliasBehind
  <2>2. latest.task \in Tasks /\ latest.version \in Nat
    BY <1>8, <2>1, MaxVersionAssumption DEF StoreType, Aliases
  <2>3. latest.version <= Version(latest.task)  BY <2>1 DEF IInv, AliasBehind
  <2>4. PICK u \in Tasks : u = latest.task  BY <2>2
  <2>5. latest.version <= Version(u)'  BY <1>20, <2>2, <2>3, <2>4
  <2>6. latest'.task = u  BY <1>7, <2>4
  <2>. QED  BY <2>5, <2>4, <1>7 DEF Version
<1>. QED  BY <1>16, <1>17, <1>18, <1>21, <1>22, <1>25, <1>26, <1>27 DEF IInv

\* The clock, the start of service and the death of the process.
LEMMA TickStep ==
  ASSUME IInv, Tick
  PROVE  IInv'
<1>1. now' = now + 1 /\ now < MaxTime /\ UNCHANGED <<file, latest, txn, lock, held, gen, serving>>
  BY DEF Tick
<1>2. now \in Nat /\ now' >= now /\ now' \in 0..MaxTime
  BY <1>1, RecordAssumption DEF IInv, StoreType
<1>3. StoreType' /\ LockedTxn' /\ AliasBehind'
  BY <1>1, <1>2 DEF IInv, StoreType, LockedTxn, AliasBehind, Version
<1>. QED  BY <1>1, <1>2, <1>3, NoneFacts, NoWrite

\* Service starts when recovery has no transaction left.
LEMMA StartServingStep ==
  ASSUME IInv, StartServing
  PROVE  IInv'
<1>1. /\ \A c \in Threads : txn[c] = None
      /\ serving' = TRUE /\ UNCHANGED <<file, latest, txn, lock, held, gen, now>>
  BY DEF StartServing
<1>2. StoreType' /\ FilesSound' /\ LockedTxn' /\ TxnsKnow' /\ HeldByWriter' /\ AliasBehind'
  BY <1>1 DEF IInv, StoreType, FilesSound, LockedTxn, TxnsKnow, HeldByWriter, AliasBehind, Version
<1>3. PledgesCounted' /\ PledgesDiffer'
  BY <1>1 DEF IInv, PledgesCounted, PledgesDiffer, Pledged, HasClaim, WonClaim, IsClaimTxn
<1>. QED  BY <1>2, <1>3 DEF IInv

\* A restart forgets transactions and claims; the files stay.
LEMMA RestartStep ==
  ASSUME IInv, Restart
  PROVE  IInv'
<1>1. /\ gen < MaxGen /\ gen' = gen + 1 /\ serving' = FALSE
      /\ txn' = [c \in Threads |-> None] /\ lock' = None /\ held' = [o \in Owners |-> None]
      /\ UNCHANGED <<file, latest, now>>
  BY DEF Restart
<1>2. gen' \in 1..MaxGen  BY <1>1, RecordAssumption DEF IInv, StoreType
<1>3. StoreType' /\ FilesSound' /\ LockedTxn' /\ TxnsKnow' /\ HeldByWriter' /\ AliasBehind'
  BY <1>1, <1>2 DEF IInv, StoreType, FilesSound, LockedTxn, TxnsKnow, HeldByWriter,
                    AliasBehind, Version
<1>4. \A o \in Owners, t \in Tasks, a \in Nat : ~Pledged(o, t, a)'
  BY <1>1, ThreadsAssumption DEF Pledged, HasClaim, WonClaim
<1>5. PledgesCounted' /\ PledgesDiffer'  BY <1>4 DEF PledgesCounted, PledgesDiffer
<1>. QED  BY <1>3, <1>5 DEF IInv

\* An empty store has no file, transaction or claim.
LEMMA InitStep == Init => IInv
<1>1. SUFFICES ASSUME Init  PROVE IInv  OBVIOUS
<1>2. StoreType
  <2>1. 1 \in 1..MaxGen /\ 0 \in 0..MaxTime  BY RecordAssumption
  <2>. QED  BY <1>1, <2>1 DEF Init, StoreType
<1>3. FilesSound /\ LockedTxn /\ TxnsKnow /\ HeldByWriter /\ AliasBehind
  BY <1>1 DEF Init, FilesSound, LockedTxn, TxnsKnow, HeldByWriter, AliasBehind
<1>4. \A o \in Owners, t \in Tasks, a \in Nat : ~Pledged(o, t, a)
  BY <1>1, ThreadsAssumption DEF Init, Pledged, HasClaim, WonClaim
<1>. QED  BY <1>2, <1>3, <1>4 DEF IInv, PledgesCounted, PledgesDiffer

\* Every step keeps the invariant, and writes no record unless it is a commit.
LEMMA NextStep ==
  ASSUME IInv, [Next]_vars
  PROVE  /\ IInv'
         /\ Quiet \/ (\E c \in Threads : Commit(c)) \/ StartServing \/ Restart \/ Tick
<1>1. CASE \E o \in Owners : Worker(o)  BY <1>1, WorkerStep
<1>2. CASE \E c \in Threads \ Owners : Service(c) \/ Recovery(c)
  BY <1>2, ServiceStep, RecoveryStep
<1>3. CASE \E c \in Threads : Commit(c)  BY <1>3, CommitStep
<1>4. CASE \E c \in Threads : \/ WriteLatest(c) \/ RefreshLatest(c) \/ WriteFails(c)
                              \/ LatestWriteFails(c) \/ Refuse(c) \/ RefreshFails(c)
  BY <1>4, WriteLatestStep, RefreshLatestStep, LatestWriteFailsStep, GiveUpStep
<1>5. CASE StartServing \/ Restart \/ Tick
  BY <1>5, StartServingStep, RestartStep, TickStep
<1>6. CASE UNCHANGED vars
  <2>1. UNCHANGED <<file, latest, txn, lock, held, gen, serving, now>>  BY <1>6 DEF vars
  <2>2. StoreType' /\ LockedTxn' /\ AliasBehind'
    BY <2>1 DEF IInv, StoreType, LockedTxn, AliasBehind, Version
  <2>3. now' >= now  BY <2>1, ClockFacts DEF IInv
  <2>. QED  BY <2>1, <2>2, <2>3, NoneFacts, NoWrite DEF Quiet
<1>. QED  BY <1>1, <1>2, <1>3, <1>4, <1>5, <1>6 DEF Next

-----------------------------------------------------------------------------
(* Theorems.                                                               *)

\* The strengthening holds in every state of the store.
THEOREM Invariance == Spec => []IInv
BY InitStep, NextStep, PTL DEF Spec

\* commit_snapshot turns a candidate down only when the record has moved since
\* it was read: the guards of the operations imply the transition table.
THEOREM RefusalsAreConflicts == Spec => []OnlyConflictsRefuse
<1>1. IInv => OnlyConflictsRefuse
  <2>1. SUFFICES ASSUME IInv, NEW c \in Threads, txn[c] # None, txn[c].stage = "commit",
                        VersionMatches(txn[c])
                 PROVE  Admissible(txn[c])
    BY DEF OnlyConflictsRefuse
  <2>2. PICK x \in Proposals : x = txn[c]  BY <2>1 DEF IInv, StoreType
  <2>. QED  BY <2>1, <2>2, Current
<1>. QED  BY <1>1, Invariance, PTL

\* No two workers ever believe they hold the same attempt of a task, and the
\* files, the alias and the transactions keep their shape.
THEOREM ClaimsExclusive == Spec => []ClaimsAreExact
<1>1. IInv => TypeOK
  <2>1. SUFFICES ASSUME IInv  PROVE TypeOK  OBVIOUS
  <2>2. StoreType /\ FilesSound  BY <2>1 DEF IInv
  <2>3. \A t \in Tasks : file[t] # None =>
          file[t].version \in 1..MaxVersion /\ file[t].snap.status \in Statuses
    BY <2>2 DEF StoreType, Files, Snapshots, SnapshotType
  <2>4. latest # None => latest.task \in Tasks /\ latest.version \in 1..MaxVersion
    BY <2>2 DEF StoreType, Aliases
  <2>5. \A c \in Threads : txn[c] # None => txn[c].stage \in {"commit", "alias", "refresh"}
    BY <2>2 DEF StoreType, Proposals
  <2>. QED  BY <2>2, <2>3, <2>4, <2>5 DEF TypeOK, StoreType
<1>2. IInv => AttemptHeldOnce
  <2>1. SUFFICES ASSUME IInv, NEW o \in Owners, NEW p \in Owners, held[o] # None, held[p] # None,
                        held[o].task = held[p].task,
                        held[o].fence.attempt = held[p].fence.attempt
                 PROVE  o = p
    BY DEF AttemptHeldOnce
  <2>2. held[o] \in Claims  BY <2>1 DEF IInv, StoreType
  <2>3. PICK t \in Tasks, a \in Nat : held[o].task = t /\ held[o].fence.attempt = a
    BY <2>2 DEF Claims
  <2>4. Pledged(o, t, a) /\ Pledged(p, t, a)  BY <2>1, <2>3 DEF Pledged, HasClaim
  <2>. QED  BY <2>1, <2>4 DEF IInv, PledgesDiffer
<1>. QED  BY <1>1, <1>2, Invariance, PTL DEF ClaimsAreExact

\* Only the alias writes touch the alias.
LEMMA AliasStep ==
  ASSUME [Next]_vars
  PROVE  latest' = latest \/ \E c \in Threads : WriteLatest(c) \/ RefreshLatest(c)
<1>1. CASE \E o \in Owners : Worker(o)
  BY <1>1 DEF Worker, TryClaimQueued, FinishExecution, FinishCommittedEffect,
              BlockPreparedEffect, CheckpointEvidence, Propose
<1>2. CASE \E c \in Threads \ Owners : Service(c)
  BY <1>2 DEF Service, Create, HeartbeatExecution, RequestExecutionCancellation,
              RequestCancellation, RequeueRetryable, RecoverReplayDelivery, Propose
<1>3. CASE \E c \in Threads \ Owners : Recovery(c)
  BY <1>3 DEF Recovery, RecoverAbandonedTask, InterruptAfterRestart,
              RecoverFromCommittedEffect, BlockForUnknownEffect, Propose
<1>4. CASE \E c \in Threads : Commit(c) \/ WriteFails(c) \/ LatestWriteFails(c) \/ Refuse(c) \/ RefreshFails(c)
  BY <1>4 DEF Commit, WriteFails, LatestWriteFails, Refuse, RefreshFails
<1>5. CASE StartServing \/ Restart \/ Tick \/ UNCHANGED vars
  BY <1>5 DEF StartServing, Restart, Tick, vars
<1>. QED  BY <1>1, <1>2, <1>3, <1>4, <1>5 DEF Next

\* The alias of a task never goes back to an older record, although it is written
\* after the commit and repaired by retries that may come late.
THEOREM AliasOnlyAdvances == Spec => LatestNeverRewinds
<1>1. IInv /\ [Next]_vars =>
        (latest # None /\ latest'.task = latest.task => latest'.version >= latest.version)
  <2>1. SUFFICES ASSUME IInv, [Next]_vars, latest # None, latest'.task = latest.task
                 PROVE  latest'.version >= latest.version
    OBVIOUS
  <2>2. StoreType /\ FilesSound /\ AliasBehind  BY <2>1 DEF IInv
  <2>3. latest.task \in Tasks /\ latest.version \in Nat
    BY <2>1, <2>2, MaxVersionAssumption DEF StoreType, Aliases
  <2>4. latest.version <= Version(latest.task)  BY <2>1, <2>2 DEF AliasBehind
  <2>5. CASE latest' = latest  BY <2>3, <2>5
  <2>6. ASSUME NEW c \in Threads, latest' = [task |-> txn[c].task, version |-> Version(txn[c].task)]
        PROVE  latest'.version >= latest.version
    <3>1. latest'.task = txn[c].task /\ latest'.version = Version(txn[c].task)  BY <2>6
    <3>2. latest'.version = Version(latest.task)  BY <2>1, <3>1
    <3>3. Version(latest.task) \in Nat  BY <2>2, <2>3, FileFacts
    <3>. QED  BY <2>3, <2>4, <3>2, <3>3
  <2>7. \/ latest' = latest
        \/ \E c \in Threads : latest' = [task |-> txn[c].task, version |-> Version(txn[c].task)]
    BY <2>1, AliasStep DEF WriteLatest, RefreshLatest
  <2>. QED  BY <2>5, <2>6, <2>7
<1>. QED  BY <1>1, Invariance, PTL DEF Spec, LatestNeverRewinds

-----------------------------------------------------------------------------
(* The store implements TaskLifecycle: a commit is the one step of the     *)
(* operation that explains the candidate, every other step is a stutter.   *)

Rec == [u \in Tasks |-> Snap(u)]

\* A commit replaces one record of the abstract store.
LEMMA CommitPuts ==
  ASSUME IInv, NEW c \in Threads, Commit(c)
  PROVE  \E t \in Tasks, n \in Snapshots, m \in Modes :
           /\ Rec' = [Rec EXCEPT ![t] = [n EXCEPT !.generation = gen]]
           /\ UNCHANGED <<gen, serving, now>>
           /\ \/ file[t] = None /\ CreateOp(t, None, n, m)
              \/ file[t] # None /\ UpdateOp(c, Snap(t), n, m)
<1>1. txn[c] # None /\ txn[c].stage = "commit"  BY DEF Commit
<1>2. PICK x \in Proposals : x = txn[c]  BY <1>1 DEF IInv, StoreType
<1>3. PICK t \in Tasks, n \in Snapshots, m \in Modes : t = x.task /\ n = x.cand /\ m = x.mode
  BY DEF Proposals
<1>4. PICK f : f = [version |-> x.base + 1, snap |-> [n EXCEPT !.generation = gen]]  OBVIOUS
<1>5. /\ VersionMatches(x) /\ file' = [file EXCEPT ![t] = f] /\ UNCHANGED <<gen, serving, now>>
      /\ x.base < MaxVersion
  BY <1>2, <1>3, <1>4 DEF Commit
<1>6. \/ file[t] = None /\ CreateOp(t, None, n, m)
      \/ file[t] # None /\ UpdateOp(c, Snap(t), n, m)
  BY <1>1, <1>2, <1>3, <1>5, Current
<1>7. file \in [Tasks -> Files \cup {None}] /\ file' \in [Tasks -> Files \cup {None}]
  BY CommitStep DEF IInv, StoreType
<1>8. file'[t] = f /\ \A u \in Tasks : u # t => file'[u] = file[u]  BY <1>5, <1>7
<1>9. f # None
  <2>1. gen \in Nat /\ x.base \in Nat  BY ClockFacts DEF IInv, Proposals
  <2>2. [n EXCEPT !.generation = gen] \in Snapshots  BY <2>1 DEF Snapshots, SnapshotType
  <2>3. x.base + 1 \in 1..MaxVersion  BY <1>5, <2>1, MaxVersionAssumption
  <2>4. f \in Files  BY <1>4, <2>2, <2>3 DEF Files
  <2>. QED  BY <2>4, AbsenceAssumption
<1>10. Snap(t)' = [n EXCEPT !.generation = gen]  BY <1>4, <1>8, <1>9 DEF Snap
<1>11. \A u \in Tasks : u # t => Snap(u)' = Snap(u)  BY <1>8 DEF Snap
<1>12. Rec' = [Rec EXCEPT ![t] = [n EXCEPT !.generation = gen]]  BY <1>10, <1>11 DEF Rec
<1>. QED  BY <1>5, <1>6, <1>12

\* An operation on the record s of task t is the operation of TaskLifecycle.
LEMMA UpdateImplements ==
  ASSUME NEW c, NEW t \in Tasks, NEW s, NEW n, NEW m, Rec[t] = s, s # None,
         Rec' = [Rec EXCEPT ![t] = [n EXCEPT !.generation = gen]],
         UNCHANGED <<gen, serving, now>>, UpdateOp(c, s, n, m), now \in Nat
  PROVE  Lifecycle!Next
<1>h. /\ [u \in Tasks |-> Snap(u)][t] = s /\ s # None /\ UNCHANGED <<gen, serving, now>>
      /\ [u \in Tasks |-> Snap(u)]' =
           [[u \in Tasks |-> Snap(u)] EXCEPT ![t] = [n EXCEPT !.generation = gen]]
  BY DEF Rec
<1>1. ASSUME ClaimOp(c, s, n, m), NEW at \in 0..now, n = ClaimForExecution(s, c, at)
      PROVE  Lifecycle!TryClaimQueued(t, c, at)
  <2>1. Lifecycle!ClaimForExecution(s, c, at) = ClaimForExecution(s, c, at)
    BY DEF Lifecycle!ClaimForExecution, ClaimForExecution, Lifecycle!ClearOutcome, ClearOutcome
  <2>2. serving /\ Lifecycle!Claimable(s)
    BY <1>1 DEF ClaimOp, Lifecycle!Claimable, Claimable
  <2>. QED
    BY <1>h, <1>1, <2>1, <2>2 DEF Lifecycle!TryClaimQueued, Lifecycle!Serve, Lifecycle!Exists,
       Lifecycle!Put
<1>2. ASSUME Live(s), NEW at \in 0..now, at > s.heartbeat, n = TouchHeartbeat(s, at)
      PROVE  Lifecycle!HeartbeatExecution(t, s.owner, at)
    BY <1>h, <1>2 DEF Lifecycle!HeartbeatExecution, Lifecycle!Fenced, Lifecycle!Serve,
       Lifecycle!Exists, Lifecycle!Put, Live, Lifecycle!Active, Active,
       Lifecycle!TouchHeartbeat, TouchHeartbeat
<1>3. ASSUME Live(s), s.status = "running", NEW at \in 0..now, NEW out \in Outcomes,
             n = ApplyOutcome(s, out, at)
      PROVE  Lifecycle!FinishExecution(t, s.owner, out, at)
    BY <1>h, <1>3 DEF Lifecycle!FinishExecution, Lifecycle!Fenced, Lifecycle!Serve,
       Lifecycle!Exists, Lifecycle!Put, Live, Lifecycle!ApplyOutcome, ApplyOutcome,
       Lifecycle!Complete, Complete, Lifecycle!Fail, Fail, Lifecycle!TimeOut, TimeOut
<1>4. ASSUME CancelledOp(s, n, m), NEW at, NEW out
      PROVE  Lifecycle!FinishExecution(t, s.owner, out, at)
    BY <1>h, <1>4 DEF Lifecycle!FinishExecution, Lifecycle!Fenced, Lifecycle!Serve,
       Lifecycle!Exists, Lifecycle!Put, CancelledOp, Live, Lifecycle!MarkCancelled,
       MarkCancelled
<1>5. ASSUME Live(s), NEW r \in Results, n = CompleteCommittedEffect(s, r)
      PROVE  Lifecycle!FinishCommittedEffect(t, s.owner, r)
    BY <1>h, <1>5 DEF Lifecycle!FinishCommittedEffect, Lifecycle!Fenced,
       Lifecycle!Serve, Lifecycle!Exists, Lifecycle!Put, Live, Lifecycle!Active,
       Active, Lifecycle!CompleteCommittedEffect, CompleteCommittedEffect,
       Lifecycle!Complete, Complete
<1>6. ASSUME BlockOp(s, n, m)
      PROVE  Lifecycle!BlockPreparedEffect(t, s.owner)
    BY <1>h, <1>6 DEF Lifecycle!BlockPreparedEffect, Lifecycle!Fenced,
       Lifecycle!Serve, Lifecycle!Exists, Lifecycle!Put, BlockOp, Live,
       Lifecycle!Active, Active, Lifecycle!BlockUnknownEffect, BlockUnknownEffect,
       Lifecycle!ClearOutcome, ClearOutcome, Lifecycle!UnknownEffect, UnknownEffect
<1>7. ASSUME serving, NEW why \in Reasons, ~(s.cancelRequested /\ s.cancelReason = why),
             \/ s.status = "queued" /\ n = MarkCancelled(RequestCancel(s, why))
             \/ s.status # "queued" /\ n = RequestCancel(s, why)
      PROVE  Lifecycle!RequestCancellation(t, why)
    BY <1>h, <1>7 DEF Lifecycle!RequestCancellation, Lifecycle!CancelCandidate,
       Lifecycle!Serve, Lifecycle!Exists, Lifecycle!Put, Lifecycle!MarkCancelled,
       MarkCancelled, Lifecycle!RequestCancel, RequestCancel, Lifecycle!IsTerminal,
       IsTerminal, Lifecycle!Terminal, Terminal
<1>8. ASSUME serving, NEW at \in 0..now, RetryStepEnabled(s, at), n = RetryStep(s, at)
      PROVE  Lifecycle!RequeueRetryable(t, at)
    BY <1>h, <1>8 DEF Lifecycle!RequeueRetryable, Lifecycle!Serve, Lifecycle!Exists,
       Lifecycle!Put, Lifecycle!RetryStepEnabled, RetryStepEnabled,
       Lifecycle!RetryEligible, RetryEligible, Lifecycle!ErrorIsRetryable,
       ErrorIsRetryable, Lifecycle!RetryStep, RetryStep, Lifecycle!Requeue, Requeue,
       Lifecycle!ScheduleRetry, ScheduleRetry, Lifecycle!ClearOutcome, ClearOutcome
<1>9. ASSUME EvidenceOp(s, n, m)
      PROVE  Lifecycle!CheckpointEvidence(t)
    BY <1>h, <1>9 DEF Lifecycle!CheckpointEvidence, Lifecycle!NeedsEvidence,
       Lifecycle!Serve, Lifecycle!Exists, Lifecycle!Put, EvidenceOp,
       Lifecycle!AddDeadLetter, AddDeadLetter
<1>10. ASSUME ReplayOp(s, n, m)
      PROVE  Lifecycle!RecoverReplayDelivery(t)
    BY <1>h, <1>10 DEF Lifecycle!RecoverReplayDelivery, Lifecycle!Exists,
       Lifecycle!Put, ReplayOp, Lifecycle!Abandoned, Abandoned,
       Lifecycle!RequiresOperator, RequiresOperator, Lifecycle!UnknownEffect,
       UnknownEffect, Lifecycle!Requeue, Requeue, Lifecycle!ClearOutcome, ClearOutcome
<1>11. ASSUME AbandonedOp(s, n, m)
      PROVE  Lifecycle!RecoverAbandonedTask(t)
    BY <1>h, <1>11 DEF Lifecycle!RecoverAbandonedTask, Lifecycle!Recover,
       Lifecycle!Exists, Lifecycle!Put, AbandonedOp, Left, Lifecycle!Abandoned,
       Abandoned, Lifecycle!RequiresOperator, RequiresOperator,
       Lifecycle!UnknownEffect, UnknownEffect, Lifecycle!Requeue, Requeue,
       Lifecycle!ClearOutcome, ClearOutcome
<1>12. ASSUME InterruptOp(s, n, m)
      PROVE  Lifecycle!InterruptAfterRestart(t)
    BY <1>h, <1>12 DEF Lifecycle!InterruptAfterRestart, Lifecycle!Recover,
       Lifecycle!Exists, Lifecycle!Put, InterruptOp, Left, Lifecycle!Active, Active,
       Lifecycle!BaselineInterrupt, BaselineInterrupt, Lifecycle!MarkInterrupted,
       MarkInterrupted, Lifecycle!RestartNote, RestartNote
<1>13. ASSUME RecoverOp(s, n, m), NEW r \in Results, n = RecoverCommitted(s, r)
      PROVE  Lifecycle!RecoverFromCommittedEffect(t, r)
    BY <1>h, <1>13 DEF Lifecycle!RecoverFromCommittedEffect, Lifecycle!Recover,
       Lifecycle!Exists, Lifecycle!Put, RecoverOp, Left, Lifecycle!RecoverCommitted,
       RecoverCommitted, Lifecycle!ClearOutcome, ClearOutcome
<1>14. ASSUME UnknownOp(s, n, m)
      PROVE  Lifecycle!BlockForUnknownEffect(t)
    BY <1>h, <1>14 DEF Lifecycle!BlockForUnknownEffect, Lifecycle!Recover,
       Lifecycle!Exists, Lifecycle!Put, UnknownOp, Left, Lifecycle!RequiresOperator,
       RequiresOperator, Lifecycle!BlockUnknownEffect, BlockUnknownEffect,
       Lifecycle!ClearOutcome, ClearOutcome, Lifecycle!UnknownEffect, UnknownEffect
<1>15. Outcomes = Lifecycle!Outcomes  BY DEF Outcomes, Lifecycle!Outcomes, Outcome, Lifecycle!Outcome
<1>16. CASE ClaimOp(c, s, n, m)
  BY <1>16, <1>1 DEF ClaimOp, Lifecycle!Next, Lifecycle!Attempt
<1>17. CASE AttemptOp(s, n, m)
  <2>1. PICK o \in Owners : o = s.owner
    BY <1>17 DEF AttemptOp, HeartbeatOp, FinishOp, CancelledOp, CommittedOp, BlockOp, Live
  <2>2. CASE HeartbeatOp(s, n, m)
    BY <1>2, <2>1, <2>2 DEF HeartbeatOp, Lifecycle!Next, Lifecycle!Attempt
  <2>3. CASE FinishOp(s, n, m)
    BY <1>3, <1>15, <2>1, <2>3 DEF FinishOp, Lifecycle!Next, Lifecycle!Attempt
  <2>4. CASE CancelledOp(s, n, m)
    <3>1. PICK out \in Lifecycle!Outcomes : TRUE
      BY <1>15 DEF Outcomes
    <3>2. Lifecycle!FinishExecution(t, o, out, 0)  BY <1>4, <2>1, <2>4
    <3>3. 0 \in 0..now  OBVIOUS
    <3>. QED  BY <3>1, <3>2, <3>3 DEF Lifecycle!Next, Lifecycle!Attempt
  <2>5. CASE CommittedOp(s, n, m)
    BY <1>5, <2>1, <2>5 DEF CommittedOp, Lifecycle!Next, Lifecycle!Attempt
  <2>6. CASE BlockOp(s, n, m)
    BY <1>6, <2>1, <2>6 DEF Lifecycle!Next, Lifecycle!Attempt
  <2>. QED  BY <1>17, <2>2, <2>3, <2>4, <2>5, <2>6 DEF AttemptOp
<1>18. CASE CancelOp(s, n, m)
  <2>1. PICK why \in Reasons :
          /\ ~(s.cancelRequested /\ s.cancelReason = why)
          /\ \/ s.status = "queued" /\ n = MarkCancelled(RequestCancel(s, why))
             \/ s.status # "queued" /\ n = RequestCancel(s, why)
    BY <1>18 DEF CancelOp
  <2>2. Lifecycle!RequestCancellation(t, why)  BY <1>7, <1>18, <2>1 DEF CancelOp
  <2>. QED  BY <2>2 DEF Lifecycle!Next
<1>19. CASE RetryOp(s, n, m)  BY <1>8, <1>19 DEF RetryOp, Lifecycle!Next
<1>20. CASE EvidenceOp(s, n, m) \/ ReplayOp(s, n, m)
  BY <1>9, <1>10, <1>20 DEF Lifecycle!Next
<1>21. CASE RecoveryOp(s, n, m)
  <2>1. CASE RecoverOp(s, n, m)  BY <1>13, <2>1 DEF RecoverOp, Lifecycle!Next
  <2>2. CASE AbandonedOp(s, n, m) \/ InterruptOp(s, n, m) \/ UnknownOp(s, n, m)
    BY <1>11, <1>12, <1>14, <2>2 DEF Lifecycle!Next
  <2>. QED  BY <1>21, <2>1, <2>2 DEF RecoveryOp
<1>. QED  BY <1>16, <1>17, <1>18, <1>19, <1>20, <1>21 DEF UpdateOp

\* A commit is a step of TaskLifecycle.
LEMMA CommitImplements ==
  ASSUME IInv, NEW c \in Threads, Commit(c)
  PROVE  Lifecycle!Next
<1>1. PICK t \in Tasks, n \in Snapshots, m \in Modes :
        /\ Rec' = [Rec EXCEPT ![t] = [n EXCEPT !.generation = gen]]
        /\ UNCHANGED <<gen, serving, now>>
        /\ \/ file[t] = None /\ CreateOp(t, None, n, m)
           \/ file[t] # None /\ UpdateOp(c, Snap(t), n, m)
  BY CommitPuts
<1>2. CASE file[t] = None
  <2>1. [u \in Tasks |-> Snap(u)][t] = None /\ n = QueuedSnapshot(Env[t]) /\ serving
    BY <1>1, <1>2 DEF Snap, CreateOp
  <2>2. [u \in Tasks |-> Snap(u)]' =
          [[u \in Tasks |-> Snap(u)] EXCEPT ![t] = [n EXCEPT !.generation = gen]]
    BY <1>1 DEF Rec
  <2>3. Lifecycle!Create(t)
    BY <1>1, <2>1, <2>2 DEF Lifecycle!Create, Lifecycle!Exists, Lifecycle!Put,
       Lifecycle!QueuedSnapshot, QueuedSnapshot
  <2>. QED  BY <2>3 DEF Lifecycle!Next
<1>3. CASE file[t] # None
  <2>1. PICK s : s = Snap(t)  OBVIOUS
  <2>2. Rec[t] = s /\ s # None /\ now \in Nat
    BY <1>3, <2>1, FileFacts, ClockFacts DEF Rec, IInv
  <2>. QED  BY <1>1, <1>3, <2>1, <2>2, UpdateImplements
<1>. QED  BY <1>2, <1>3

\* Optimistic transactions, late alias writes, failed writes and restarts show the
\* records of TaskLifecycle's indivisible operations and nothing else.
THEOREM ImplementsLifecycle == Spec => LifecycleSpec
<1>1. Init => Lifecycle!Init  BY DEF Init, Lifecycle!Init, Snap
<1>2. IInv /\ [Next]_vars => [Lifecycle!Next]_(Lifecycle!vars)
  <2>1. SUFFICES ASSUME IInv, [Next]_vars  PROVE [Lifecycle!Next]_(Lifecycle!vars)  OBVIOUS
  <2>2. CASE Quiet  BY <2>2 DEF Quiet, Lifecycle!vars, Snap
  <2>3. CASE \E c \in Threads : Commit(c)  BY <2>1, <2>3, CommitImplements
  <2>4. CASE StartServing
    <3>1. \A t \in Tasks : [u \in Tasks |-> Snap(u)][t] # None => file[t] # None  BY DEF Snap
    <3>2. [u \in Tasks |-> Snap(u)]' = [u \in Tasks |-> Snap(u)]  BY <2>4 DEF StartServing, Snap
    <3>3. Lifecycle!StartServing
      BY <2>4, <3>1, <3>2 DEF StartServing, Lifecycle!StartServing, Lifecycle!Exists,
                              Lifecycle!Active, Active
    <3>. QED  BY <3>3 DEF Lifecycle!Next
  <2>5. CASE Restart
    BY <2>5 DEF Restart, Lifecycle!Restart, Lifecycle!Next, Snap
  <2>6. CASE Tick
    BY <2>6 DEF Tick, Lifecycle!Tick, Lifecycle!Next, Snap
  <2>. QED  BY <2>1, <2>2, <2>3, <2>4, <2>5, <2>6, NextStep
<1>. QED  BY <1>1, <1>2, Invariance, PTL DEF Spec, LifecycleSpec, Lifecycle!Spec
=============================================================================
