--------------------------- MODULE TaskRecordProofs ---------------------------
(***************************************************************************)
(* Lemmas about the snapshot operators of TaskRecord.  Each operator maps  *)
(* a well-typed, sound snapshot that meets the operator's guard to another *)
(* one; the lemma also says what becomes of the fields that the theorems   *)
(* about cancellation and settled outcomes read.                           *)
(***************************************************************************)
EXTENDS TaskRecord, TLAPS

\* The per-record strengthening behind TaskLifecycle's invariants: the record
\* passes validate, a cancellation bars queued and running, a queued record
\* carries nothing of an attempt, an active one carries its whole claim.
Sound(s) ==
  /\ Validate(s)
  /\ s.cancelRequested => s.status \notin {"queued", "running"}
  /\ s.status = "queued" =>
       /\ s.owner = None /\ s.deadline = None /\ s.heartbeat = None
       /\ s.errorKind = None /\ s.ready = None /\ s.reason = None
  /\ s.status \in Active =>
       s.owner # None /\ s.heartbeat # None /\ s.errorKind = None

\* Forgetting the outcome of an attempt touches five fields.
LEMMA ClearFacts ==
  ASSUME NEW O, NEW R, NEW W, NEW s \in SnapshotType(O, R, W), NEW c, c = ClearOutcome(s)
  PROVE  /\ c \in SnapshotType(O, R, W)
         /\ c.result = None /\ c.reason = None /\ c.errorKind = None
         /\ c.retryable = None /\ c.ready = None
         /\ c.env = s.env /\ c.status = s.status /\ c.attempts = s.attempts
         /\ c.owner = s.owner /\ c.heartbeat = s.heartbeat /\ c.deadline = s.deadline
         /\ c.cancelRequested = s.cancelRequested
BY DEF SnapshotType, ClearOutcome

\* A submitted task is well typed and sound.
LEMMA QueuedFacts ==
  ASSUME NEW O, NEW R, NEW W, NEW env \in EnvType
  PROVE  /\ QueuedSnapshot(env) \in SnapshotType(O, R, W)
         /\ Sound(QueuedSnapshot(env))
<1>1. QueuedSnapshot(env) \in SnapshotType(O, R, W)
  BY DEF QueuedSnapshot, SnapshotType, Statuses
<1>2. PICK n : n = QueuedSnapshot(env)  OBVIOUS
<1>3. /\ n.env = env /\ n.status = "queued" /\ n.attempts = 0 /\ n.owner = None
      /\ n.heartbeat = None /\ n.deadline = None /\ n.cancelRequested = FALSE
      /\ n.result = None /\ n.reason = None /\ n.errorKind = None
      /\ n.retryable = None /\ n.ready = None
  BY <1>2 DEF QueuedSnapshot
<1>4. env.max \in Nat \ {0}  BY DEF EnvType
<1>5. Sound(n)  BY <1>3, <1>4 DEF Sound, Validate, Active
<1>. QED  BY <1>1, <1>2, <1>5


\* The owner generation is not part of what makes a record sound.
LEMMA StampFacts ==
  ASSUME NEW O, NEW R, NEW W, NEW s \in SnapshotType(O, R, W), NEW g \in Nat,
         Sound(s),
         NEW n, n = [s EXCEPT !.generation = g]
  PROVE  /\ n \in SnapshotType(O, R, W) /\ Sound(n)
         /\ n.status = s.status /\ n.attempts = s.attempts
         /\ n.cancelRequested = s.cancelRequested /\ n.result = s.result
         /\ n.reason = s.reason
<1>1. n \in SnapshotType(O, R, W)
  BY SMTT(60) DEF SnapshotType, Statuses
<1>2. /\ n.env = s.env /\ n.status = s.status /\ n.attempts = s.attempts
      /\ n.owner = s.owner /\ n.heartbeat = s.heartbeat /\ n.deadline = s.deadline
      /\ n.cancelRequested = s.cancelRequested /\ n.result = s.result
      /\ n.reason = s.reason /\ n.errorKind = s.errorKind
      /\ n.retryable = s.retryable /\ n.ready = s.ready
  BY DEF SnapshotType
<1>3. Validate(n)
  BY <1>1, <1>2, ZenonT(60)
  DEF Sound, Validate, ExecutionMetadataValid, Active, SnapshotType, EnvType
<1>. QED  BY <1>1, <1>2, <1>3 DEF Sound, Active

\* A claim starts a sound attempt: the queue entry had no cancellation and an
\* attempt left.
LEMMA ClaimFacts ==
  ASSUME NEW O, NEW R, NEW W, NEW s \in SnapshotType(O, R, W), NEW o \in O, NEW now \in Nat,
         None \notin O, None \notin Int, Claimable(s), Sound(s),
         NEW n, n = ClaimForExecution(s, o, now)
  PROVE  /\ n \in SnapshotType(O, R, W) /\ Sound(n)
         /\ n.status = "running" /\ n.attempts = s.attempts + 1
         /\ n.cancelRequested = s.cancelRequested /\ n.result = None
         /\ n.reason = None
<1> DEFINE d == IF s.env.timeout = None THEN None ELSE now + s.env.timeout
<1>t. d \in Nat \cup {None}
  <2>1. s.env \in EnvType  BY DEF SnapshotType
  <2>2. s.env.timeout \in Nat \cup {None}  BY <2>1 DEF EnvType
  <2>. QED  BY <2>2
<1>c. PICK c : c = ClearOutcome(s)  OBVIOUS
<1>d. c \in SnapshotType(O, R, W)  BY <1>c, ClearFacts
<1>e. n = [c EXCEPT !.attempts = c.attempts + 1, !.owner = o, !.status = "running",
                    !.heartbeat = now, !.deadline = d]
  BY <1>c DEF ClaimForExecution
<1>a. c.attempts + 1 \in Nat  BY <1>d DEF SnapshotType
<1> HIDE DEF d
<1>1. n \in SnapshotType(O, R, W)
  BY <1>d, <1>e, <1>t, <1>a, ZenonT(60) DEF SnapshotType, Statuses
<1>f. /\ n.env = c.env /\ n.status = "running" /\ n.attempts = c.attempts + 1
      /\ n.owner = o /\ n.heartbeat = now /\ n.deadline = d
      /\ n.cancelRequested = c.cancelRequested /\ n.result = c.result
      /\ n.reason = c.reason /\ n.errorKind = c.errorKind
      /\ n.retryable = c.retryable /\ n.ready = c.ready
  BY <1>d, <1>e DEF SnapshotType
<1>2. /\ n.env = s.env /\ n.status = "running" /\ n.attempts = s.attempts + 1
      /\ n.owner = o /\ n.heartbeat = now /\ n.deadline = d
      /\ n.cancelRequested = s.cancelRequested /\ n.result = None /\ n.reason = None
      /\ n.errorKind = None /\ n.retryable = None /\ n.ready = None
  BY <1>c, <1>f, ClearFacts
<1>3. Validate(n)
  BY <1>1, <1>2, SMTT(60)
  DEF Sound, Validate, ExecutionMetadataValid, Active, SnapshotType, EnvType, Claimable
<1>. QED  BY <1>1, <1>2, <1>3 DEF Sound, Active, Claimable

\* A heartbeat changes the heartbeat.
LEMMA TouchFacts ==
  ASSUME NEW O, NEW R, NEW W, NEW s \in SnapshotType(O, R, W), NEW now \in Nat,
         None \notin Int, s.status \in Active, Sound(s),
         NEW n, n = TouchHeartbeat(s, now)
  PROVE  /\ n \in SnapshotType(O, R, W) /\ Sound(n)
         /\ n.status = s.status /\ n.attempts = s.attempts
         /\ n.cancelRequested = s.cancelRequested /\ n.result = s.result
         /\ n.reason = s.reason
<1>1. n \in SnapshotType(O, R, W)
  BY SMTT(60) DEF SnapshotType, Statuses, TouchHeartbeat
<1>2. /\ n.env = s.env /\ n.status = s.status /\ n.attempts = s.attempts
      /\ n.owner = s.owner /\ n.heartbeat = now /\ n.deadline = s.deadline
      /\ n.cancelRequested = s.cancelRequested /\ n.result = s.result
      /\ n.reason = s.reason /\ n.errorKind = s.errorKind
      /\ n.retryable = s.retryable /\ n.ready = s.ready
  BY DEF SnapshotType, TouchHeartbeat
<1>3. Validate(n)
  BY <1>1, <1>2, ZenonT(60)
  DEF Sound, Validate, ExecutionMetadataValid, Active, SnapshotType, EnvType
<1>. QED  BY <1>1, <1>2, <1>3 DEF Sound, Active

\* A running attempt completes.
LEMMA CompleteFacts ==
  ASSUME NEW O, NEW R, NEW W, NEW s \in SnapshotType(O, R, W), NEW r \in R,
         None \notin R, s.status = "running", Sound(s),
         NEW n, n = Complete(s, r)
  PROVE  /\ n \in SnapshotType(O, R, W) /\ Sound(n)
         /\ n.status = "completed" /\ n.attempts = s.attempts
         /\ n.cancelRequested = s.cancelRequested /\ n.result = r
         /\ n.reason = s.reason
<1>1. n \in SnapshotType(O, R, W)
  BY ZenonT(60) DEF SnapshotType, Statuses, Complete
<1>2. /\ n.env = s.env /\ n.status = "completed" /\ n.attempts = s.attempts
      /\ n.owner = s.owner /\ n.heartbeat = s.heartbeat /\ n.deadline = s.deadline
      /\ n.cancelRequested = s.cancelRequested /\ n.result = r /\ n.reason = s.reason
      /\ n.errorKind = None /\ n.retryable = None /\ n.ready = None
  BY DEF SnapshotType, Complete
<1>3. Validate(n)
  BY <1>1, <1>2, SMTT(60)
  DEF Sound, Validate, ExecutionMetadataValid, Active, SnapshotType, EnvType
<1>. QED  BY <1>1, <1>2, <1>3 DEF Sound, Active

\* A running attempt fails.
LEMMA FailFacts ==
  ASSUME NEW O, NEW R, NEW W, NEW s \in SnapshotType(O, R, W), NEW b \in BOOLEAN,
         None \notin {"error", "timeout"}, s.status = "running", Sound(s),
         NEW n, n = Fail(s, "error", b)
  PROVE  /\ n \in SnapshotType(O, R, W) /\ Sound(n)
         /\ n.status = "failed" /\ n.attempts = s.attempts
         /\ n.cancelRequested = s.cancelRequested /\ n.result = None
         /\ n.reason = s.reason
<1>1. n \in SnapshotType(O, R, W)
  BY ZenonT(60) DEF SnapshotType, Statuses, Fail
<1>2. /\ n.env = s.env /\ n.status = "failed" /\ n.attempts = s.attempts
      /\ n.owner = s.owner /\ n.heartbeat = s.heartbeat /\ n.deadline = s.deadline
      /\ n.cancelRequested = s.cancelRequested /\ n.result = None
      /\ n.reason = s.reason /\ n.errorKind = "error" /\ n.retryable = b
      /\ n.ready = None
  BY DEF SnapshotType, Fail
<1>3. Validate(n)
  BY <1>1, <1>2, ZenonT(60)
  DEF Sound, Validate, ExecutionMetadataValid, Active, SnapshotType, EnvType
<1>. QED  BY <1>1, <1>2, <1>3 DEF Sound, Active

\* A running attempt times out.
LEMMA TimeOutFacts ==
  ASSUME NEW O, NEW R, NEW W, NEW s \in SnapshotType(O, R, W), NEW now \in Nat, NEW b \in BOOLEAN,
         None \notin {"error", "timeout"}, None \notin Int,
         s.status = "running", Sound(s),
         NEW n, n = TimeOut(s, now, b)
  PROVE  /\ n \in SnapshotType(O, R, W) /\ Sound(n)
         /\ n.status = "timed_out" /\ n.attempts = s.attempts
         /\ n.cancelRequested = s.cancelRequested /\ n.result = None
         /\ n.reason = s.reason
<1>1. n \in SnapshotType(O, R, W)
  BY ZenonT(60) DEF SnapshotType, Statuses, TimeOut
<1>2. /\ n.env = s.env /\ n.status = "timed_out" /\ n.attempts = s.attempts
      /\ n.owner = s.owner /\ n.heartbeat = now /\ n.deadline = s.deadline
      /\ n.cancelRequested = s.cancelRequested /\ n.result = None
      /\ n.reason = s.reason /\ n.errorKind = "timeout" /\ n.retryable = b
      /\ n.ready = None
  BY DEF SnapshotType, TimeOut
<1>3. Validate(n)
  BY <1>1, <1>2, SMTT(60)
  DEF Sound, Validate, ExecutionMetadataValid, Active, SnapshotType, EnvType
<1>. QED  BY <1>1, <1>2, <1>3 DEF Sound, Active

\* A cancelling attempt, or a queued task, is closed as cancelled.
LEMMA MarkCancelledFacts ==
  ASSUME NEW O, NEW R, NEW W, NEW s \in SnapshotType(O, R, W),
         s.status = "cancelling", Sound(s),
         NEW n, n = MarkCancelled(s)
  PROVE  /\ n \in SnapshotType(O, R, W) /\ Sound(n)
         /\ n.status = "cancelled" /\ n.attempts = s.attempts
         /\ n.cancelRequested /\ n.result = None /\ n.reason = s.reason
<1>1. n \in SnapshotType(O, R, W)
  BY ZenonT(60) DEF SnapshotType, Statuses, MarkCancelled
<1>2. /\ n.env = s.env /\ n.status = "cancelled" /\ n.attempts = s.attempts
      /\ n.owner = s.owner /\ n.heartbeat = s.heartbeat /\ n.deadline = s.deadline
      /\ n.cancelRequested = TRUE /\ n.result = None /\ n.reason = s.reason
      /\ n.errorKind = None /\ n.retryable = None /\ n.ready = None
  BY DEF SnapshotType, MarkCancelled
<1>3. Validate(n)
  BY <1>1, <1>2, SMTT(60)
  DEF Sound, Validate, ExecutionMetadataValid, Active, SnapshotType, EnvType
<1>. QED  BY <1>1, <1>2, <1>3 DEF Sound, Active

\* Back to the queue: no cancellation may have been requested.
LEMMA RequeueFacts ==
  ASSUME NEW O, NEW R, NEW W, NEW s \in SnapshotType(O, R, W),
         ~s.cancelRequested, Sound(s),
         NEW n, n = Requeue(s)
  PROVE  /\ n \in SnapshotType(O, R, W) /\ Sound(n)
         /\ n.status = "queued" /\ n.attempts = s.attempts
         /\ n.cancelRequested = s.cancelRequested /\ n.result = None
         /\ n.reason = None
<1>c. PICK c : c = ClearOutcome(s)  OBVIOUS
<1>d. c \in SnapshotType(O, R, W)  BY <1>c, ClearFacts
<1>e. n = [c EXCEPT !.status = "queued", !.owner = None,
                    !.heartbeat = None, !.deadline = None]
  BY <1>c DEF Requeue
<1>1. n \in SnapshotType(O, R, W)
  BY <1>d, <1>e, ZenonT(60) DEF SnapshotType, Statuses
<1>f. /\ n.env = c.env /\ n.status = "queued" /\ n.attempts = c.attempts
      /\ n.owner = None /\ n.heartbeat = None /\ n.deadline = None
      /\ n.cancelRequested = c.cancelRequested /\ n.result = c.result
      /\ n.reason = c.reason /\ n.errorKind = c.errorKind
      /\ n.retryable = c.retryable /\ n.ready = c.ready
  BY <1>d, <1>e DEF SnapshotType
<1>2. /\ n.env = s.env /\ n.status = "queued" /\ n.attempts = s.attempts
      /\ n.owner = None /\ n.heartbeat = None /\ n.deadline = None
      /\ n.cancelRequested = s.cancelRequested /\ n.result = None /\ n.reason = None
      /\ n.errorKind = None /\ n.retryable = None /\ n.ready = None
  BY <1>c, <1>f, ClearFacts
<1>3. Validate(n)
  BY <1>1, <1>2, SMTT(60)
  DEF Sound, Validate, ExecutionMetadataValid, Active, SnapshotType, EnvType
<1>. QED  BY <1>1, <1>2, <1>3 DEF Sound, Active

\* A retry gets its due time while the failed attempt stays in place.
LEMMA ScheduleFacts ==
  ASSUME NEW O, NEW R, NEW W, NEW s \in SnapshotType(O, R, W), NEW at \in Nat,
         None \notin BOOLEAN, RetryEligible(s), Sound(s),
         NEW n, n = ScheduleRetry(s, at)
  PROVE  /\ n \in SnapshotType(O, R, W) /\ Sound(n)
         /\ n.status = s.status /\ n.attempts = s.attempts
         /\ n.cancelRequested = s.cancelRequested /\ n.result = s.result
         /\ n.reason = s.reason
<1>1. n \in SnapshotType(O, R, W)
  BY SMTT(60) DEF SnapshotType, Statuses, ScheduleRetry
<1>2. /\ n.env = s.env /\ n.status = s.status /\ n.attempts = s.attempts
      /\ n.owner = s.owner /\ n.heartbeat = s.heartbeat /\ n.deadline = s.deadline
      /\ n.cancelRequested = s.cancelRequested /\ n.result = s.result
      /\ n.reason = s.reason /\ n.errorKind = s.errorKind
      /\ n.retryable = s.retryable /\ n.ready = at
  BY DEF SnapshotType, ScheduleRetry
<1>r. s.retryable # FALSE
  BY DEF RetryEligible, ErrorIsRetryable
<1>g. s.status \in {"failed", "timed_out"} /\ s.attempts < s.env.max
  BY DEF RetryEligible
<1>3. Validate(n)
  BY <1>1, <1>2, <1>r, <1>g DEF Sound, Validate, ExecutionMetadataValid, Active, SnapshotType, EnvType
<1>. QED  BY <1>1, <1>2, <1>3, <1>g DEF Sound, Active

\* The committed result closes any task that is not yet completed.
LEMMA RecoverCommittedFacts ==
  ASSUME NEW O, NEW R, NEW W, NEW s \in SnapshotType(O, R, W), NEW r \in R,
         None \notin R, Sound(s),
         NEW n, n = RecoverCommitted(s, r)
  PROVE  /\ n \in SnapshotType(O, R, W) /\ Sound(n)
         /\ n.status = "completed" /\ n.attempts = s.attempts
         /\ n.cancelRequested = s.cancelRequested /\ n.result = r /\ n.reason = None
<1>c. PICK c : c = ClearOutcome(s)  OBVIOUS
<1>d. c \in SnapshotType(O, R, W)  BY <1>c, ClearFacts
<1>e. n = [c EXCEPT !.status = "completed", !.cancelAccepted = FALSE, !.result = r]
  BY <1>c DEF RecoverCommitted
<1>1. n \in SnapshotType(O, R, W)
  BY <1>d, <1>e, ZenonT(60) DEF SnapshotType, Statuses
<1>f. /\ n.env = c.env /\ n.status = "completed" /\ n.attempts = c.attempts
      /\ n.owner = c.owner /\ n.heartbeat = c.heartbeat /\ n.deadline = c.deadline
      /\ n.cancelRequested = c.cancelRequested /\ n.result = r /\ n.reason = c.reason
      /\ n.errorKind = c.errorKind /\ n.retryable = c.retryable /\ n.ready = c.ready
  BY <1>d, <1>e DEF SnapshotType
<1>2. /\ n.env = s.env /\ n.status = "completed" /\ n.attempts = s.attempts
      /\ n.owner = s.owner /\ n.heartbeat = s.heartbeat /\ n.deadline = s.deadline
      /\ n.cancelRequested = s.cancelRequested /\ n.result = r /\ n.reason = None
      /\ n.errorKind = None /\ n.retryable = None /\ n.ready = None
  BY <1>c, <1>f, ClearFacts
<1>3. Validate(n)
  BY <1>1, <1>2, SMTT(60)
  DEF Sound, Validate, ExecutionMetadataValid, Active, SnapshotType, EnvType
<1>. QED  BY <1>1, <1>2, <1>3 DEF Sound, Active

\* An unknown effect leaves the task to an operator.
LEMMA BlockFacts ==
  ASSUME NEW O, NEW R, NEW W, NEW s \in SnapshotType(O, R, W),
         Sound(s),
         NEW n, n = BlockUnknownEffect(s)
  PROVE  /\ n \in SnapshotType(O, R, W) /\ Sound(n)
         /\ n.status = "interrupted" /\ n.attempts = s.attempts
         /\ n.cancelRequested = s.cancelRequested /\ n.result = None
         /\ n.reason = UnknownEffect
<1>c. PICK c : c = ClearOutcome(s)  OBVIOUS
<1>d. c \in SnapshotType(O, R, W)  BY <1>c, ClearFacts
<1>e. n = [c EXCEPT !.status = "interrupted", !.cancelAccepted = FALSE,
                    !.reason = UnknownEffect]
  BY <1>c DEF BlockUnknownEffect
<1>1. n \in SnapshotType(O, R, W)
  BY <1>d, <1>e, ZenonT(60) DEF SnapshotType, Statuses
<1>f. /\ n.env = c.env /\ n.status = "interrupted" /\ n.attempts = c.attempts
      /\ n.owner = c.owner /\ n.heartbeat = c.heartbeat /\ n.deadline = c.deadline
      /\ n.cancelRequested = c.cancelRequested /\ n.result = c.result
      /\ n.reason = UnknownEffect /\ n.errorKind = c.errorKind
      /\ n.retryable = c.retryable /\ n.ready = c.ready
  BY <1>d, <1>e DEF SnapshotType
<1>2. /\ n.env = s.env /\ n.status = "interrupted" /\ n.attempts = s.attempts
      /\ n.owner = s.owner /\ n.heartbeat = s.heartbeat /\ n.deadline = s.deadline
      /\ n.cancelRequested = s.cancelRequested /\ n.result = None
      /\ n.reason = UnknownEffect /\ n.errorKind = None /\ n.retryable = None
      /\ n.ready = None
  BY <1>c, <1>f, ClearFacts
<1>3. Validate(n)
  BY <1>1, <1>2, SMTT(60)
  DEF Sound, Validate, ExecutionMetadataValid, Active, SnapshotType, EnvType
<1>. QED  BY <1>1, <1>2, <1>3 DEF Sound, Active

\* Restart recovery interrupts an active attempt with a note.
LEMMA MarkInterruptedFacts ==
  ASSUME NEW O, NEW R, NEW W, NEW s \in SnapshotType(O, R, W),
         s.status \in Active, Sound(s),
         NEW n, n = MarkInterrupted(s)
  PROVE  /\ n \in SnapshotType(O, R, W) /\ Sound(n)
         /\ n.status = "interrupted" /\ n.attempts = s.attempts
         /\ n.cancelRequested = s.cancelRequested /\ n.result = None
         /\ n.reason = RestartNote
<1>1. n \in SnapshotType(O, R, W)
  BY ZenonT(60) DEF SnapshotType, Statuses, MarkInterrupted
<1>2. /\ n.env = s.env /\ n.status = "interrupted" /\ n.attempts = s.attempts
      /\ n.owner = s.owner /\ n.heartbeat = s.heartbeat /\ n.deadline = s.deadline
      /\ n.cancelRequested = s.cancelRequested /\ n.result = None
      /\ n.reason = RestartNote /\ n.errorKind = s.errorKind
      /\ n.retryable = s.retryable /\ n.ready = s.ready
  BY DEF SnapshotType, MarkInterrupted
<1>3. Validate(n)
  BY <1>1, <1>2, SMTT(60)
  DEF Sound, Validate, ExecutionMetadataValid, Active, SnapshotType, EnvType
<1>. QED  BY <1>1, <1>2, <1>3 DEF Sound, Active

\* The baseline recovery only rewrites the status.
LEMMA BaselineFacts ==
  ASSUME NEW O, NEW R, NEW W, NEW s \in SnapshotType(O, R, W),
         s.status \in Active, Sound(s),
         NEW n, n = BaselineInterrupt(s)
  PROVE  /\ n \in SnapshotType(O, R, W) /\ Sound(n)
         /\ n.status = "interrupted" /\ n.attempts = s.attempts
         /\ n.cancelRequested = s.cancelRequested /\ n.result = s.result
         /\ n.reason = s.reason
<1>1. n \in SnapshotType(O, R, W)
  BY SMTT(60) DEF SnapshotType, Statuses, BaselineInterrupt
<1>2. /\ n.env = s.env /\ n.status = "interrupted" /\ n.attempts = s.attempts
      /\ n.owner = s.owner /\ n.heartbeat = s.heartbeat /\ n.deadline = s.deadline
      /\ n.cancelRequested = s.cancelRequested /\ n.result = s.result
      /\ n.reason = s.reason /\ n.errorKind = s.errorKind
      /\ n.retryable = s.retryable /\ n.ready = s.ready
  BY DEF SnapshotType, BaselineInterrupt
<1>3. Validate(n)
  BY <1>1, <1>2, SMTT(60)
  DEF Sound, Validate, ExecutionMetadataValid, Active, SnapshotType, EnvType
<1>. QED  BY <1>1, <1>2, <1>3 DEF Sound, Active

\* A dead-letter summary leaves the outcome alone.
LEMMA AddDeadLetterFacts ==
  ASSUME NEW O, NEW R, NEW W, NEW s \in SnapshotType(O, R, W), NEW a \in Nat,
         Sound(s),
         NEW n, n = AddDeadLetter(s, a)
  PROVE  /\ n \in SnapshotType(O, R, W) /\ Sound(n)
         /\ n.status = s.status /\ n.attempts = s.attempts
         /\ n.cancelRequested = s.cancelRequested /\ n.result = s.result
         /\ n.reason = s.reason
<1>1. n \in SnapshotType(O, R, W)
  BY SMTT(60) DEF SnapshotType, Statuses, AddDeadLetter
<1>2. /\ n.env = s.env /\ n.status = s.status /\ n.attempts = s.attempts
      /\ n.owner = s.owner /\ n.heartbeat = s.heartbeat /\ n.deadline = s.deadline
      /\ n.cancelRequested = s.cancelRequested /\ n.result = s.result
      /\ n.reason = s.reason /\ n.errorKind = s.errorKind
      /\ n.retryable = s.retryable /\ n.ready = s.ready
  BY DEF SnapshotType, AddDeadLetter
<1>3. Validate(n)
  BY <1>1, <1>2, ZenonT(60)
  DEF Sound, Validate, ExecutionMetadataValid, Active, SnapshotType, EnvType
<1>. QED  BY <1>1, <1>2, <1>3 DEF Sound, Active

\* A committed effect completes the attempt even while it is cancelling.
LEMMA CompleteCommittedFacts ==
  ASSUME NEW O, NEW R, NEW W, NEW s \in SnapshotType(O, R, W), NEW r \in R,
         None \notin R, s.status \in Active, Sound(s),
         NEW n, n = CompleteCommittedEffect(s, r)
  PROVE  /\ n \in SnapshotType(O, R, W) /\ Sound(n)
         /\ n.status = "completed" /\ n.attempts = s.attempts
         /\ n.cancelRequested = s.cancelRequested /\ n.result = r
         /\ n.reason = s.reason
<1>a. PICK c : c = Complete(s, r)  OBVIOUS
<1>b. c \in SnapshotType(O, R, W)
  BY <1>a DEF SnapshotType, Statuses, Complete
<1>c. /\ c.env = s.env /\ c.status = "completed" /\ c.attempts = s.attempts
      /\ c.owner = s.owner /\ c.heartbeat = s.heartbeat /\ c.deadline = s.deadline
      /\ c.cancelRequested = s.cancelRequested /\ c.result = r
      /\ c.reason = s.reason /\ c.errorKind = None /\ c.retryable = None
      /\ c.ready = None
  BY <1>a DEF SnapshotType, Complete
<1>d. PICK b \in BOOLEAN : n = [c EXCEPT !.cancelAccepted = b]
  <2>1. CASE s.status = "cancelling"
    BY <1>a, <2>1 DEF CompleteCommittedEffect
  <2>2. CASE s.status # "cancelling"
    <3>1. c.cancelAccepted \in BOOLEAN  BY <1>b DEF SnapshotType
    <3>. QED  BY <1>a, <2>2, <3>1 DEF CompleteCommittedEffect
  <2>. QED  BY <2>1, <2>2
<1>1. n \in SnapshotType(O, R, W)
  BY <1>b, <1>d, SMTT(60) DEF SnapshotType
<1>e. /\ n.env = c.env /\ n.status = c.status /\ n.attempts = c.attempts
      /\ n.owner = c.owner /\ n.heartbeat = c.heartbeat /\ n.deadline = c.deadline
      /\ n.cancelRequested = c.cancelRequested /\ n.result = c.result
      /\ n.reason = c.reason /\ n.errorKind = c.errorKind /\ n.retryable = c.retryable
      /\ n.ready = c.ready
  BY <1>b, <1>d DEF SnapshotType
<1>3. Validate(n)
  BY <1>1, <1>c, <1>e DEF Sound, Validate, ExecutionMetadataValid, Active, SnapshotType, EnvType
<1>. QED  BY <1>1, <1>c, <1>e, <1>3 DEF Sound, Active

\* A cancellation turns an active attempt into a cancelling one.
LEMMA CancelActiveFacts ==
  ASSUME NEW O, NEW R, NEW W, NEW s \in SnapshotType(O, R, W), NEW why \in W,
         s.status \in Active, Sound(s),
         NEW n, n = RequestCancel(s, why)
  PROVE  /\ n \in SnapshotType(O, R, W) /\ Sound(n)
         /\ n.status = "cancelling" /\ n.attempts = s.attempts
         /\ n.cancelRequested /\ n.result = s.result
         /\ n.reason = s.reason
<1>a. ~IsTerminal(s)  BY DEF IsTerminal, Terminal, Active
<1>b. n = [s EXCEPT !.cancelRequested = TRUE, !.cancelReason = why,
                    !.cancelAccepted = TRUE, !.status = "cancelling"]
  BY <1>a DEF RequestCancel
<1>1. n \in SnapshotType(O, R, W)
  BY <1>b, ZenonT(60) DEF SnapshotType, Statuses
<1>2. /\ n.env = s.env /\ n.status = "cancelling" /\ n.attempts = s.attempts
      /\ n.owner = s.owner /\ n.heartbeat = s.heartbeat /\ n.deadline = s.deadline
      /\ n.cancelRequested = TRUE /\ n.result = s.result
      /\ n.reason = s.reason /\ n.errorKind = s.errorKind
      /\ n.retryable = s.retryable /\ n.ready = s.ready
  BY <1>b DEF SnapshotType
<1>3. Validate(n)
  BY <1>1, <1>2, SMTT(60)
  DEF Sound, Validate, ExecutionMetadataValid, Active, SnapshotType, EnvType
<1>. QED  BY <1>1, <1>2, <1>3 DEF Sound, Active

\* A cancellation of a finished task is only noted.
LEMMA CancelTerminalFacts ==
  ASSUME NEW O, NEW R, NEW W, NEW s \in SnapshotType(O, R, W), NEW why \in W,
         s.status \in Terminal, Sound(s),
         NEW n, n = RequestCancel(s, why)
  PROVE  /\ n \in SnapshotType(O, R, W) /\ Sound(n)
         /\ n.status = s.status /\ n.attempts = s.attempts
         /\ n.cancelRequested /\ n.result = s.result
         /\ n.reason = s.reason
<1>a. IsTerminal(s)  BY DEF IsTerminal
<1>b. n = [s EXCEPT !.cancelRequested = TRUE, !.cancelReason = why,
                    !.cancelAccepted = FALSE, !.status = s.status]
  BY <1>a DEF RequestCancel
<1>1. n \in SnapshotType(O, R, W)
  BY <1>b, ZenonT(60) DEF SnapshotType, Statuses
<1>2. /\ n.env = s.env /\ n.status = s.status /\ n.attempts = s.attempts
      /\ n.owner = s.owner /\ n.heartbeat = s.heartbeat /\ n.deadline = s.deadline
      /\ n.cancelRequested = TRUE /\ n.result = s.result
      /\ n.reason = s.reason /\ n.errorKind = s.errorKind
      /\ n.retryable = s.retryable /\ n.ready = s.ready
  BY <1>b DEF SnapshotType
<1>3. Validate(s)  BY DEF Sound
<1>4. n.owner # None => ExecutionMetadataValid(n)
  BY <1>2, <1>3 DEF Validate, ExecutionMetadataValid
<1>5. Validate(n)
  BY <1>2, <1>3, <1>4 DEF Validate
<1>. QED  BY <1>1, <1>2, <1>5 DEF Sound, Active, Terminal

\* A queued task is cancelled at once.
LEMMA CancelQueuedFacts ==
  ASSUME NEW O, NEW R, NEW W, NEW s \in SnapshotType(O, R, W), NEW why \in W,
         s.status = "queued", Sound(s),
         NEW n, n = MarkCancelled(RequestCancel(s, why))
  PROVE  /\ n \in SnapshotType(O, R, W) /\ Sound(n)
         /\ n.status = "cancelled" /\ n.attempts = s.attempts
         /\ n.cancelRequested /\ n.result = None
         /\ n.reason = s.reason
<1>a. ~IsTerminal(s)  BY DEF IsTerminal, Terminal
<1>b. PICK c : c = RequestCancel(s, why)  OBVIOUS
<1>c. c = [s EXCEPT !.cancelRequested = TRUE, !.cancelReason = why,
                    !.cancelAccepted = TRUE, !.status = "cancelling"]
  BY <1>a, <1>b DEF RequestCancel
<1>d. c \in SnapshotType(O, R, W)
  BY <1>c DEF SnapshotType, Statuses
<1>e. /\ c.env = s.env /\ c.attempts = s.attempts
      /\ c.owner = s.owner /\ c.heartbeat = s.heartbeat /\ c.deadline = s.deadline
      /\ c.reason = s.reason
  BY <1>c DEF SnapshotType
<1>1. n \in SnapshotType(O, R, W)
  BY <1>b, <1>d, ZenonT(60) DEF SnapshotType, Statuses, MarkCancelled
<1>2. /\ n.env = c.env /\ n.status = "cancelled" /\ n.attempts = c.attempts
      /\ n.owner = c.owner /\ n.heartbeat = c.heartbeat /\ n.deadline = c.deadline
      /\ n.cancelRequested = TRUE /\ n.result = None
      /\ n.reason = c.reason /\ n.errorKind = None
      /\ n.retryable = None /\ n.ready = None
  BY <1>b, <1>d DEF SnapshotType, MarkCancelled
<1>f. n.owner = None  BY <1>2, <1>e DEF Sound
<1>g. n.attempts <= n.env.max  BY <1>2, <1>e DEF Sound, Validate
<1>3. Validate(n)
  BY <1>2, <1>f, <1>g DEF Validate
<1>. QED  BY <1>1, <1>2, <1>3, <1>e DEF Sound, Active
=============================================================================
