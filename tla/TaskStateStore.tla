---------------------------- MODULE TaskStateStore ----------------------------
(***************************************************************************)
(* FileSystemTaskStateStore: the record files of eva-storage's task store  *)
(* and the optimistic transactions the daemon's threads run on them.       *)
(*                                                                         *)
(* Every mutating operation reads a record without a lock, computes a      *)
(* candidate from what it read, and hands it to commit_snapshot.  That     *)
(* takes the writer and record locks, verifies the writer, the owner       *)
(* generation, the transition and the version, writes the canonical file   *)
(* and then, as a second atomic file write, the `latest` alias.  Between   *)
(* read and commit other threads commit; between the two writes the        *)
(* process may die or the second write may fail.                           *)
(***************************************************************************)
EXTENDS TaskRecord

CONSTANTS
  Tasks, Env, Owners, Results, Reasons, MaxTime, MaxGen,   \* as TaskLifecycle
  Threads,    \* threads of the daemon that call the store
  MaxVersion  \* bound on commits of one record

VARIABLES
  file,       \* canonical file of each task: [version, snap], or None
  latest,     \* the alias: a copy of some record, or None
  txn,        \* the operation each thread has in flight, or None
  lock,       \* the thread inside commit_snapshot, or None
  held,       \* the claim each execution owner keeps: [task, fence], or None
  gen, serving, now

vars == <<file, latest, txn, lock, held, gen, serving, now>>

ASSUME ThreadsAssumption == None \notin Threads /\ Owners \subseteq Threads
ASSUME MaxVersionAssumption == MaxVersion \in Nat \ {0}

\* What TaskLifecycle assumes of the parameters they share.
ASSUME RecordAssumption ==
  /\ None \notin Int \cup BOOLEAN \cup {"error", "timeout", UnknownEffect, RestartNote}
  /\ Env \in [Tasks -> EnvType]
  /\ None \notin Owners \cup Results \cup Reasons
  /\ MaxTime \in Nat /\ MaxGen \in Nat \ {0}

\* What the store and its threads keep.
Snapshots == SnapshotType(Owners, Results, Reasons)
Modes == {"Create", "CompareAndSet", "Heartbeat", "AttemptOutcome", "RetryRequeue",
          "RestartRecovery"}
Files == [version : 1..MaxVersion, snap : Snapshots]
Proposals ==
  [task : Tasks, base : Nat, read : Snapshots \cup {None}, cand : Snapshots, mode : Modes,
   stage : {"commit", "alias", "refresh"}]
Claims ==
  [task : Tasks, fence : [generation : Nat, owner : Owners \cup {None}, attempt : Nat]]
Aliases == [task : Tasks, version : 1..MaxVersion]

ASSUME AbsenceAssumption ==
  None \notin Snapshots /\ None \notin Files /\ None \notin Proposals /\ None \notin Claims
    /\ None \notin Aliases

Snap(t) == IF file[t] = None THEN None ELSE file[t].snap
Version(t) == IF file[t] = None THEN 0 ELSE file[t].version

Init ==
  /\ file = [t \in Tasks |-> None]
  /\ latest = None /\ lock = None
  /\ txn = [c \in Threads |-> None]
  /\ held = [o \in Owners |-> None]
  /\ gen = 1 /\ serving = FALSE /\ now = 0

-----------------------------------------------------------------------------
(* An operation is a proposal: the version and record it read, the         *)
(* candidate it computed and the commit mode it passes on.                 *)

Proposal(t, cand, mode) ==
  [task |-> t, base |-> Version(t), read |-> Snap(t), cand |-> cand,
   mode |-> mode, stage |-> "commit"]

Propose(c, t, cand, mode) ==
  /\ txn[c] = None
  /\ txn' = [txn EXCEPT ![c] = Proposal(t, cand, mode)]
  /\ UNCHANGED <<file, latest, lock, held, gen, serving, now>>

Stored(t) == serving /\ file[t] # None

Create(c, t) ==
  serving /\ file[t] = None /\ Propose(c, t, QueuedSnapshot(Env[t]), "Create")

TryClaimQueued(o, t) ==
  /\ Stored(t) /\ held[o] = None /\ Claimable(Snap(t))
  /\ Propose(o, t, ClaimForExecution(Snap(t), o, now), "CompareAndSet")

\* Calls of the attempt that o holds; c is the worker thread or its heartbeat.
WithFence(o, t) ==
  Stored(t) /\ held[o] # None /\ held[o].task = t /\ VerifyFence(Snap(t), held[o].fence)

HeartbeatExecution(c, o, t) ==
  /\ WithFence(o, t) /\ Snap(t).status \in Active /\ now > Snap(t).heartbeat
  /\ Propose(c, t, TouchHeartbeat(Snap(t), now), "Heartbeat")

FinishExecution(o, t, out) ==
  /\ WithFence(o, t) /\ Snap(t).status \in Active
  /\ Propose(o, t, IF Snap(t).status = "running" THEN ApplyOutcome(Snap(t), out, now)
                   ELSE MarkCancelled(Snap(t)), "AttemptOutcome")

FinishCommittedEffect(o, t, r) ==
  /\ WithFence(o, t) /\ Snap(t).status \in Active
  /\ Propose(o, t, CompleteCommittedEffect(Snap(t), r), "AttemptOutcome")

BlockPreparedEffect(o, t) ==
  /\ WithFence(o, t) /\ Snap(t).status \in Active
  /\ Propose(o, t, BlockUnknownEffect(Snap(t)), "AttemptOutcome")

RequestExecutionCancellation(c, o, t, why) ==
  /\ WithFence(o, t) /\ Snap(t).status \in Active /\ ~Snap(t).cancelRequested
  /\ Propose(c, t, RequestCancel(Snap(t), why), "CompareAndSet")

RequestCancellation(c, t, why) ==
  /\ Stored(t) /\ ~(Snap(t).cancelRequested /\ Snap(t).cancelReason = why)
  /\ LET asked == RequestCancel(Snap(t), why)
     IN Propose(c, t, IF Snap(t).status = "queued" THEN MarkCancelled(asked) ELSE asked,
                "CompareAndSet")

RequeueRetryable(c, t) ==
  /\ Stored(t) /\ RetryStepEnabled(Snap(t), now)
  /\ Propose(c, t, RetryStep(Snap(t), now), "RetryRequeue")

CheckpointEvidence(c, t) ==
  /\ Stored(t) /\ ~Snap(t).env.replay /\ Snap(t).status \in {"failed", "timed_out"}
  /\ Snap(t).retryable # None /\ Snap(t).attempts \notin Snap(t).deadLetters
  /\ Propose(c, t, AddDeadLetter(Snap(t), Snap(t).attempts), "CompareAndSet")

RecoverReplayDelivery(c, t) ==
  /\ file[t] # None /\ Snap(t).env.replay /\ Abandoned(Snap(t))
  /\ ~(Snap(t).status = "running" /\ Snap(t).generation = gen)
  /\ Propose(c, t, Requeue(Snap(t)), "RetryRequeue")

-----------------------------------------------------------------------------
(* Restart recovery runs alone, before the threads above are started.      *)

Recoverable(t) == ~serving /\ file[t] # None /\ Snap(t).generation # gen

RecoverAbandonedTask(c, t) ==
  /\ Recoverable(t) /\ ~Snap(t).env.replay /\ Abandoned(Snap(t))
  /\ Propose(c, t, Requeue(Snap(t)), "RetryRequeue")

InterruptAfterRestart(c, t) ==
  /\ Recoverable(t) /\ Snap(t).status \in Active
  /\ \E cand \in {BaselineInterrupt(Snap(t)), MarkInterrupted(Snap(t))} :
       Propose(c, t, cand, "CompareAndSet")

RecoverFromCommittedEffect(c, t, r) ==
  /\ Recoverable(t) /\ Snap(t).status # "completed"
  /\ Propose(c, t, RecoverCommitted(Snap(t), r), "RestartRecovery")

BlockForUnknownEffect(c, t) ==
  /\ Recoverable(t) /\ Snap(t).status # "completed" /\ ~RequiresOperator(Snap(t))
  /\ Propose(c, t, BlockUnknownEffect(Snap(t)), "RestartRecovery")

-----------------------------------------------------------------------------
(* commit_snapshot.                                                        *)

\* Fault: last writer wins.
VersionMatchesFault(x) == TRUE

VersionMatches(x) == Version(x.task) = x.base

\* What commit_snapshot checks besides the version.
Admissible(x) ==
  /\ Validate(x.cand)
  /\ file[x.task] # None =>
       /\ Snap(x.task).generation = x.cand.generation
       /\ Snap(x.task).env = x.cand.env
       /\ x.mode # "Create"
       /\ TransitionAllowed(Snap(x.task), x.cand, x.mode)

Commit(c) ==
  /\ txn[c] # None /\ txn[c].stage = "commit" /\ lock = None
  /\ LET x == txn[c]
     IN /\ VersionMatches(x) /\ Admissible(x) /\ x.base < MaxVersion
        /\ file' = [file EXCEPT ![x.task] =
                      [version |-> x.base + 1, snap |-> [x.cand EXCEPT !.generation = gen]]]
        /\ txn' = [txn EXCEPT ![c].stage = "alias"]
        /\ lock' = c
  /\ UNCHANGED <<latest, held, gen, serving, now>>

\* The claim a worker holds once its claim transaction returned.
Claimed(x) ==
  [task |-> x.task,
   fence |-> [generation |-> gen, owner |-> x.cand.owner, attempt |-> x.cand.attempts]]

IsClaimTxn(c, x) == c \in Owners /\ x.mode = "CompareAndSet" /\ x.cand.status = "running"

HeldAfter(c, x) ==
  IF IsClaimTxn(c, x) THEN [held EXCEPT ![c] = Claimed(x)]
  ELSE IF c \in Owners /\ x.mode = "AttemptOutcome" THEN [held EXCEPT ![c] = None]
  ELSE held

WriteLatest(c) ==
  /\ lock = c /\ txn[c].stage = "alias"
  /\ latest' = [task |-> txn[c].task, version |-> Version(txn[c].task)]
  /\ held' = HeldAfter(c, txn[c])
  /\ txn' = [txn EXCEPT ![c] = None] /\ lock' = None
  /\ UNCHANGED <<file, gen, serving, now>>

\* The operations whose retry loop recognises its own commit and repairs the
\* alias with refresh_latest: claims, outcomes and cancellation requests.  The
\* loops of the others find nothing left to do and return.
RepairsLatest(c, x) ==
  \/ IsClaimTxn(c, x)
  \/ x.mode = "AttemptOutcome"
  \/ x.mode = "CompareAndSet" /\ x.cand.cancelReason # x.read.cancelReason

\* The alias write fails: the caller gets an error although its record is
\* committed, and re-reads it.
LatestWriteFails(c) ==
  /\ lock = c /\ txn[c].stage = "alias"
  /\ txn' = [txn EXCEPT ![c] = IF txn[c].mode # "Create" /\ RepairsLatest(c, txn[c])
                               THEN [txn[c] EXCEPT !.stage = "refresh"] ELSE None]
  /\ lock' = None
  /\ UNCHANGED <<file, latest, held, gen, serving, now>>

\* try_claim_queued keeps a claim it finds again only while the record is still
\* running under its token; the other loops just refresh.
StillOwnClaim(x) ==
  Snap(x.task).status = "running" /\ VerifyFence(Snap(x.task), Claimed(x).fence)

\* Fault: the alias is repaired with the record this call committed.
RefreshLatestFault(c) ==
  /\ txn[c] # None /\ txn[c].stage = "refresh" /\ lock = None
  /\ LET x    == txn[c]
         lost == IsClaimTxn(c, x) /\ ~StillOwnClaim(x)
     IN /\ latest' = IF lost THEN latest ELSE [task |-> x.task, version |-> x.base + 1]
        /\ held' = IF lost THEN held ELSE HeldAfter(c, x)
  /\ txn' = [txn EXCEPT ![c] = None]
  /\ UNCHANGED <<file, lock, gen, serving, now>>

RefreshLatest(c) ==
  /\ txn[c] # None /\ txn[c].stage = "refresh" /\ lock = None
  /\ LET x    == txn[c]
         lost == IsClaimTxn(c, x) /\ ~StillOwnClaim(x)
     IN /\ latest' = IF lost THEN latest ELSE [task |-> x.task, version |-> Version(x.task)]
        /\ held' = IF lost THEN held ELSE HeldAfter(c, x)
  /\ txn' = [txn EXCEPT ![c] = None]
  /\ UNCHANGED <<file, lock, gen, serving, now>>

\* The repair fails as well: the caller has an error, a claim or an outcome is
\* committed all the same.
RefreshFails(c) ==
  /\ txn[c] # None /\ txn[c].stage = "refresh" /\ lock = None
  /\ txn' = [txn EXCEPT ![c] = None]
  /\ UNCHANGED <<file, latest, lock, held, gen, serving, now>>

\* Fault: a claim that lost the race takes any running record for its own.
RefuseFault(c) ==
  /\ txn[c] # None /\ txn[c].stage = "commit" /\ lock = None
  /\ ~(VersionMatches(txn[c]) /\ Admissible(txn[c]))
  /\ held' = IF IsClaimTxn(c, txn[c]) /\ Snap(txn[c].task).status = "running"
             THEN HeldAfter(c, txn[c]) ELSE held
  /\ txn' = [txn EXCEPT ![c] = None]
  /\ UNCHANGED <<file, latest, lock, gen, serving, now>>

\* Version conflict or refusal: nothing is written.  The caller re-reads and
\* decides again, which is a new proposal, or gives up.
Refuse(c) ==
  /\ txn[c] # None /\ txn[c].stage = "commit" /\ lock = None
  /\ ~(VersionMatches(txn[c]) /\ Admissible(txn[c]))
  /\ txn' = [txn EXCEPT ![c] = None]
  /\ UNCHANGED <<file, latest, lock, held, gen, serving, now>>

\* The canonical file cannot be replaced; the old one stays.  A failure after
\* the rename is Commit followed by LatestWriteFails.
WriteFails(c) ==
  /\ txn[c] # None /\ txn[c].stage = "commit" /\ lock = None
  /\ VersionMatches(txn[c]) /\ Admissible(txn[c])
  /\ txn' = [txn EXCEPT ![c] = None]
  /\ UNCHANGED <<file, latest, lock, held, gen, serving, now>>

StartServing ==
  /\ ~serving /\ \A c \in Threads : txn[c] = None
  /\ \A t \in Tasks : file[t] # None /\ Snap(t).generation # gen => Snap(t).status \notin Active
  /\ serving' = TRUE /\ UNCHANGED <<file, latest, txn, lock, held, gen, now>>

\* The process dies: in-flight transactions and claims in memory are gone, the
\* files stay, and the next owner has the next generation.
Restart ==
  /\ gen < MaxGen /\ gen' = gen + 1 /\ serving' = FALSE
  /\ txn' = [c \in Threads |-> None] /\ lock' = None
  /\ held' = [o \in Owners |-> None]
  /\ UNCHANGED <<file, latest, now>>

Tick == /\ now < MaxTime /\ now' = now + 1
        /\ UNCHANGED <<file, latest, txn, lock, held, gen, serving>>

-----------------------------------------------------------------------------
Outcomes ==
  {Outcome("completed", r, None, None) : r \in Results}
    \cup {Outcome("failed", None, "error", b) : b \in BOOLEAN}
    \cup {Outcome("timed_out", None, "timeout", b) : b \in BOOLEAN}

\* The worker thread of owner o, with the store operations of one attempt.
Worker(o) ==
  \E t \in Tasks :
    \/ TryClaimQueued(o, t)
    \/ \E out \in Outcomes : FinishExecution(o, t, out)
    \/ \E r \in Results : FinishCommittedEffect(o, t, r)
    \/ BlockPreparedEffect(o, t)
    \/ CheckpointEvidence(o, t)

\* Heartbeat, control and scheduler threads share the store with the worker.
Service(c) ==
  \E t \in Tasks :
    \/ Create(c, t)
    \/ \E o \in Owners : HeartbeatExecution(c, o, t)
    \/ \E o \in Owners, why \in Reasons : RequestExecutionCancellation(c, o, t, why)
    \/ \E why \in Reasons : RequestCancellation(c, t, why)
    \/ RequeueRetryable(c, t)
    \/ RecoverReplayDelivery(c, t)

Recovery(c) ==
  \E t \in Tasks :
    \/ RecoverAbandonedTask(c, t)
    \/ InterruptAfterRestart(c, t)
    \/ \E r \in Results : RecoverFromCommittedEffect(c, t, r)
    \/ BlockForUnknownEffect(c, t)

Next ==
  \/ \E o \in Owners : Worker(o)
  \/ \E c \in Threads \ Owners : Service(c) \/ Recovery(c)
  \/ \E c \in Threads :
       \/ Commit(c) \/ WriteLatest(c) \/ RefreshLatest(c) \/ RefreshFails(c)
       \/ WriteFails(c) \/ LatestWriteFails(c) \/ Refuse(c)
  \/ StartServing
  \/ Restart
  \/ Tick

Spec == Init /\ [][Next]_vars

-----------------------------------------------------------------------------
(* Properties.                                                             *)

\* The shape of the files, the alias and the transactions in flight.
TypeOK ==
  /\ \A t \in Tasks : file[t] # None =>
       file[t].version \in 1..MaxVersion /\ file[t].snap.status \in Statuses
  /\ latest # None => latest.task \in Tasks /\ latest.version \in 1..MaxVersion
  /\ \A c \in Threads : txn[c] # None => txn[c].stage \in {"commit", "alias", "refresh"}
  /\ lock \in Threads \cup {None}
  /\ gen \in 1..MaxGen /\ serving \in BOOLEAN /\ now \in 0..MaxTime

\* Optimistic transactions compose to indivisible operations: with reads that
\* race commits, failed alias writes and restarts, the canonical files move
\* exactly as TaskLifecycle's one-step operations move the record.
Lifecycle == INSTANCE TaskLifecycle WITH rec <- [t \in Tasks |-> Snap(t)]
LifecycleSpec == Lifecycle!Spec

\* A candidate whose base is still current is never turned down by
\* commit_snapshot's own validation: the operations' guards imply the
\* transition table, so a refusal always means that the record moved.
OnlyConflictsRefuse ==
  \A c \in Threads : txn[c] # None /\ txn[c].stage = "commit" /\ VersionMatches(txn[c]) =>
    Admissible(txn[c])

\* Two workers never both believe they run the same attempt of a task.
AttemptHeldOnce ==
  \A o, p \in Owners :
    held[o] # None /\ held[p] # None /\ held[o].task = held[p].task
      /\ held[o].fence.attempt = held[p].fence.attempt => o = p

\* One thread at most believes that it holds a given attempt of a task, whatever
\* it read before the commit that gave the attempt away, and the store's files
\* and transactions keep their shape.
ClaimsAreExact == TypeOK /\ AttemptHeldOnce

LatestNeverRewinds ==
  [][latest # None /\ latest'.task = latest.task => latest'.version >= latest.version]_vars

\* A record that is running or cancelling under the current writer has someone
\* to finish it: an owner holding the claim, or a transaction about to hold it.
ActiveHasHolder ==
  \A t \in Tasks : Stored(t) /\ Snap(t).status \in Active =>
    \/ \E o \in Owners : held[o] # None /\ held[o].task = t
    \/ \E o \in Owners : txn[o] # None /\ txn[o].task = t
=============================================================================
