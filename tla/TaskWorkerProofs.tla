--------------------------- MODULE TaskWorkerProofs ---------------------------
(***************************************************************************)
(* The daemon's task execution, for every set of tasks, keys, operations,  *)
(* results and envelopes and every bound on time and generations: its      *)
(* steps are steps of TaskLifecycle and of EffectOnce, a cancellation      *)
(* reaches the running attempt, a clean stop leaves nothing half done, and *)
(* recovery settles every task the ledger knows before the daemon serves.  *)
(*                                                                         *)
(* None of this is inductive alone.  IInv says where each thread stands    *)
(* relative to the files: the worker's attempt is the one its record names *)
(* (AttemptIsLive), the ledger record under it is its own and as far as    *)
(* the attempt got (AttemptOwnsRecord), a durable cancellation is on its   *)
(* way to the attempt (CancelUnderWay), a letter is on its task or about   *)
(* to be (LettersFollow), and recovery has settled what it visited         *)
(* (RecoveredSoFar).                                                       *)
(***************************************************************************)
EXTENDS TaskWorker, TaskRecordProofs

\* TaskLifecycle's proofs, under the mapping of TaskWorker's Lifecycle.
LP == INSTANCE TaskLifecycleProofs WITH
        serving <- Serving, Owners <- {Owner}, Reasons <- {"operator", "shutdown"}

Outcomes == {Completed(r) : r \in Results} \cup HandlerErrors

Resting == {"idle", "exited", "dead"}
Dispatched == {"dispatch", "prepare", "prepared", "handling", "returned"}
Attempting == {"claimed", "registered", "finish"} \cup Dispatched
Reporting == {"evidence", "checkpoint"}

WorkerType ==
  wk \in [pc : Resting \cup Attempting \cup Reporting, task : Tasks \cup {None},
          fence : Fences \cup {None}, active : BOOLEAN, cancel : BOOLEAN,
          cap : {"pending", "accepted", "revoked"}, hbError : BOOLEAN, quiet : BOOLEAN,
          fin : {None, "plain", "effect", "committed", "block"}, out : Outcomes \cup {None}]

ControlType ==
  ctl \in [pc : {"idle", "signal"} \cup DrainSteps, task : Tasks \cup {None},
           fence : Fences \cup {None}]

FileType ==
  /\ ledger \in [Keys -> EffectRecords \cup {None}] /\ calls \in [Keys -> Nat]
  /\ letters \subseteq [task : Tasks, attempt : Nat, by : 1..gen]
  /\ phase \in {"recovering", "startFailed", "serving", "stopped", "drainFailed"}
  /\ scan \subseteq Tasks /\ gate \in BOOLEAN

\* A record keeps its envelope and was written by a generation that existed.
RecordOrigin ==
  \A t \in Tasks : Exists(t) => rec[t].env = Env[t] /\ rec[t].generation \in 1..gen

\* Who works on what: nobody while the daemon recovers, and only on records that
\* exist.
ThreadsAtWork ==
  /\ ~Serving => wk.pc = "idle" /\ ctl.pc = "idle"
  /\ wk.pc \notin Resting => wk.task \in Tasks /\ Exists(wk.task)
  /\ wk.active => wk.pc \notin Resting \cup {"claimed"}
  /\ wk.pc \in Dispatched \cup {"registered"} => wk.active
  /\ wk.active => wk.fence \in Fences /\ wk.fence.generation = gen
  /\ ctl.pc = "drainCancel" => ctl.fence \in Fences /\ ctl.fence.generation = gen
  /\ ctl.pc \in {"signal", "drainCancel", "drainSignal"} => ctl.task \in Tasks /\ Exists(ctl.task)

AttemptIsLive ==
  wk.pc \in Attempting =>
    /\ Me.status \in Active /\ Me.generation = gen /\ Me.owner = Owner
    /\ wk.fence = [generation |-> gen, owner |-> Owner, attempt |-> Me.attempts]

\* The operation behind a key starts after its record is durable, and its result
\* is learnt after it started.
LedgerCounts ==
  \A k \in Keys :
    IF ledger[k] = None THEN calls[k] = 0
    ELSE IF Committed(ledger[k]) THEN calls[k] = 1 /\ ledger[k].result \in Results
    ELSE calls[k] \in {0, 1}

AttemptOwnsRecord ==
  /\ wk.pc \in {"prepare", "prepared", "returned"} => wk.task \in Effectful
  /\ wk.pc \in {"prepared", "handling", "returned"} /\ wk.task \in Effectful =>
       /\ PreparedBy(ledger[MyKey], MyOp, wk.task, wk.fence) /\ ~Committed(ledger[MyKey])
       /\ calls[MyKey] = IF wk.pc = "prepared" THEN 0 ELSE 1
  /\ wk.pc = "returned" => wk.out \in Outcomes
  /\ wk.pc = "finish" =>
       /\ wk.out \in Outcomes
       /\ wk.fin = "committed" =>
            /\ wk.task \in Effectful /\ Committed(ledger[MyKey]) /\ ledger[MyKey].op = MyOp
            /\ wk.out = Completed(ledger[MyKey].result)
       /\ wk.fin # "committed" /\ wk.task \in Effectful => wk.out.status # "completed"

CancelUnderWay ==
  phase = "serving" /\ wk.pc \in Dispatched /\ Me.cancelRequested =>
    wk.cancel \/ (ctl.pc \in {"signal", "drainSignal"} /\ ctl.task = wk.task)

LettersFollow ==
  /\ SummaryHasLetter
  /\ \A l \in letters : Exists(l.task)
  /\ wk.pc = "checkpoint" => HasLetter(wk.task, Me.attempts)
  /\ \A l \in letters : l.by = gen =>
       \/ l.attempt \in rec[l.task].deadLetters \/ wk.pc = "dead"
       \/ wk.pc = "checkpoint" /\ wk.task = l.task /\ l.attempt = Me.attempts

StopIsClean ==
  phase = "stopped" =>
    wk.pc = "exited" /\ \A t \in Tasks : Exists(t) => rec[t].status \notin Active

\* Record s of task t says what the ledger says.
Settles(t, s) ==
  t \in Effectful /\ ledger[KeyOf[t]] # None =>
    IF Committed(ledger[KeyOf[t]])
    THEN s.status = "completed" /\ s.result = ledger[KeyOf[t]].result
    ELSE RequiresOperator(s)

RecoveredSoFar ==
  phase = "recovering" => \A t \in Tasks :
    /\ t \in scan => Exists(t) /\ rec[t].generation # gen
    /\ t \notin scan /\ Exists(t) =>
         Settles(t, rec[t]) /\ (rec[t].generation # gen => rec[t].status \notin Active)

IInv ==
  /\ LP!IInv /\ WorkerType /\ ControlType /\ FileType
  /\ RecordOrigin /\ ThreadsAtWork /\ AttemptIsLive /\ LedgerCounts /\ AttemptOwnsRecord
  /\ CancelUnderWay /\ LettersFollow /\ StopIsClean /\ RecoveredSoFar

-----------------------------------------------------------------------------
(* What the lemmas below keep using.                                       *)

\* None is none of the values it is told apart from.
LEMMA NoneFacts ==
  /\ None \notin Int /\ None \notin BOOLEAN /\ None \notin {"error", "timeout"}
  /\ Owner # None /\ None \notin Results /\ None \notin {"operator", "shutdown"}
  /\ None \notin Tasks /\ Effectful \subseteq Tasks
  /\ \A t \in Tasks : KeyOf[t] \in Keys
  /\ None \notin Snapshots /\ None \notin EffectRecords
BY RecordAssumption, WorkerAssumption, AbsenceAssumption

\* A stored record is well typed and sound, in this module's terms.
LEMMA RecordFacts ==
  ASSUME LP!IInv, NEW t \in Tasks, Exists(t)
  PROVE  rec[t] \in Snapshots /\ Sound(rec[t])
<1>1. rec[t] \in Snapshots
  BY DEF LP!IInv, LP!TypeOK, Exists, Snapshots, LP!SnapshotType, SnapshotType,
         LP!EnvType, EnvType, LP!Statuses, Statuses, LP!UnknownEffect, UnknownEffect,
         LP!RestartNote, RestartNote
<1>2. LP!Sound(rec[t])
  BY DEF LP!IInv, LP!Exists, Exists
<1>3. Sound(rec[t])
  BY <1>2 DEF LP!Sound, Sound, LP!Validate, Validate, LP!ExecutionMetadataValid,
     ExecutionMetadataValid, LP!Active, Active
<1>. QED  BY <1>1, <1>3

\* The clock, the generation and the table of records.
LEMMA StoreFacts ==
  ASSUME LP!IInv
  PROVE  /\ gen \in 1..MaxGen /\ now \in 0..MaxTime /\ gen \in Nat /\ now \in Nat
         /\ rec \in [Tasks -> Snapshots \cup {None}]
<1>1. gen \in 1..MaxGen /\ now \in 0..MaxTime  BY DEF LP!IInv, LP!TypeOK
<1>2. gen \in Nat /\ now \in Nat  BY <1>1, RecordAssumption
<1>3. rec \in [Tasks -> Snapshots \cup {None}]
  BY DEF LP!IInv, LP!TypeOK, Snapshots, LP!SnapshotType, SnapshotType,
         LP!EnvType, EnvType, LP!Statuses, Statuses, LP!UnknownEffect, UnknownEffect,
         LP!RestartNote, RestartNote
<1>. QED  BY <1>1, <1>2, <1>3

\* A step of TaskLifecycle keeps what its own proofs established.
LEMMA LifecycleStep ==
  ASSUME LP!IInv, [LP!Next]_(LP!vars)  PROVE LP!IInv'
BY LP!NextStep, RecordAssumption, WorkerAssumption
   DEF EnvType, LP!EnvType, UnknownEffect, LP!UnknownEffect, RestartNote, LP!RestartNote

\* So does a step that leaves the store alone.
LEMMA SameStore ==
  ASSUME LP!IInv, UNCHANGED <<rec, gen, now, phase>>  PROVE LP!IInv'
<1>1. UNCHANGED LP!vars  BY DEF LP!vars, Serving
<1>. QED  BY <1>1, LifecycleStep

-----------------------------------------------------------------------------
(* Steps of the worker inside an attempt, which leave the records alone.   *)

\* The record under the worker's attempt.
LEMMA AttemptFacts ==
  ASSUME IInv, wk.pc \in Attempting
  PROVE  /\ Serving /\ phase # "stopped" /\ phase # "recovering"
         /\ wk.task \in Tasks /\ Exists(wk.task)
         /\ Me \in Snapshots /\ Sound(Me)
         /\ Me.status \in Active /\ Me.generation = gen /\ Me.owner = Owner
         /\ wk.fence \in Fences /\ wk.fence.generation = gen
         /\ wk.fence = [generation |-> gen, owner |-> Owner, attempt |-> Me.attempts]
         /\ MyKey \in Keys
<1>1. Serving  BY DEF IInv, ThreadsAtWork, Attempting, Dispatched
<1>2. phase # "stopped" /\ phase # "recovering"
  BY <1>1 DEF IInv, StopIsClean, Attempting, Dispatched, Serving
<1>3. wk.task \in Tasks /\ Exists(wk.task)
  BY DEF IInv, ThreadsAtWork, Attempting, Dispatched, Resting
<1>4. Me \in Snapshots /\ Sound(Me)  BY <1>3, RecordFacts DEF IInv, Me
<1>5. /\ Me.status \in Active /\ Me.generation = gen /\ Me.owner = Owner
      /\ wk.fence = [generation |-> gen, owner |-> Owner, attempt |-> Me.attempts]
  BY DEF IInv, AttemptIsLive
<1>6. Me.attempts \in Nat  BY <1>4 DEF Snapshots, SnapshotType
<1>7. gen \in Nat  BY StoreFacts DEF IInv
<1>8. wk.fence \in Fences /\ wk.fence.generation = gen  BY <1>5, <1>6, <1>7 DEF Fences
<1>. QED  BY <1>1, <1>2, <1>3, <1>4, <1>5, <1>8, NoneFacts DEF MyKey

\* A step of the attempt between two of its stages leaves the rest of IInv.
LEMMA AttemptMoves ==
  ASSUME IInv, WorkerStep, rec' = rec, letters' = letters,
         wk.pc \in Attempting, wk'.pc \in Attempting \ {"claimed"},
         WorkerType', wk'.task = wk.task, wk'.fence = wk.fence,
         wk'.pc # "finish" => wk'.active,
         wk'.pc \in Dispatched => wk.pc \in Dispatched \/ ~Me.cancelRequested,
         wk.cancel => wk'.cancel,
         ledger' \in [Keys -> EffectRecords \cup {None}], calls' \in [Keys -> Nat],
         LedgerCounts', AttemptOwnsRecord'
  PROVE  IInv'
<1>u. UNCHANGED <<rec, letters, gen, now, phase, scan, gate, ctl>>  BY DEF WorkerStep
<1>e. \A t : Exists(t)' <=> Exists(t)  BY <1>u DEF Exists
<1>m. Me' = Me  BY <1>u DEF Me
<1>s. Serving' = Serving  BY <1>u DEF Serving
<1>1. LP!IInv'  BY <1>u, SameStore DEF IInv
<1>2. ControlType' /\ FileType' /\ RecordOrigin'
  BY <1>u, <1>e DEF IInv, ControlType, FileType, RecordOrigin
<1>3. ThreadsAtWork'
  <2>1. Serving' /\ wk'.task \in Tasks /\ rec'[wk'.task] # None
    BY <1>s, <1>u, AttemptFacts DEF Exists
  <2>2. wk'.fence \in Fences /\ wk'.fence.generation = gen'  BY <1>u, AttemptFacts
  <2>3. /\ wk'.pc \notin Resting \cup {"claimed"}
        /\ wk'.pc \in Dispatched \cup {"registered"} => wk'.pc # "finish"
    BY DEF Attempting, Dispatched, Resting
  <2>4. ctl'.pc \in {"signal", "drainCancel", "drainSignal"} => ctl'.task \in Tasks /\ rec'[ctl'.task] # None
    BY <1>u DEF IInv, ThreadsAtWork, Exists
  <2>5. ctl'.pc = "drainCancel" => ctl'.fence \in Fences /\ ctl'.fence.generation = gen'
    BY <1>u DEF IInv, ThreadsAtWork
  <2>. QED  BY <2>1, <2>2, <2>3, <2>4, <2>5 DEF ThreadsAtWork, Exists
<1>4. AttemptIsLive'
  BY <1>u, <1>m, AttemptFacts DEF AttemptIsLive
<1>5. CancelUnderWay'
  BY <1>u, <1>m DEF IInv, CancelUnderWay
<1>6. LettersFollow'
  <2>1. SummaryHasLetter' /\ \A l \in letters' : Exists(l.task)'
    BY <1>u, <1>e DEF IInv, LettersFollow, SummaryHasLetter, HasLetter
  <2>2. wk'.pc # "checkpoint" /\ wk.pc # "dead" /\ wk.pc # "checkpoint"
    BY DEF Attempting, Dispatched
  <2>. QED  BY <1>u, <2>1, <2>2 DEF IInv, LettersFollow
<1>7. StopIsClean' /\ RecoveredSoFar'
  BY <1>u, AttemptFacts DEF StopIsClean, RecoveredSoFar
<1>. QED  BY <1>1, <1>2, <1>3, <1>4, <1>5, <1>6, <1>7 DEF IInv

\* What the outcomes of a handler look like.
LEMMA OutcomeFacts ==
  /\ \A b \in BOOLEAN : /\ Failed(b) \in Outcomes /\ Failed(b).status = "failed"
                        /\ TimedOut(b) \in Outcomes /\ TimedOut(b).status = "timed_out"
  /\ \A r \in Results : /\ Completed(r) \in Outcomes /\ Completed(r).status = "completed"
                        /\ Completed(r).result = r
<1>1. \A r \in Results : Completed(r) \in Outcomes  BY DEF Outcomes
<1>2. \A b \in BOOLEAN : Failed(b) \in Outcomes /\ TimedOut(b) \in Outcomes
  BY DEF Outcomes, HandlerErrors
<1>3. \A r : Completed(r).status = "completed" /\ Completed(r).result = r
  BY DEF Completed, Outcome
<1>4. \A b : Failed(b).status = "failed" /\ TimedOut(b).status = "timed_out"
  BY DEF Failed, TimedOut, Outcome
<1>. QED  BY <1>1, <1>2, <1>3, <1>4

\* A decision other than "committed" leaves the ledger as it is.
LEMMA DecidedKeeps ==
  ASSUME IInv, WorkerStep, UNCHANGED <<rec, letters, ledger, calls>>,
         wk.pc \in Attempting,
         NEW fin \in {"plain", "effect", "block"}, NEW out \in Outcomes,
         wk.task \in Effectful => out.status # "completed",
         WorkerType', wk'.pc = "finish", wk'.task = wk.task, wk'.fence = wk.fence,
         wk.cancel => wk'.cancel, wk'.fin = fin, wk'.out = out
  PROVE  IInv'
<1>1. wk'.pc \in Attempting \ {"claimed"} /\ wk'.pc \notin Dispatched
  BY DEF Attempting, Dispatched
<1>2. ledger' \in [Keys -> EffectRecords \cup {None}] /\ calls' \in [Keys -> Nat]
  BY DEF IInv, FileType
<1>3. LedgerCounts'  BY DEF IInv, LedgerCounts
<1>4. AttemptOwnsRecord'
  BY OutcomeFacts DEF AttemptOwnsRecord
<1>. QED  BY <1>1, <1>2, <1>3, <1>4, AttemptMoves

\* A decision that no commit stands behind.
LEMMA Decided ==
  ASSUME IInv, WorkerStep, UNCHANGED <<rec, letters, ledger, calls>>,
         wk.pc \in Attempting,
         NEW fin \in {"plain", "effect", "block"}, NEW out \in Outcomes,
         wk.task \in Effectful => out.status # "completed",
         Decide(fin, out)
  PROVE  IInv'
<1>1. wk' = [wk EXCEPT !.pc = "finish", !.fin = fin, !.out = out]  BY DEF Decide
<1>2. /\ WorkerType' /\ wk'.pc = "finish" /\ wk'.task = wk.task /\ wk'.fence = wk.fence
      /\ wk'.cancel = wk.cancel /\ wk'.fin = fin /\ wk'.out = out
  BY <1>1 DEF IInv, WorkerType, Attempting
<1>. QED  BY <1>2, DecidedKeeps

\* A move inside the attempt that changes the worker's place and flags only.
LEMMA StepsOn ==
  ASSUME IInv, WorkerStep, UNCHANGED <<rec, letters, ledger, calls>>,
         wk.pc \in Attempting,
         wk'.pc \in Dispatched \cup {"registered"},
         WorkerType', wk'.task = wk.task, wk'.fence = wk.fence, wk'.active,
         wk'.pc \in Dispatched => wk.pc \in Dispatched \/ ~Me.cancelRequested,
         wk.cancel => wk'.cancel, AttemptOwnsRecord'
  PROVE  IInv'
<1>1. wk'.pc \in Attempting \ {"claimed"}  BY DEF Attempting, Dispatched
<1>2. ledger' \in [Keys -> EffectRecords \cup {None}] /\ calls' \in [Keys -> Nat]
  BY DEF IInv, FileType
<1>3. LedgerCounts'  BY DEF IInv, LedgerCounts
<1>. QED  BY <1>1, <1>2, <1>3, AttemptMoves

\* The attempt enters the registry.
LEMMA RegisterStep == ASSUME IInv, Register  PROVE IInv'
<1>1. /\ wk' = [wk EXCEPT !.pc = "registered", !.active = TRUE]
      /\ UNCHANGED <<rec, letters, ledger, calls>> /\ WorkerStep /\ wk.pc = "claimed"
  BY DEF Register, effects
<1>2. /\ WorkerType' /\ wk'.pc = "registered" /\ wk'.task = wk.task
      /\ wk'.fence = wk.fence /\ wk'.cancel = wk.cancel /\ wk'.active
  BY <1>1 DEF IInv, WorkerType, Attempting
<1>3. AttemptOwnsRecord'  BY <1>2 DEF AttemptOwnsRecord
<1>4. wk.pc \in Attempting /\ wk'.pc \in Dispatched \cup {"registered"} /\ wk'.pc \notin Dispatched
  BY <1>1, <1>2 DEF Attempting, Dispatched
<1>. QED  BY <1>1, <1>2, <1>3, <1>4, StepsOn

\* An attempt without a heartbeat thread is failed.
LEMMA HeartbeatStartFailsStep == ASSUME IInv, HeartbeatStartFails  PROVE IInv'
<1>1. /\ wk' = [wk EXCEPT !.pc = "finish", !.active = FALSE, !.quiet = TRUE,
                          !.fin = "plain", !.out = Failed(FALSE)]
      /\ UNCHANGED <<rec, letters, ledger, calls>> /\ WorkerStep /\ wk.pc \in Attempting
  BY DEF HeartbeatStartFails, effects, Attempting
<1>2. Failed(FALSE) \in Outcomes /\ Failed(FALSE).status # "completed"  BY OutcomeFacts
<1>3. /\ WorkerType' /\ wk'.pc = "finish" /\ wk'.task = wk.task /\ wk'.fence = wk.fence
      /\ wk'.cancel = wk.cancel /\ wk'.fin = "plain" /\ wk'.out = Failed(FALSE)
  BY <1>1, <1>2 DEF IInv, WorkerType, Attempting
<1>. QED  BY <1>1, <1>2, <1>3, DecidedKeeps

\* DecideSafe, whatever the handler said.
LEMMA DecideSafeStep ==
  ASSUME IInv, WorkerStep, UNCHANGED <<rec, letters, ledger, calls>>,
         wk.pc \in Attempting, wk.task \notin Effectful, NEW out \in Outcomes,
         DecideSafe(out)
  PROVE  IInv'
<1>1. TimedOut(TRUE) \in Outcomes  BY OutcomeFacts
<1>2. \E o \in Outcomes : Decide("plain", o)  BY <1>1 DEF DecideSafe
<1>. QED  BY <1>2, Decided

\* Dispatch of an idempotent or an unknown handler.
LEMMA DispatchSafeStep == ASSUME IInv, DispatchSafe  PROVE IInv'
<1>1. /\ UNCHANGED <<rec, letters, ledger, calls>> /\ WorkerStep
      /\ wk.pc = "dispatch" /\ wk.task \notin Effectful
  BY DEF DispatchSafe, effects
<1>2. wk.pc \in Attempting /\ wk.pc \in Dispatched  BY <1>1 DEF Attempting, Dispatched
<1>3. CASE \E b \in BOOLEAN : DecideSafe(Failed(b))
  BY <1>1, <1>2, <1>3, OutcomeFacts, DecideSafeStep
<1>4. CASE wk' = [wk EXCEPT !.pc = "handling"]
  <2>1. /\ WorkerType' /\ wk'.pc = "handling" /\ wk'.task = wk.task
        /\ wk'.fence = wk.fence /\ wk'.cancel = wk.cancel /\ wk'.active = wk.active
    BY <1>4 DEF IInv, WorkerType, Attempting, Dispatched
  <2>2. wk.active  BY <1>2 DEF IInv, ThreadsAtWork
  <2>3. AttemptOwnsRecord'  BY <1>1, <2>1 DEF AttemptOwnsRecord
  <2>4. wk'.pc \in Dispatched  BY <2>1 DEF Dispatched
  <2>. QED  BY <1>1, <1>2, <2>1, <2>2, <2>3, <2>4, StepsOn
<1>. QED  BY <1>3, <1>4 DEF DispatchSafe

\* An idempotent handler returns or is abandoned.
LEMMA SafeHandlerStep ==
  ASSUME IInv, SafeHandlerReturns \/ SafeHandlerAbandoned  PROVE IInv'
<1>1. /\ UNCHANGED <<rec, letters, ledger, calls>> /\ WorkerStep
      /\ wk.pc = "handling" /\ wk.task \notin Effectful
  BY DEF SafeHandlerReturns, SafeHandlerAbandoned, effects
<1>2. wk.pc \in Attempting  BY <1>1 DEF Attempting, Dispatched
<1>3. \E out \in Outcomes : DecideSafe(out)
  BY OutcomeFacts DEF SafeHandlerReturns, SafeHandlerAbandoned, Outcomes
<1>. QED  BY <1>1, <1>2, <1>3, DecideSafeStep

\* The checks before dispatch that do not write the record.
LEMMA PreDispatchKeeps ==
  ASSUME IInv, PreDispatch, UNCHANGED rec  PROVE IInv'
<1>1. /\ UNCHANGED <<rec, letters, ledger, calls>> /\ WorkerStep /\ wk.pc = "registered"
  BY DEF PreDispatch, effects
<1>2. wk.pc \in Attempting  BY <1>1 DEF Attempting
<1>3. Failed(FALSE) \in Outcomes /\ Failed(FALSE).status # "completed"
      /\ TimedOut(TRUE) \in Outcomes /\ TimedOut(TRUE).status # "completed"
  BY OutcomeFacts
<1>4. CASE CancelPrecedesDispatch
  <2>1. /\ WorkerType' /\ wk'.pc = "finish" /\ wk'.task = wk.task /\ wk'.fence = wk.fence
        /\ wk'.cancel /\ wk'.fin = "plain" /\ wk'.out = Failed(FALSE)
    BY <1>3, <1>4 DEF CancelPrecedesDispatch, IInv, WorkerType, Attempting
  <2>. QED  BY <1>1, <1>2, <1>3, <2>1, DecidedKeeps
<1>5. CASE Decide("plain", TimedOut(TRUE))  BY <1>1, <1>2, <1>3, <1>5, Decided
<1>6. CASE ~Me.cancelRequested /\ wk' = [wk EXCEPT !.pc = "dispatch"] /\ wk.active
  <2>1. /\ WorkerType' /\ wk'.pc = "dispatch" /\ wk'.task = wk.task
        /\ wk'.fence = wk.fence /\ wk'.cancel = wk.cancel /\ wk'.active = wk.active
    BY <1>6 DEF IInv, WorkerType, Attempting, Dispatched
  <2>3. AttemptOwnsRecord'  BY <1>1, <2>1 DEF AttemptOwnsRecord
  <2>4. wk'.pc \in Dispatched  BY <2>1 DEF Dispatched
  <2>. QED  BY <1>1, <1>2, <1>6, <2>1, <2>3, <2>4, StepsOn
<1>7. wk.active  BY <1>1 DEF IInv, ThreadsAtWork
<1>. QED  BY <1>4, <1>5, <1>6, <1>7 DEF PreDispatch

\* The ways a ledger transaction ends the dispatch without the handler.
LEMMA NotDispatchedStep ==
  ASSUME IInv, WorkerStep, UNCHANGED <<rec, letters, ledger, calls>>,
         wk.pc \in {"dispatch", "prepare"}, wk.task \in Effectful, NotDispatched
  PROVE  IInv'
<1>2. wk.pc \in Attempting  BY DEF Attempting, Dispatched
<1>3. Failed(FALSE) \in Outcomes /\ Failed(FALSE).status # "completed"
      /\ TimedOut(TRUE) \in Outcomes /\ TimedOut(TRUE).status # "completed"
  BY OutcomeFacts
<1>4. CASE \E out \in {Failed(FALSE), TimedOut(TRUE)} : Decide("effect", out)
  BY <1>2, <1>3, <1>4, Decided
<1>5. CASE Found = "committed" /\ Decide("committed", Completed(ledger[MyKey].result))
  <2>1. MyKey \in Keys  BY <1>2, AttemptFacts
  <2>2. Committed(ledger[MyKey]) /\ ledger[MyKey].op = MyOp
    BY <1>5 DEF Found, LedgerState, Committed, OperationMatches
  <2>3. ledger[MyKey].result \in Results
    BY <2>1, <2>2 DEF IInv, LedgerCounts, Committed
  <2>4. Completed(ledger[MyKey].result) \in Outcomes  BY <2>3, OutcomeFacts
  <2>5. /\ WorkerType' /\ wk'.pc = "finish" /\ wk'.task = wk.task /\ wk'.fence = wk.fence
        /\ wk'.cancel = wk.cancel /\ wk'.fin = "committed"
        /\ wk'.out = Completed(ledger[MyKey].result)
    BY <1>5, <2>4 DEF Decide, IInv, WorkerType, Attempting
  <2>6. AttemptOwnsRecord'
    BY <2>2, <2>4, <2>5 DEF AttemptOwnsRecord, MyKey, MyOp
  <2>7. wk'.pc \in Attempting \ {"claimed"} /\ wk'.pc \notin Dispatched
    BY <2>5 DEF Attempting, Dispatched
  <2>8. ledger' \in [Keys -> EffectRecords \cup {None}] /\ calls' \in [Keys -> Nat]
    BY DEF IInv, FileType
  <2>9. LedgerCounts'  BY DEF IInv, LedgerCounts
  <2>. QED  BY <1>2, <2>5, <2>6, <2>7, <2>8, <2>9, AttemptMoves
<1>. QED  BY <1>4, <1>5 DEF NotDispatched

\* The first look at the ledger reserves nothing.
LEMMA InspectForClaimStep == ASSUME IInv, InspectForClaim  PROVE IInv'
<1>1. /\ UNCHANGED <<rec, letters, ledger, calls>> /\ WorkerStep
      /\ wk.pc = "dispatch" /\ wk.task \in Effectful
  BY DEF InspectForClaim, effects
<1>2. wk.pc \in Attempting /\ wk.pc \in Dispatched  BY <1>1 DEF Attempting, Dispatched
<1>3. CASE NotDispatched  BY <1>1, <1>3, NotDispatchedStep
<1>4. CASE \E b \in BOOLEAN : Decide("effect", Failed(b))
  BY <1>1, <1>2, <1>4, OutcomeFacts, Decided
<1>5. CASE wk' = [wk EXCEPT !.pc = "prepare"]
  <2>1. /\ WorkerType' /\ wk'.pc = "prepare" /\ wk'.task = wk.task
        /\ wk'.fence = wk.fence /\ wk'.cancel = wk.cancel /\ wk'.active = wk.active
    BY <1>5 DEF IInv, WorkerType, Attempting, Dispatched
  <2>2. wk.active  BY <1>2 DEF IInv, ThreadsAtWork
  <2>3. AttemptOwnsRecord'  BY <1>1, <2>1 DEF AttemptOwnsRecord
  <2>4. wk'.pc \in Dispatched  BY <2>1 DEF Dispatched
  <2>. QED  BY <1>1, <1>2, <2>1, <2>2, <2>3, <2>4, StepsOn
<1>. QED  BY <1>3, <1>4, <1>5 DEF InspectForClaim

\* The new ledger record: prepared, by this attempt, for its own operation.
LEMMA ReserveFacts ==
  ASSUME IInv, wk.pc = "prepare", Found = "absent",
         ledger' = [ledger EXCEPT ![MyKey] = PreparedRecord(MyOp, wk.task, wk.fence)],
         calls' = calls
  PROVE  /\ ledger' \in [Keys -> EffectRecords \cup {None}] /\ LedgerCounts'
         /\ wk.task \in Effectful /\ MyKey \in Keys
         /\ ledger[MyKey] = None /\ calls[MyKey] = 0
         /\ PreparedBy(ledger'[MyKey], MyOp, wk.task, wk.fence)
         /\ ~Committed(ledger'[MyKey]) /\ ledger'[MyKey] # None
         /\ ledger'[MyKey].op = MyOp
<1>1. wk.pc \in Attempting  BY DEF Attempting, Dispatched
<1>2. /\ MyKey \in Keys /\ wk.task \in Effectful /\ wk.task \in Tasks
      /\ wk.fence \in Fences
  BY <1>1, AttemptFacts DEF IInv, AttemptOwnsRecord
<1>3. PICK e : e = PreparedRecord(MyOp, wk.task, wk.fence)  OBVIOUS
<1>4. /\ e \in EffectRecords /\ e.op = MyOp /\ e.task = wk.task /\ e.fence = wk.fence
      /\ e.state = "prepared"
  BY <1>2, <1>3 DEF EffectRecords, PreparedRecord, MyOp
<1>5. e # None  BY <1>4, NoneFacts
<1>6. ledger \in [Keys -> EffectRecords \cup {None}]  BY DEF IInv, FileType
<1>7. /\ ledger' \in [Keys -> EffectRecords \cup {None}] /\ ledger'[MyKey] = e
      /\ \A k \in Keys : k # MyKey => ledger'[k] = ledger[k]
  BY <1>2, <1>3, <1>4, <1>6
<1>8. ledger[MyKey] = None
  BY <1>2, <1>6 DEF Found, LedgerState, EffectRecords
<1>9. calls[MyKey] = 0  BY <1>2, <1>8 DEF IInv, LedgerCounts
<1>10. LedgerCounts'
  <2>1. ~Committed(e)  BY <1>4 DEF Committed
  <2>2. ASSUME NEW k \in Keys, k # MyKey
        PROVE  ledger'[k] = ledger[k] /\ calls'[k] = calls[k]
    BY <1>7, <2>2
  <2>3. ASSUME NEW k \in Keys
        PROVE  IF ledger'[k] = None THEN calls'[k] = 0
               ELSE IF Committed(ledger'[k]) THEN calls'[k] = 1 /\ ledger'[k].result \in Results
               ELSE calls'[k] \in {0, 1}
    <3>1. CASE k = MyKey  BY <1>5, <1>7, <1>9, <2>1, <3>1
    <3>2. CASE k # MyKey  BY <2>2, <3>2 DEF IInv, LedgerCounts
    <3>. QED  BY <3>1, <3>2
  <2>. QED  BY <2>3 DEF LedgerCounts, Committed
<1>. QED
  BY <1>2, <1>4, <1>5, <1>7, <1>8, <1>9, <1>10 DEF PreparedBy, OperationMatches, Committed

\* The reservation, in one ledger transaction.
LEMMA PrepareForClaimStep == ASSUME IInv, PrepareForClaim  PROVE IInv'
<1>1. UNCHANGED <<rec, letters, calls>> /\ WorkerStep /\ wk.pc = "prepare"
  BY DEF PrepareForClaim
<1>2. wk.pc \in Attempting /\ wk.pc \in Dispatched  BY <1>1 DEF Attempting, Dispatched
<1>3. CASE NotDispatched /\ UNCHANGED ledger
  BY <1>1, <1>3, NotDispatchedStep DEF IInv, AttemptOwnsRecord
<1>4. CASE /\ Found = "absent" /\ wk' = [wk EXCEPT !.pc = "prepared"]
           /\ ledger' = [ledger EXCEPT ![MyKey] = PreparedRecord(MyOp, wk.task, wk.fence)]
  <2>1. /\ WorkerType' /\ wk'.pc = "prepared" /\ wk'.task = wk.task
        /\ wk'.fence = wk.fence /\ wk'.cancel = wk.cancel /\ wk'.active = wk.active
    BY <1>4 DEF IInv, WorkerType, Attempting, Dispatched
  <2>2. wk.active  BY <1>2 DEF IInv, ThreadsAtWork
  <2>3. AttemptOwnsRecord'
    BY <1>1, <1>4, <2>1, ReserveFacts DEF AttemptOwnsRecord, MyKey, MyOp
  <2>4. wk'.pc \in Attempting \ {"claimed"}  BY <2>1 DEF Attempting, Dispatched
  <2>5. calls' \in [Keys -> Nat]  BY <1>1 DEF IInv, FileType
  <2>. QED  BY <1>1, <1>2, <1>4, <2>1, <2>2, <2>3, <2>4, <2>5, ReserveFacts, AttemptMoves
<1>. QED  BY <1>3, <1>4 DEF PrepareForClaim

\* A reservation that failed may still be on disk; the handler is not called.
LEMMA PrepareFailsStep == ASSUME IInv, PrepareFails  PROVE IInv'
<1>1. /\ UNCHANGED <<rec, letters, calls>> /\ WorkerStep /\ wk.pc = "prepare"
      /\ Found = "absent" /\ Decide("effect", Failed(FALSE))
  BY DEF PrepareFails
<1>2. wk.pc \in Attempting /\ wk.pc \in Dispatched  BY <1>1 DEF Attempting, Dispatched
<1>3. Failed(FALSE) \in Outcomes /\ Failed(FALSE).status # "completed"  BY OutcomeFacts
<1>4. CASE UNCHANGED ledger  BY <1>1, <1>2, <1>3, <1>4, Decided
<1>5. CASE ledger' = [ledger EXCEPT ![MyKey] = PreparedRecord(MyOp, wk.task, wk.fence)]
  <2>1. /\ WorkerType' /\ wk'.pc = "finish" /\ wk'.task = wk.task /\ wk'.fence = wk.fence
        /\ wk'.cancel = wk.cancel /\ wk'.fin = "effect" /\ wk'.out = Failed(FALSE)
    BY <1>1, <1>3 DEF Decide, IInv, WorkerType, Attempting
  <2>2. AttemptOwnsRecord'  BY <1>3, <2>1 DEF AttemptOwnsRecord
  <2>3. wk'.pc \in Attempting \ {"claimed"} /\ wk'.pc \notin Dispatched
    BY <2>1 DEF Attempting, Dispatched
  <2>4. calls' \in [Keys -> Nat]  BY <1>1 DEF IInv, FileType
  <2>. QED  BY <1>1, <1>2, <1>5, <2>1, <2>2, <2>3, <2>4, ReserveFacts, AttemptMoves
<1>. QED  BY <1>4, <1>5 DEF PrepareFails

\* The one call of the operation, after its reservation.
LEMMA InvokeEffectStep == ASSUME IInv, InvokeEffect  PROVE IInv'
<1>1. /\ UNCHANGED <<rec, letters, ledger>> /\ WorkerStep /\ wk.pc = "prepared"
      /\ calls' = [calls EXCEPT ![MyKey] = @ + 1] /\ wk' = [wk EXCEPT !.pc = "handling"]
  BY DEF InvokeEffect
<1>2. wk.pc \in Attempting /\ wk.pc \in Dispatched  BY <1>1 DEF Attempting, Dispatched
<1>3. /\ WorkerType' /\ wk'.pc = "handling" /\ wk'.task = wk.task
      /\ wk'.fence = wk.fence /\ wk'.cancel = wk.cancel /\ wk'.active = wk.active
  BY <1>1 DEF IInv, WorkerType, Attempting, Dispatched
<1>4. /\ wk.active /\ MyKey \in Keys /\ wk.task \in Effectful /\ calls[MyKey] = 0
      /\ PreparedBy(ledger[MyKey], MyOp, wk.task, wk.fence) /\ ~Committed(ledger[MyKey])
  BY <1>1, <1>2, AttemptFacts DEF IInv, ThreadsAtWork, AttemptOwnsRecord
<1>5. calls \in [Keys -> Nat]  BY DEF IInv, FileType
<1>6. /\ calls' \in [Keys -> Nat] /\ calls'[MyKey] = 1
      /\ \A k \in Keys : k # MyKey => calls'[k] = calls[k]
  BY <1>1, <1>4, <1>5
<1>7. AttemptOwnsRecord'
  BY <1>1, <1>3, <1>4, <1>6 DEF AttemptOwnsRecord, MyKey, MyOp
<1>8. LedgerCounts'
  BY <1>1, <1>4, <1>6 DEF IInv, LedgerCounts, PreparedBy
<1>9. wk'.pc \in Attempting \ {"claimed"} /\ ledger' \in [Keys -> EffectRecords \cup {None}]
  BY <1>1, <1>3 DEF Attempting, Dispatched, IInv, FileType
<1>. QED  BY <1>1, <1>2, <1>3, <1>4, <1>6, <1>7, <1>8, <1>9, AttemptMoves

\* The ends of an effect dispatch that leave the prepared record to an operator,
\* and the handler's own failure.
LEMMA EffectGivenUpStep ==
  ASSUME IInv, AbandonPrepared \/ EffectHandlerAbandoned \/ EffectHandlerFailed
  PROVE  IInv'
<1>1. /\ UNCHANGED <<rec, letters, ledger, calls>> /\ WorkerStep
      /\ wk.pc \in {"prepared", "handling", "returned"}
  BY DEF AbandonPrepared, EffectHandlerAbandoned, EffectHandlerFailed, effects
<1>2. wk.pc \in Attempting  BY <1>1 DEF Attempting, Dispatched
<1>3. CASE Decide("block", Failed(FALSE))  BY <1>1, <1>2, <1>3, OutcomeFacts, Decided
<1>4. CASE wk.pc = "returned" /\ wk.out.status # "completed" /\ Decide("effect", wk.out)
  <2>1. wk.out \in Outcomes  BY <1>4 DEF IInv, AttemptOwnsRecord
  <2>. QED  BY <1>1, <1>2, <1>4, <2>1, Decided
<1>. QED
  BY <1>3, <1>4 DEF AbandonPrepared, EffectHandlerAbandoned, EffectHandlerFailed

\* The result permit is taken.
LEMMA EffectHandlerReturnsStep == ASSUME IInv, EffectHandlerReturns  PROVE IInv'
<1>1. /\ UNCHANGED <<rec, letters, ledger, calls>> /\ WorkerStep
      /\ wk.pc = "handling" /\ wk.task \in Effectful
  BY DEF EffectHandlerReturns, effects
<1>2. wk.pc \in Attempting /\ wk.pc \in Dispatched  BY <1>1 DEF Attempting, Dispatched
<1>3. PICK out \in Outcomes :
        wk' = [wk EXCEPT !.pc = "returned", !.cap = "accepted", !.out = out]
  <2>1. {Completed(r) : r \in Results} \cup {Failed(FALSE), TimedOut(FALSE)} \subseteq Outcomes
    BY OutcomeFacts
  <2>. QED  BY <2>1 DEF EffectHandlerReturns
<1>4. /\ WorkerType' /\ wk'.pc = "returned" /\ wk'.task = wk.task /\ wk'.out = out
      /\ wk'.fence = wk.fence /\ wk'.cancel = wk.cancel /\ wk'.active = wk.active
  BY <1>3 DEF IInv, WorkerType, Attempting, Dispatched
<1>5. wk.active  BY <1>2 DEF IInv, ThreadsAtWork
<1>6. AttemptOwnsRecord'
  BY <1>1, <1>4 DEF IInv, AttemptOwnsRecord, MyKey, MyOp
<1>7. wk'.pc \in Dispatched  BY <1>4 DEF Dispatched
<1>. QED  BY <1>1, <1>2, <1>4, <1>5, <1>6, <1>7, StepsOn

\* What a commit writes, when it writes.
LEMMA CommitFacts ==
  ASSUME IInv, wk.pc = "returned", wk.out.status = "completed",
         ledger' = [ledger EXCEPT ![MyKey] = CommitRecord(@, wk.out.result)],
         calls' = calls
  PROVE  /\ ledger' \in [Keys -> EffectRecords \cup {None}] /\ LedgerCounts'
         /\ wk.task \in Effectful /\ MyKey \in Keys /\ ledger[MyKey] # None
         /\ ~Committed(ledger[MyKey]) /\ calls[MyKey] = 1
         /\ wk.out = Completed(wk.out.result) /\ wk.out.result \in Results
         /\ Committed(ledger'[MyKey]) /\ ledger'[MyKey].result = wk.out.result
         /\ ledger'[MyKey].op = ledger[MyKey].op /\ ledger[MyKey].op = MyOp
<1>1. wk.pc \in Attempting  BY DEF Attempting, Dispatched
<1>2. /\ MyKey \in Keys /\ wk.task \in Effectful /\ wk.out \in Outcomes
      /\ calls[MyKey] = 1 /\ ~Committed(ledger[MyKey])
      /\ ledger[MyKey] # None /\ ledger[MyKey].op = MyOp
  BY <1>1, AttemptFacts DEF IInv, AttemptOwnsRecord, PreparedBy, OperationMatches
<1>3. PICK r \in Results : wk.out = Completed(r)
  <2>1. \A o \in HandlerErrors : o.status # "completed"
    BY OutcomeFacts DEF HandlerErrors
  <2>. QED  BY <1>2, <2>1 DEF Outcomes
<1>4. wk.out.result = r  BY <1>3, OutcomeFacts
<1>5. ledger \in [Keys -> EffectRecords \cup {None}]  BY DEF IInv, FileType
<1>6. PICK e : e = [ledger[MyKey] EXCEPT !.state = "committed", !.result = r]  OBVIOUS
<1>7. ledger[MyKey] \in EffectRecords  BY <1>2, <1>5
<1>8. e \in EffectRecords /\ e.state = "committed" /\ e.result = r /\ e.op = ledger[MyKey].op
  BY <1>6, <1>7 DEF EffectRecords
<1>9. e # None  BY <1>8, NoneFacts
<1>10. ledger' = [ledger EXCEPT ![MyKey] = e]  BY <1>4, <1>6 DEF CommitRecord
<1>11. /\ ledger' \in [Keys -> EffectRecords \cup {None}] /\ ledger'[MyKey] = e
       /\ \A k \in Keys : k # MyKey => ledger'[k] = ledger[k]
  BY <1>2, <1>5, <1>8, <1>10
<1>12. Committed(e)  BY <1>8, <1>9 DEF Committed
<1>13. LedgerCounts'
  <2>1. ASSUME NEW k \in Keys
        PROVE  IF ledger'[k] = None THEN calls'[k] = 0
               ELSE IF Committed(ledger'[k]) THEN calls'[k] = 1 /\ ledger'[k].result \in Results
               ELSE calls'[k] \in {0, 1}
    <3>1. CASE k = MyKey  BY <1>2, <1>8, <1>9, <1>11, <1>12, <3>1
    <3>2. CASE k # MyKey  BY <1>11, <3>2 DEF IInv, LedgerCounts
    <3>. QED  BY <3>1, <3>2
  <2>. QED  BY <2>1 DEF LedgerCounts, Committed
<1>. QED  BY <1>2, <1>3, <1>4, <1>8, <1>11, <1>12, <1>13

\* The commit, or its failure before or after the rename.
LEMMA CommitEffectStep == ASSUME IInv, CommitEffect  PROVE IInv'
<1>1. /\ UNCHANGED <<rec, letters, calls>> /\ WorkerStep /\ wk.pc = "returned"
      /\ wk.out.status = "completed"
  BY DEF CommitEffect
<1>2. wk.pc \in Attempting /\ wk.pc \in Dispatched  BY <1>1 DEF Attempting, Dispatched
<1>3. Failed(FALSE) \in Outcomes /\ Failed(FALSE).status # "completed"  BY OutcomeFacts
<1>4. CASE UNCHANGED ledger /\ Decide("effect", Failed(FALSE))
  BY <1>1, <1>2, <1>3, <1>4, Decided
<1>5. CASE /\ ledger' = [ledger EXCEPT ![MyKey] = CommitRecord(@, wk.out.result)]
           /\ \/ Decide("committed", wk.out) \/ Decide("effect", Failed(FALSE))
  <2>1. wk.out \in Outcomes  BY <1>1 DEF IInv, AttemptOwnsRecord
  <2>2. /\ WorkerType' /\ wk'.pc = "finish" /\ wk'.task = wk.task /\ wk'.fence = wk.fence
        /\ wk'.cancel = wk.cancel
        /\ \/ wk'.fin = "committed" /\ wk'.out = wk.out
           \/ wk'.fin = "effect" /\ wk'.out = Failed(FALSE)
    BY <1>3, <1>5, <2>1 DEF Decide, IInv, WorkerType, Attempting
  <2>3. AttemptOwnsRecord'
    BY <1>1, <1>3, <1>5, <2>1, <2>2, CommitFacts DEF AttemptOwnsRecord, MyKey, MyOp
  <2>4. wk'.pc \in Attempting \ {"claimed"} /\ wk'.pc \notin Dispatched
    BY <2>2 DEF Attempting, Dispatched
  <2>5. calls' \in [Keys -> Nat]  BY <1>1 DEF IInv, FileType
  <2>. QED  BY <1>1, <1>2, <1>5, <2>2, <2>3, <2>4, <2>5, CommitFacts, AttemptMoves
<1>. QED  BY <1>4, <1>5 DEF CommitEffect

\* A lost heartbeat raises the cancellation flag.
LEMMA HeartbeatFailsStep == ASSUME IInv, HeartbeatFails  PROVE IInv'
<1>1. /\ UNCHANGED <<rec, letters, ledger, calls>> /\ WorkerStep
      /\ wk' = [wk EXCEPT !.hbError = TRUE, !.cancel = TRUE] /\ wk.active
      /\ wk.pc \in Dispatched \cup {"registered"}
  BY DEF HeartbeatFails, HeartbeatRuns, store, effects, WorkerStep, Dispatched
<1>2. /\ WorkerType' /\ wk'.pc = wk.pc /\ wk'.task = wk.task /\ wk'.fence = wk.fence
      /\ wk'.active = wk.active /\ wk'.cancel /\ wk'.out = wk.out /\ wk'.fin = wk.fin
  BY <1>1 DEF IInv, WorkerType
<1>3. wk.pc \in Attempting  BY <1>1 DEF Attempting
<1>4. AttemptOwnsRecord'
  BY <1>1, <1>2 DEF IInv, AttemptOwnsRecord, MyKey, MyOp
<1>. QED  BY <1>1, <1>2, <1>3, <1>4, StepsOn

-----------------------------------------------------------------------------
(* Steps of the worker outside an attempt, which leave the records alone.  *)

\* Everything but what the letters ask of the worker.
LEMMA WorkerLeaves ==
  ASSUME IInv, Serving, phase # "stopped", WorkerStep, UNCHANGED <<rec, ledger, calls>>,
         WorkerType', wk'.pc \in {"exited", "dead"} \cup Reporting,
         wk'.active => wk.active /\ wk'.fence = wk.fence,
         wk'.pc \in Reporting => wk'.task \in Tasks /\ rec[wk'.task] # None,
         wk'.pc \in {"exited", "dead"} => ~wk'.active,
         letters' \subseteq [task : Tasks, attempt : Nat, by : 1..gen], LettersFollow'
  PROVE  IInv'
<1>u. UNCHANGED <<rec, ledger, calls, gen, now, phase, scan, gate, ctl>>  BY DEF WorkerStep
<1>s. Serving'  BY <1>u DEF Serving
<1>1. LP!IInv'  BY <1>u, SameStore DEF IInv
<1>2. ControlType' /\ FileType' /\ RecordOrigin' /\ LedgerCounts'
  BY <1>u DEF IInv, ControlType, FileType, RecordOrigin, LedgerCounts, Exists
<1>3. wk'.pc \notin Attempting /\ wk'.pc \notin Dispatched \cup {"registered"} /\ wk'.pc # "claimed"
  BY DEF Attempting, Dispatched, Reporting
<1>4. AttemptIsLive' /\ AttemptOwnsRecord' /\ CancelUnderWay'
  BY <1>3 DEF AttemptIsLive, AttemptOwnsRecord, CancelUnderWay, Attempting, Dispatched
<1>5. ThreadsAtWork'
  <2>1. wk'.pc \in Resting => ~wk'.active  BY DEF Resting, Reporting
  <2>2. wk'.pc \notin Resting => wk'.task \in Tasks /\ rec'[wk'.task] # None
    BY <1>u DEF Resting, Reporting
  <2>3. wk'.active => wk'.fence \in Fences /\ wk'.fence.generation = gen'
    BY <1>u DEF IInv, ThreadsAtWork
  <2>4. /\ ctl'.pc = "drainCancel" => ctl'.fence \in Fences /\ ctl'.fence.generation = gen'
        /\ ctl'.pc \in {"signal", "drainCancel", "drainSignal"} =>
             ctl'.task \in Tasks /\ rec'[ctl'.task] # None
    BY <1>u DEF IInv, ThreadsAtWork, Exists
  <2>. QED  BY <1>s, <1>3, <2>1, <2>2, <2>3, <2>4 DEF ThreadsAtWork, Exists
<1>6. StopIsClean'  BY <1>u DEF StopIsClean
<1>7. RecoveredSoFar'  BY <1>u DEF RecoveredSoFar, Serving
<1>. QED  BY <1>1, <1>2, <1>4, <1>5, <1>6, <1>7 DEF IInv

\* Letters and records are as they were.
LEMMA LettersStay ==
  ASSUME IInv, UNCHANGED <<rec, letters, gen>>, wk'.pc # "checkpoint",
         wk'.pc = "dead" \/ wk.pc \notin {"dead", "checkpoint"}
  PROVE  LettersFollow' /\ letters' \subseteq [task : Tasks, attempt : Nat, by : 1..gen]
<1>1. SummaryHasLetter' /\ \A l \in letters' : rec'[l.task] # None
  BY DEF IInv, LettersFollow, SummaryHasLetter, HasLetter, Exists
<1>2. ASSUME NEW l \in letters', l.by = gen'
      PROVE  l.attempt \in rec'[l.task].deadLetters \/ wk'.pc = "dead"
  BY <1>2 DEF IInv, LettersFollow
<1>3. letters' \subseteq [task : Tasks, attempt : Nat, by : 1..gen]  BY DEF IInv, FileType
<1>. QED  BY <1>1, <1>2, <1>3 DEF LettersFollow, Exists

\* The worker leaves when the gate is closed.
LEMMA WorkerExitStep == ASSUME IInv, WorkerExit  PROVE IInv'
<1>1. /\ UNCHANGED <<rec, letters, ledger, calls>> /\ WorkerStep /\ Serving
      /\ wk.pc = "idle" /\ wk' = [wk EXCEPT !.pc = "exited"]
  BY DEF WorkerExit, effects
<1>2. WorkerType' /\ wk'.pc = "exited" /\ wk'.active = wk.active
  BY <1>1 DEF IInv, WorkerType, Resting
<1>3. ~wk.active  BY <1>1 DEF IInv, ThreadsAtWork, Resting
<1>4. phase # "stopped"  BY <1>1 DEF IInv, StopIsClean
<1>5. LettersFollow' /\ letters' \subseteq [task : Tasks, attempt : Nat, by : 1..gen]
  BY <1>1, <1>2, LettersStay DEF WorkerStep
<1>. QED  BY <1>1, <1>2, <1>3, <1>4, <1>5, WorkerLeaves DEF Reporting

\* A dead worker owes its letter to the next process.
LEMMA WorkerDiesStep == ASSUME IInv, WorkerDies  PROVE IInv'
<1>1. /\ UNCHANGED <<rec, letters, ledger, calls>> /\ WorkerStep
      /\ wk.pc \in {"finish", "evidence", "checkpoint"}
      /\ wk' = [IdleWorker EXCEPT !.pc = "dead"]
  BY DEF WorkerDies, Unregister, effects
<1>2. WorkerType' /\ wk'.pc = "dead" /\ ~wk'.active
  BY <1>1 DEF WorkerType, IdleWorker, Resting
<1>3. Serving /\ phase # "stopped"  BY <1>1 DEF IInv, StopIsClean, ThreadsAtWork
<1>4. LettersFollow' /\ letters' \subseteq [task : Tasks, attempt : Nat, by : 1..gen]
  BY <1>1, <1>2, LettersStay DEF WorkerStep
<1>. QED  BY <1>1, <1>2, <1>3, <1>4, WorkerLeaves DEF Reporting

\* Evidence an earlier process left open.
LEMMA FindEvidenceStep == ASSUME IInv, NEW t \in Tasks, FindEvidence(t)  PROVE IInv'
<1>1. /\ UNCHANGED <<rec, letters, ledger, calls>> /\ WorkerStep /\ Serving
      /\ wk.pc = "idle" /\ Exists(t)
      /\ wk' = [IdleWorker EXCEPT !.pc = "evidence", !.task = t]
  BY DEF FindEvidence, effects
<1>2. WorkerType' /\ wk'.pc = "evidence" /\ ~wk'.active /\ wk'.task = t
  BY <1>1 DEF WorkerType, IdleWorker, Reporting
<1>3. phase # "stopped"  BY <1>1 DEF IInv, StopIsClean
<1>4. LettersFollow' /\ letters' \subseteq [task : Tasks, attempt : Nat, by : 1..gen]
  BY <1>1, <1>2, LettersStay DEF WorkerStep
<1>. QED  BY <1>1, <1>2, <1>3, <1>4, WorkerLeaves DEF Reporting, Exists

\* The letter is published before the summary.
LEMMA RecordDeadLetterStep == ASSUME IInv, RecordDeadLetter  PROVE IInv'
<1>1. /\ UNCHANGED <<rec, ledger, calls>> /\ WorkerStep /\ wk.pc = "evidence"
      /\ wk' = [wk EXCEPT !.pc = "checkpoint"]
  BY DEF RecordDeadLetter, effects
<1>u. UNCHANGED <<rec, ledger, calls, gen, now, phase, scan, gate, ctl>>
  BY <1>1 DEF WorkerStep
<1>2. /\ WorkerType' /\ wk'.pc = "checkpoint" /\ wk'.active = wk.active
      /\ wk'.fence = wk.fence /\ wk'.task = wk.task
  BY <1>1 DEF IInv, WorkerType, Reporting
<1>3. /\ Serving /\ phase # "stopped" /\ wk.task \in Tasks /\ Exists(wk.task)
  BY <1>1 DEF IInv, StopIsClean, ThreadsAtWork, Resting
<1>4. Me \in Snapshots  BY <1>3, RecordFacts DEF IInv, Me
<1>5. Me.attempts \in Nat  BY <1>4 DEF Snapshots, SnapshotType
<1>6. gen \in Nat /\ gen \in 1..gen
  BY StoreFacts, RecordAssumption DEF IInv
<1>7. PICK new : new = [task |-> wk.task, attempt |-> Me.attempts, by |-> gen]  OBVIOUS
<1>8. new \in [task : Tasks, attempt : Nat, by : 1..gen]  BY <1>3, <1>5, <1>6, <1>7
<1>9. letters' = letters \/ letters' = letters \cup {new}
  BY <1>7 DEF RecordDeadLetter
<1>10. letters' \subseteq [task : Tasks, attempt : Nat, by : 1..gen]
  BY <1>8, <1>9 DEF IInv, FileType
<1>11. LettersFollow'
  <2>1. letters \subseteq letters'  BY <1>9
  <2>2. SummaryHasLetter'
    BY <1>u, <2>1 DEF IInv, LettersFollow, SummaryHasLetter, HasLetter, Exists
  <2>3. \A l \in letters' : rec'[l.task] # None
    BY <1>u, <1>3, <1>7, <1>9 DEF IInv, LettersFollow, Exists
  <2>4. \E l \in letters' : l.task = wk.task /\ l.attempt = Me.attempts
    BY <1>7 DEF RecordDeadLetter, HasLetter
  <2>5. ASSUME NEW l \in letters', l.by = gen
        PROVE  \/ l.attempt \in rec[l.task].deadLetters
               \/ wk.task = l.task /\ l.attempt = Me.attempts
    <3>1. CASE l \in letters  BY <1>1, <2>5, <3>1 DEF IInv, LettersFollow
    <3>2. CASE l = new  BY <1>7, <3>2
    <3>. QED  BY <1>9, <3>1, <3>2
  <2>6. Me' = Me  BY <1>u, <1>2 DEF Me
  <2>. QED  BY <1>u, <1>2, <2>2, <2>3, <2>4, <2>5, <2>6 DEF LettersFollow, HasLetter, Exists
<1>. QED  BY <1>1, <1>2, <1>3, <1>u, <1>10, <1>11, WorkerLeaves DEF Reporting, Exists

-----------------------------------------------------------------------------
(* The operators of TaskRecord mean the same inside and outside LP.        *)

\* The transitions of a record.
LEMMA SameOperators ==
  /\ \A s : LP!Claimable(s) <=> Claimable(s)
  /\ \A s, o, n : LP!ClaimForExecution(s, o, n) = ClaimForExecution(s, o, n)
  /\ \A s, n : LP!TouchHeartbeat(s, n) = TouchHeartbeat(s, n)
  /\ \A s, r : LP!CompleteCommittedEffect(s, r) = CompleteCommittedEffect(s, r)
  /\ \A s, o, n : LP!ApplyOutcome(s, o, n) = ApplyOutcome(s, o, n)
  /\ \A s : LP!MarkCancelled(s) = MarkCancelled(s)
  /\ \A s, w : LP!RequestCancel(s, w) = RequestCancel(s, w)
  /\ \A s : LP!Requeue(s) = Requeue(s)
  /\ \A s, n : LP!RetryStep(s, n) = RetryStep(s, n)
  /\ \A s, n : LP!RetryStepEnabled(s, n) <=> RetryStepEnabled(s, n)
  /\ \A s : LP!Abandoned(s) <=> Abandoned(s)
  /\ \A s, r : LP!RecoverCommitted(s, r) = RecoverCommitted(s, r)
  /\ \A s : LP!BlockUnknownEffect(s) = BlockUnknownEffect(s)
  /\ \A s : LP!MarkInterrupted(s) = MarkInterrupted(s)
  /\ \A s : LP!BaselineInterrupt(s) = BaselineInterrupt(s)
  /\ \A s, a : LP!AddDeadLetter(s, a) = AddDeadLetter(s, a)
  /\ \A s : LP!RequiresOperator(s) <=> RequiresOperator(s)
  /\ \A s : LP!NeedsEvidence(s) <=> NeedsEvidence(s)
  /\ \A e : LP!QueuedSnapshot(e) = QueuedSnapshot(e)
<1>1. \A s : LP!ClearOutcome(s) = ClearOutcome(s)  BY DEF LP!ClearOutcome, ClearOutcome
<1>2. \A s : LP!Claimable(s) <=> Claimable(s)  BY DEF LP!Claimable, Claimable
<1>3. \A s, o, n : LP!ClaimForExecution(s, o, n) = ClaimForExecution(s, o, n)
  BY <1>1 DEF LP!ClaimForExecution, ClaimForExecution
<1>4. \A s, n : LP!TouchHeartbeat(s, n) = TouchHeartbeat(s, n)
  BY DEF LP!TouchHeartbeat, TouchHeartbeat
<1>5. \A s, r : LP!Complete(s, r) = Complete(s, r)  BY DEF LP!Complete, Complete
<1>6. \A s, r : LP!CompleteCommittedEffect(s, r) = CompleteCommittedEffect(s, r)
  BY <1>5 DEF LP!CompleteCommittedEffect, CompleteCommittedEffect
<1>7. \A s, o, n : LP!ApplyOutcome(s, o, n) = ApplyOutcome(s, o, n)
  BY DEF LP!ApplyOutcome, ApplyOutcome, LP!Complete, Complete, LP!Fail, Fail,
         LP!TimeOut, TimeOut
<1>8. \A s : LP!MarkCancelled(s) = MarkCancelled(s)  BY DEF LP!MarkCancelled, MarkCancelled
<1>9. \A s, w : LP!RequestCancel(s, w) = RequestCancel(s, w)
  BY DEF LP!RequestCancel, RequestCancel, LP!IsTerminal, IsTerminal, LP!Terminal, Terminal
<1>10. \A s : LP!Requeue(s) = Requeue(s)  BY <1>1 DEF LP!Requeue, Requeue
<1>11. \A s, n : LP!RetryStep(s, n) = RetryStep(s, n)
  BY <1>10 DEF LP!RetryStep, RetryStep, LP!ScheduleRetry, ScheduleRetry
<1>12. \A s, n : LP!RetryStepEnabled(s, n) <=> RetryStepEnabled(s, n)
  BY DEF LP!RetryStepEnabled, RetryStepEnabled, LP!RetryEligible, RetryEligible,
         LP!ErrorIsRetryable, ErrorIsRetryable
<1>13. \A s : LP!RequiresOperator(s) <=> RequiresOperator(s)
  BY DEF LP!RequiresOperator, RequiresOperator, LP!UnknownEffect, UnknownEffect
<1>14. \A s : LP!Abandoned(s) <=> Abandoned(s)  BY <1>13 DEF LP!Abandoned, Abandoned
<1>15. \A s, r : LP!RecoverCommitted(s, r) = RecoverCommitted(s, r)
  BY <1>1 DEF LP!RecoverCommitted, RecoverCommitted
<1>16. \A s : LP!BlockUnknownEffect(s) = BlockUnknownEffect(s)
  BY <1>1 DEF LP!BlockUnknownEffect, BlockUnknownEffect, LP!UnknownEffect, UnknownEffect
<1>17. \A s : LP!MarkInterrupted(s) = MarkInterrupted(s)
  BY DEF LP!MarkInterrupted, MarkInterrupted, LP!RestartNote, RestartNote
<1>18. \A s : LP!BaselineInterrupt(s) = BaselineInterrupt(s)
  BY DEF LP!BaselineInterrupt, BaselineInterrupt
<1>19. \A s, a : LP!AddDeadLetter(s, a) = AddDeadLetter(s, a)
  BY DEF LP!AddDeadLetter, AddDeadLetter
<1>20. \A s : LP!NeedsEvidence(s) <=> NeedsEvidence(s)
  BY DEF LP!NeedsEvidence, NeedsEvidence
<1>21. \A e : LP!QueuedSnapshot(e) = QueuedSnapshot(e)
  BY DEF LP!QueuedSnapshot, QueuedSnapshot
<1>. QED
  BY <1>2, <1>3, <1>4, <1>6, <1>7, <1>8, <1>9, <1>10, <1>11, <1>12, <1>13, <1>14,
     <1>15, <1>16, <1>17, <1>18, <1>19, <1>20, <1>21

\* The table of records.
LEMMA SameShapes ==
  /\ \A t : LP!Exists(t) <=> Exists(t)
  /\ \A t, s : LP!Put(t, s) <=> Put(t, s)
  /\ LP!Active = Active
  /\ LP!Outcomes = Outcomes
<1>1. LP!Outcomes = Outcomes
  BY DEF LP!Outcomes, Outcomes, LP!Outcome, Outcome, Completed, HandlerErrors, Failed, TimedOut
<1>2. \A t, s : LP!Put(t, s) <=> Put(t, s)  BY DEF LP!Put, Put
<1>. QED  BY <1>1, <1>2 DEF LP!Exists, Exists, LP!Active, Active

-----------------------------------------------------------------------------
(* What a step that writes one record leaves of the rest.                  *)

\* What a new record n keeps of the old one.
Carries(s, n) ==
  n.env = s.env /\ n.deadLetters = s.deadLetters /\ n.attempts = s.attempts

\* No transition but a claim, a new letter or a submission touches these.
LEMMA CarriedFields ==
  ASSUME NEW s \in Snapshots
  PROVE  /\ \A n : Carries(s, TouchHeartbeat(s, n))
         /\ \A r : Carries(s, CompleteCommittedEffect(s, r))
         /\ \A n : \A o \in Outcomes : Carries(s, ApplyOutcome(s, o, n))
         /\ Carries(s, MarkCancelled(s))
         /\ \A w : Carries(s, RequestCancel(s, w)) /\ Carries(s, MarkCancelled(RequestCancel(s, w)))
         /\ Carries(s, Requeue(s))
         /\ \A n : Carries(s, RetryStep(s, n))
         /\ \A r : Carries(s, RecoverCommitted(s, r))
         /\ Carries(s, BlockUnknownEffect(s))
         /\ Carries(s, MarkInterrupted(s))
         /\ Carries(s, BaselineInterrupt(s))
<1>1. \A n : Carries(s, TouchHeartbeat(s, n))
  BY DEF Carries, TouchHeartbeat, Snapshots, SnapshotType
<1>2. \A r : Carries(s, Complete(s, r))
  BY DEF Carries, Complete, Snapshots, SnapshotType
<1>3. \A r : Carries(s, CompleteCommittedEffect(s, r))
  BY DEF Carries, CompleteCommittedEffect, Complete, Snapshots, SnapshotType
<1>4. \A k, b : Carries(s, Fail(s, k, b))
  BY DEF Carries, Fail, Snapshots, SnapshotType
<1>5. \A n, b : Carries(s, TimeOut(s, n, b))
  BY DEF Carries, TimeOut, Snapshots, SnapshotType
<1>6. ASSUME NEW o \in Outcomes, NEW n  PROVE Carries(s, ApplyOutcome(s, o, n))
  <2>1. o.status \in {"completed", "failed", "timed_out"}
    BY OutcomeFacts DEF Outcomes, HandlerErrors
  <2>. QED  BY <1>2, <1>4, <1>5, <2>1 DEF ApplyOutcome
<1>7. Carries(s, MarkCancelled(s))
  BY DEF Carries, MarkCancelled, Snapshots, SnapshotType
<1>8. \A w : Carries(s, RequestCancel(s, w)) /\ Carries(s, MarkCancelled(RequestCancel(s, w)))
  BY DEF Carries, MarkCancelled, RequestCancel, Snapshots, SnapshotType
<1>9. Carries(s, Requeue(s))
  BY DEF Carries, Requeue, ClearOutcome, Snapshots, SnapshotType
<1>10. \A n : Carries(s, RetryStep(s, n))
  <2>1. \A n : Carries(s, ScheduleRetry(s, n))
    BY DEF Carries, ScheduleRetry, Snapshots, SnapshotType
  <2>. QED  BY <1>9, <2>1 DEF RetryStep
<1>11. \A r : Carries(s, RecoverCommitted(s, r))
  BY DEF Carries, RecoverCommitted, ClearOutcome, Snapshots, SnapshotType
<1>12. Carries(s, BlockUnknownEffect(s))
  BY DEF Carries, BlockUnknownEffect, ClearOutcome, Snapshots, SnapshotType
<1>13. Carries(s, MarkInterrupted(s)) /\ Carries(s, BaselineInterrupt(s))
  BY DEF Carries, MarkInterrupted, BaselineInterrupt, Snapshots, SnapshotType
<1>. QED
  BY <1>1, <1>3, <1>6, <1>7, <1>8, <1>9, <1>10, <1>11, <1>12, <1>13

\* Put stamps the generation and changes nothing else.
LEMMA PutFacts ==
  ASSUME LP!IInv, NEW t \in Tasks, NEW n \in Snapshots, Put(t, n)
  PROVE  /\ rec'[t] \in Snapshots /\ rec'[t] # None /\ rec'[t].generation = gen
         /\ Carries(n, rec'[t]) /\ rec'[t].status = n.status /\ rec'[t].owner = n.owner
         /\ rec'[t].cancelRequested = n.cancelRequested /\ rec'[t].result = n.result
         /\ rec'[t].reason = n.reason
         /\ \A u \in Tasks : u # t => rec'[u] = rec[u]
         /\ \A u \in Tasks : Exists(u) => rec'[u] # None
<1>1. PICK m : m = [n EXCEPT !.generation = gen]  OBVIOUS
<1>2. rec \in [Tasks -> Snapshots \cup {None}] /\ gen \in Nat  BY StoreFacts
<1>3. /\ m \in Snapshots /\ m.generation = gen /\ Carries(n, m) /\ m.status = n.status
      /\ m.owner = n.owner /\ m.cancelRequested = n.cancelRequested
      /\ m.result = n.result /\ m.reason = n.reason
  BY <1>1, <1>2 DEF Snapshots, SnapshotType, Carries
<1>4. m # None  BY <1>3, NoneFacts
<1>5. rec'[t] = m /\ \A u \in Tasks : u # t => rec'[u] = rec[u]
  BY <1>1, <1>2 DEF Put
<1>. QED  BY <1>3, <1>4, <1>5 DEF Exists

\* The parts that do not depend on where the threads stand.
LEMMA RecordStep ==
  ASSUME IInv, NEW t \in Tasks, NEW n \in Snapshots, Put(t, n), LP!IInv',
         UNCHANGED <<gen, ledger, calls, letters, scan, gate, phase>>,
         Serving, phase # "stopped", n.env = Env[t],
         Exists(t) => rec[t].deadLetters \subseteq n.deadLetters,
         \A a \in n.deadLetters : HasLetter(t, a),
         WorkerType', ControlType', ThreadsAtWork', AttemptIsLive', AttemptOwnsRecord',
         CancelUnderWay',
         wk'.pc = "checkpoint" => HasLetter(wk'.task, rec'[wk'.task].attempts),
         \A l \in letters : l.by = gen =>
            \/ l.attempt \in rec'[l.task].deadLetters \/ wk'.pc = "dead"
            \/ wk'.pc = "checkpoint" /\ wk'.task = l.task /\ l.attempt = rec'[wk'.task].attempts
  PROVE  IInv'
<1>1. LP!IInv  BY DEF IInv
<1>2. FileType' /\ LedgerCounts'  BY DEF IInv, FileType, LedgerCounts
<1>3. RecordOrigin'
  <2>1. gen \in 1..gen  BY <1>1, StoreFacts, RecordAssumption
  <2>2. ASSUME NEW u \in Tasks, rec'[u] # None
        PROVE  rec'[u].env = Env[u] /\ rec'[u].generation \in 1..gen
    <3>1. CASE u = t  BY <1>1, <2>1, <3>1, PutFacts DEF Carries
    <3>2. CASE u # t
      <4>1. rec'[u] = rec[u]  BY <1>1, <3>2, PutFacts
      <4>. QED  BY <2>2, <4>1 DEF IInv, RecordOrigin, Exists
    <3>. QED  BY <3>1, <3>2
  <2>. QED  BY <2>2 DEF RecordOrigin, Exists
<1>4. LettersFollow'
  <2>1. ASSUME NEW u \in Tasks, rec'[u] # None, NEW a \in rec'[u].deadLetters
        PROVE  HasLetter(u, a)
    <3>1. CASE u = t  BY <1>1, <2>1, <3>1, PutFacts DEF Carries
    <3>2. CASE u # t
      <4>1. rec'[u] = rec[u]  BY <1>1, <3>2, PutFacts
      <4>. QED  BY <2>1, <4>1 DEF IInv, LettersFollow, SummaryHasLetter, Exists
    <3>. QED  BY <3>1, <3>2
  <2>2. SummaryHasLetter'  BY <2>1 DEF SummaryHasLetter, HasLetter, Exists
  <2>3. \A l \in letters : rec'[l.task] # None
    BY <1>1, PutFacts DEF IInv, LettersFollow, FileType
  <2>. QED  BY <2>2, <2>3 DEF LettersFollow, HasLetter, Me, Exists
<1>5. StopIsClean' /\ RecoveredSoFar'  BY DEF StopIsClean, RecoveredSoFar, Serving
<1>. QED  BY <1>2, <1>3, <1>4, <1>5 DEF IInv

\* The control thread, or the heartbeat, writes one record.
LEMMA OtherPut ==
  ASSUME IInv, NEW t \in Tasks, NEW n \in Snapshots, Put(t, n), LP!IInv',
         UNCHANGED <<gen, ledger, calls, letters, scan, gate, phase, wk>>,
         Serving, phase # "stopped", n.env = Env[t],
         Exists(t) => Carries(rec[t], n), ~Exists(t) => n.deadLetters = {},
         wk.pc \in Attempting /\ t = wk.task => n.status \in Active /\ n.owner = Owner,
         ControlType',
         ctl' = ctl \/ (ctl'.pc # "drainCancel" /\ ctl'.task = t),
         phase = "serving" /\ wk.pc \in Dispatched /\ rec'[wk.task].cancelRequested =>
           wk.cancel \/ (ctl'.pc \in {"signal", "drainSignal"} /\ ctl'.task = wk.task)
  PROVE  IInv'
<1>1. LP!IInv  BY DEF IInv
<1>2. WorkerType' /\ AttemptOwnsRecord'
  BY DEF IInv, WorkerType, AttemptOwnsRecord, MyKey, MyOp
<1>3. ThreadsAtWork'
  <2>1. Serving'  BY DEF Serving
  <2>2. wk.pc \notin Resting => wk.task \in Tasks /\ rec'[wk.task] # None
    BY <1>1, PutFacts DEF IInv, ThreadsAtWork
  <2>3. ctl'.pc \in {"signal", "drainCancel", "drainSignal"} =>
          ctl'.task \in Tasks /\ rec'[ctl'.task] # None
    BY <1>1, PutFacts DEF IInv, ThreadsAtWork
  <2>4. ctl'.pc = "drainCancel" => ctl'.fence \in Fences /\ ctl'.fence.generation = gen'
    BY DEF IInv, ThreadsAtWork
  <2>. QED  BY <2>1, <2>2, <2>3, <2>4 DEF IInv, ThreadsAtWork, Exists
<1>4. AttemptIsLive'
  <2>1. SUFFICES ASSUME wk.pc \in Attempting
        PROVE  /\ rec'[wk.task].status \in Active /\ rec'[wk.task].generation = gen
               /\ rec'[wk.task].owner = Owner
               /\ rec'[wk.task].attempts = rec[wk.task].attempts
    BY DEF IInv, AttemptIsLive, Me
  <2>2. wk.task \in Tasks /\ Exists(wk.task)  BY <2>1, AttemptFacts
  <2>3. CASE wk.task = t  BY <1>1, <2>1, <2>2, <2>3, PutFacts DEF Carries
  <2>4. CASE wk.task # t
    <3>1. rec'[wk.task] = rec[wk.task]  BY <1>1, <2>2, <2>4, PutFacts
    <3>. QED  BY <2>1, <3>1, AttemptFacts DEF Me
  <2>. QED  BY <2>3, <2>4
<1>5. CancelUnderWay'  BY DEF CancelUnderWay, Me
<1>6. \A u \in Tasks : Exists(u) =>
        rec'[u].deadLetters = rec[u].deadLetters /\ rec'[u].attempts = rec[u].attempts
  BY <1>1, PutFacts DEF Carries
<1>7. \A a \in n.deadLetters : HasLetter(t, a)
  BY DEF IInv, LettersFollow, SummaryHasLetter, Carries
<1>8. wk.pc = "checkpoint" =>
        /\ HasLetter(wk.task, rec'[wk.task].attempts)
        /\ rec'[wk.task].attempts = Me.attempts
  BY <1>6 DEF IInv, LettersFollow, ThreadsAtWork, Resting, Me
<1>9. \A l \in letters : l.by = gen =>
        \/ l.attempt \in rec'[l.task].deadLetters \/ wk.pc = "dead"
        \/ wk.pc = "checkpoint" /\ wk.task = l.task /\ l.attempt = rec'[wk.task].attempts
  BY <1>6, <1>8 DEF IInv, LettersFollow, FileType
<1>10. Exists(t) => rec[t].deadLetters \subseteq n.deadLetters  BY DEF Carries
<1>. QED  BY <1>2, <1>3, <1>4, <1>5, <1>7, <1>8, <1>9, <1>10, RecordStep

-----------------------------------------------------------------------------
(* The steps that write a record, each as the operation of TaskLifecycle   *)
(* it performs.  Reported is what EffectOnce sees of a task's record.      *)

Reported(s) == IF s # None /\ s.status = "completed" THEN s.result ELSE None
ReportsKept == \A t \in Effectful : Reported(rec'[t]) = Reported(rec[t])

\* A write that completes nothing leaves the reports alone.
LEMMA PutKeepsReports ==
  ASSUME LP!IInv, NEW t \in Tasks, NEW n \in Snapshots, Put(t, n),
         \/ n.status # "completed" /\ (Exists(t) => rec[t].status # "completed")
         \/ Exists(t) /\ n.status = rec[t].status /\ n.result = rec[t].result
  PROVE  ReportsKept
<1>1. Reported(rec'[t]) = Reported(rec[t])  BY PutFacts DEF Reported, Exists
<1>2. \A u \in Tasks : u # t => rec'[u] = rec[u]  BY PutFacts
<1>. QED  BY <1>1, <1>2, NoneFacts DEF ReportsKept

\* So does a step that writes no record.
LEMMA SameReports == ASSUME rec' = rec  PROVE ReportsKept
BY DEF ReportsKept

\* A step of TaskLifecycle that leaves the generation, the clock and the mode.
LEMMA AsOperation ==
  ASSUME LP!IInv, UNCHANGED <<gen, now, phase>>, NEW t \in Tasks,
         \/ LP!Create(t) \/ LP!Attempt(t) \/ LP!CheckpointEvidence(t)
         \/ \E why \in {"operator", "shutdown"} : LP!RequestCancellation(t, why)
         \/ \E at \in 0..now : LP!RequeueRetryable(t, at)
         \/ LP!RecoverReplayDelivery(t) \/ LP!RecoverAbandonedTask(t)
         \/ LP!InterruptAfterRestart(t) \/ LP!BlockForUnknownEffect(t)
         \/ \E r \in Results : LP!RecoverFromCommittedEffect(t, r)
  PROVE  LP!Next /\ LP!IInv'
<1>1. LP!Next  BY DEF LP!Next
<1>. QED  BY <1>1, LifecycleStep

\* The claim starts an attempt no thread is on.
LEMMA ClaimStep == ASSUME IInv, NEW t \in Tasks, Claim(t)  PROVE IInv' /\ LP!Next /\ ReportsKept
<1>1. /\ Serving /\ wk.pc = "idle" /\ Exists(t) /\ Claimable(rec[t])
      /\ UNCHANGED <<ledger, calls, letters, gen, now, phase, scan, gate, ctl>>
  BY DEF Claim, effects, WorkerStep
<1>2. PICK n : n = ClaimForExecution(rec[t], Owner, now)  OBVIOUS
<1>3. /\ Put(t, n)
      /\ wk' = [IdleWorker EXCEPT !.pc = "claimed", !.task = t,
                  !.fence = FenceOf([n EXCEPT !.generation = gen])]
  BY <1>2 DEF Claim
<1>4. LP!IInv /\ now \in Nat /\ gen \in Nat  BY StoreFacts DEF IInv
<1>5. rec[t] \in Snapshots /\ Sound(rec[t])  BY <1>1, <1>4, RecordFacts
<1>6. n \in Snapshots /\ n.status = "running" /\ n.attempts = rec[t].attempts + 1
  BY <1>1, <1>2, <1>4, <1>5, NoneFacts, ClaimFacts DEF Snapshots
<1>7. n.owner = Owner /\ n.env = rec[t].env /\ n.deadLetters = rec[t].deadLetters
  BY <1>2, <1>5 DEF ClaimForExecution, ClearOutcome, Snapshots, SnapshotType
<1>8. LP!Next /\ LP!IInv'
  <2>1. LP!TryClaimQueued(t, Owner, now)
    BY <1>1, <1>2, <1>3, SameOperators, SameShapes DEF LP!TryClaimQueued, LP!Serve, Serving
  <2>2. LP!Attempt(t)  BY <1>4, <2>1 DEF LP!Attempt
  <2>. QED  BY <1>1, <1>4, <2>2, AsOperation
<1>9. FenceOf([n EXCEPT !.generation = gen])
        = [generation |-> gen, owner |-> Owner, attempt |-> n.attempts]
  BY <1>6, <1>7 DEF FenceOf, Snapshots, SnapshotType
<1>10. n.attempts \in Nat  BY <1>6 DEF Snapshots, SnapshotType
<1>11. /\ WorkerType' /\ wk'.pc = "claimed" /\ wk'.task = t /\ ~wk'.active
       /\ wk'.fence = [generation |-> gen, owner |-> Owner, attempt |-> n.attempts]
  <2>1. PICK f : f = [generation |-> gen, owner |-> Owner, attempt |-> n.attempts]  OBVIOUS
  <2>2. f \in Fences  BY <1>4, <1>10, <2>1 DEF Fences
  <2>3. wk' = [IdleWorker EXCEPT !.pc = "claimed", !.task = t, !.fence = f]
    BY <1>3, <1>9, <2>1
  <2>. QED  BY <2>1, <2>2, <2>3 DEF WorkerType, IdleWorker, Attempting
<1>12. phase # "stopped"  BY <1>1 DEF IInv, StopIsClean
<1>13. n.env = Env[t]  BY <1>1, <1>7 DEF IInv, RecordOrigin
<1>14. /\ rec'[t] # None /\ rec'[t].status = "running" /\ rec'[t].generation = gen
       /\ rec'[t].owner = Owner /\ rec'[t].attempts = n.attempts
       /\ rec'[t].deadLetters = n.deadLetters
       /\ \A u \in Tasks : u # t => rec'[u] = rec[u]
       /\ \A u \in Tasks : Exists(u) => rec'[u] # None
  BY <1>3, <1>4, <1>6, <1>7, PutFacts DEF Carries
<1>15. ControlType'  BY <1>1 DEF IInv, ControlType
<1>16. AttemptIsLive'
  BY <1>1, <1>11, <1>14 DEF AttemptIsLive, Me, Active
<1>17. AttemptOwnsRecord' /\ CancelUnderWay'
  BY <1>11 DEF AttemptOwnsRecord, CancelUnderWay, Dispatched
<1>18. ThreadsAtWork'
  <2>1. Serving'  BY <1>1 DEF Serving
  <2>2. ctl'.pc = "drainCancel" => ctl'.fence \in Fences /\ ctl'.fence.generation = gen'
    BY <1>1 DEF IInv, ThreadsAtWork
  <2>3. ctl'.pc \in {"signal", "drainCancel", "drainSignal"} =>
          ctl'.task \in Tasks /\ rec'[ctl'.task] # None
    BY <1>1, <1>14 DEF IInv, ThreadsAtWork
  <2>. QED  BY <1>11, <1>14, <2>1, <2>2, <2>3 DEF ThreadsAtWork, Exists, Dispatched
<1>19. \A a \in n.deadLetters : HasLetter(t, a)
  BY <1>1, <1>7 DEF IInv, LettersFollow, SummaryHasLetter
<1>20. \A l \in letters : l.by = gen => l.attempt \in rec'[l.task].deadLetters
  BY <1>1, <1>7, <1>14 DEF IInv, LettersFollow, FileType
<1>21. IInv'
  BY <1>1, <1>3, <1>6, <1>7, <1>8, <1>11, <1>12, <1>13, <1>15, <1>16, <1>17, <1>18,
     <1>19, <1>20, RecordStep
<1>22. ReportsKept
  BY <1>1, <1>3, <1>4, <1>6, PutKeepsReports DEF Claimable
<1>. QED  BY <1>8, <1>21, <1>22

\* A heartbeat touches nothing but the time.
LEMMA HeartbeatStep == ASSUME IInv, Heartbeat  PROVE IInv' /\ LP!Next /\ ReportsKept
<1>1. /\ HeartbeatRuns /\ now > Me.heartbeat
      /\ UNCHANGED <<ledger, calls, letters, gen, now, phase, scan, gate, wk, ctl>>
  BY DEF Heartbeat, effects
<1>2. wk.pc \in Attempting  BY <1>1 DEF HeartbeatRuns, Attempting, Dispatched
<1>3. PICK n : n = TouchHeartbeat(Me, now)  OBVIOUS
<1>4. Put(wk.task, n)  BY <1>3 DEF Heartbeat
<1>5. LP!IInv /\ now \in Nat  BY StoreFacts DEF IInv
<1>6. /\ Serving /\ phase # "stopped" /\ wk.task \in Tasks /\ Exists(wk.task)
      /\ Me \in Snapshots /\ Sound(Me) /\ Me.status \in Active /\ Me.generation = gen
      /\ Me.owner = Owner
  BY <1>2, AttemptFacts
<1>7. /\ n \in Snapshots /\ n.status = Me.status /\ n.cancelRequested = Me.cancelRequested
  BY <1>3, <1>5, <1>6, NoneFacts, TouchFacts DEF Snapshots
<1>8. n.owner = Owner /\ Carries(Me, n)
  BY <1>3, <1>6, CarriedFields DEF TouchHeartbeat, Snapshots, SnapshotType
<1>9. LP!Next /\ LP!IInv'
  <2>1. LP!HeartbeatExecution(wk.task, Owner, now)
    BY <1>1, <1>3, <1>4, <1>6, SameOperators, SameShapes
    DEF LP!HeartbeatExecution, LP!Serve, LP!Fenced, Me, Serving
  <2>2. LP!Attempt(wk.task)  BY <1>5, <2>1 DEF LP!Attempt
  <2>. QED  BY <1>1, <1>5, <1>6, <2>2, AsOperation
<1>10. n.env = Env[wk.task]  BY <1>6, <1>8 DEF IInv, RecordOrigin, Carries, Me
<1>11. ControlType'  BY <1>1 DEF IInv, ControlType
<1>12. rec'[wk.task].cancelRequested = Me.cancelRequested
  BY <1>4, <1>5, <1>6, <1>7, PutFacts
<1>13. phase = "serving" /\ wk.pc \in Dispatched /\ rec'[wk.task].cancelRequested =>
         wk.cancel \/ (ctl'.pc \in {"signal", "drainSignal"} /\ ctl'.task = wk.task)
  BY <1>1, <1>12 DEF IInv, CancelUnderWay
<1>14. IInv'
  <2>1. Carries(rec[wk.task], n)  BY <1>8 DEF Me
  <2>2. PICK t \in Tasks : t = wk.task  BY <1>6
  <2>3. Put(t, n) /\ Exists(t) /\ Carries(rec[t], n) /\ n.env = Env[t]
    BY <1>4, <1>6, <1>10, <2>1, <2>2
  <2>4. n.status \in Active /\ n.owner = Owner  BY <1>6, <1>7, <1>8
  <2>5. UNCHANGED <<gen, ledger, calls, letters, scan, gate, phase, wk>> /\ ctl' = ctl
    BY <1>1
  <2>. QED  BY <1>6, <1>7, <1>9, <1>11, <1>13, <2>3, <2>4, <2>5, OtherPut
<1>15. ReportsKept
  BY <1>4, <1>5, <1>6, <1>7, PutKeepsReports DEF Active, Me
<1>. QED  BY <1>9, <1>14, <1>15

\* A drain that closed the gate cancels the attempt it meets before dispatch.
LEMMA PreDispatchStep ==
  ASSUME IInv, PreDispatch  PROVE IInv' /\ (LP!Next \/ rec' = rec) /\ ReportsKept
<1>1. CASE UNCHANGED rec  BY <1>1, PreDispatchKeeps, SameReports
<1>2. CASE /\ ~Me.cancelRequested /\ Put(wk.task, RequestCancel(Me, "shutdown"))
           /\ CancelPrecedesDispatch
  <2>1. /\ UNCHANGED <<ledger, calls, letters, gen, now, phase, scan, gate, ctl>>
        /\ wk.pc = "registered"
    BY DEF PreDispatch, effects, WorkerStep
  <2>2. PICK n : n = RequestCancel(Me, "shutdown")  OBVIOUS
  <2>3. wk.pc \in Attempting  BY <2>1 DEF Attempting
  <2>4. LP!IInv /\ now \in Nat  BY StoreFacts DEF IInv
  <2>5. /\ Serving /\ phase # "stopped" /\ wk.task \in Tasks /\ Exists(wk.task)
        /\ Me \in Snapshots /\ Sound(Me) /\ Me.status \in Active /\ Me.generation = gen
        /\ Me.owner = Owner /\ wk.fence \in Fences /\ wk.fence.generation = gen
        /\ wk.fence = [generation |-> gen, owner |-> Owner, attempt |-> Me.attempts]
    BY <2>3, AttemptFacts
  <2>6. n \in Snapshots /\ n.status = "cancelling"
    BY <2>2, <2>5, CancelActiveFacts DEF Snapshots
  <2>7. n.owner = Owner /\ Carries(Me, n)
    BY <2>2, <2>5, CarriedFields DEF RequestCancel, Snapshots, SnapshotType
  <2>8. LP!Next /\ LP!IInv'
    <3>1. LP!RequestExecutionCancellation(wk.task, Owner, "shutdown")
      BY <1>2, <2>1, <2>5, SameOperators, SameShapes
      DEF LP!RequestExecutionCancellation, LP!Serve, LP!Fenced, Me, Serving
    <3>2. LP!Attempt(wk.task)  BY <3>1 DEF LP!Attempt
    <3>. QED  BY <2>1, <2>4, <2>5, <3>2, AsOperation
  <2>9. Failed(FALSE) \in Outcomes /\ Failed(FALSE).status = "failed"  BY OutcomeFacts
  <2>10. /\ WorkerType' /\ wk'.pc = "finish" /\ wk'.task = wk.task /\ wk'.fence = wk.fence
         /\ wk'.fin = "plain" /\ wk'.out = Failed(FALSE) /\ wk'.active = wk.active
    BY <1>2, <2>9 DEF CancelPrecedesDispatch, IInv, WorkerType, Attempting
  <2>11. PICK t \in Tasks : t = wk.task  BY <2>5
  <2>12. Put(t, n) /\ Exists(t) /\ Carries(rec[t], n)
    BY <1>2, <2>2, <2>5, <2>7, <2>11 DEF Me
  <2>13. n.env = Env[t]  BY <2>12 DEF IInv, RecordOrigin, Carries
  <2>14. /\ rec'[t] # None /\ rec'[t].status = "cancelling" /\ rec'[t].generation = gen
         /\ rec'[t].owner = Owner /\ rec'[t].attempts = rec[t].attempts
         /\ rec'[t].deadLetters = rec[t].deadLetters
         /\ \A u \in Tasks : u # t => rec'[u] = rec[u]
         /\ \A u \in Tasks : Exists(u) => rec'[u] # None
    BY <2>4, <2>6, <2>7, <2>12, PutFacts DEF Carries
  <2>15. ControlType'  BY <2>1 DEF IInv, ControlType
  <2>16. AttemptIsLive'
    BY <2>1, <2>5, <2>10, <2>11, <2>14 DEF AttemptIsLive, Me, Active
  <2>17. AttemptOwnsRecord' /\ CancelUnderWay'
    BY <2>9, <2>10 DEF AttemptOwnsRecord, CancelUnderWay, Dispatched
  <2>18. ThreadsAtWork'
    <3>1. Serving'  BY <2>1, <2>5 DEF Serving
    <3>2. ctl'.pc = "drainCancel" => ctl'.fence \in Fences /\ ctl'.fence.generation = gen'
      BY <2>1 DEF IInv, ThreadsAtWork
    <3>3. ctl'.pc \in {"signal", "drainCancel", "drainSignal"} =>
            ctl'.task \in Tasks /\ rec'[ctl'.task] # None
      BY <2>1, <2>14 DEF IInv, ThreadsAtWork
    <3>4. wk'.fence \in Fences /\ wk'.fence.generation = gen'  BY <2>1, <2>5, <2>10
    <3>. QED  BY <2>10, <2>11, <2>14, <3>1, <3>2, <3>3, <3>4
              DEF ThreadsAtWork, Exists, Dispatched, Resting
  <2>19. \A a \in n.deadLetters : HasLetter(t, a)
    BY <2>12 DEF IInv, LettersFollow, SummaryHasLetter, Carries
  <2>20. \A l \in letters : l.by = gen => l.attempt \in rec'[l.task].deadLetters
    BY <2>1, <2>14 DEF IInv, LettersFollow, FileType
  <2>21. IInv'
    BY <2>1, <2>5, <2>6, <2>8, <2>10, <2>12, <2>13, <2>15, <2>16, <2>17, <2>18,
       <2>19, <2>20, RecordStep DEF Carries
  <2>22. ReportsKept
    BY <2>4, <2>5, <2>6, <2>11, <2>12, PutKeepsReports DEF Active, Me
  <2>. QED  BY <2>8, <2>21, <2>22
<1>. QED  BY <1>1, <1>2 DEF PreDispatch

\* The worker has written the outcome or the evidence and lets go of the task,
\* or goes on to report it.
LEMMA WorkerPut ==
  ASSUME IInv, NEW n \in Snapshots, Put(wk.task, n), LP!IInv',
         wk.pc \in {"finish", "checkpoint"},
         UNCHANGED <<ledger, calls, letters, gen, now, phase, scan, gate, ctl>>,
         n.env = Me.env, Me.deadLetters \subseteq n.deadLetters,
         \A a \in n.deadLetters : HasLetter(wk.task, a),
         wk.pc = "checkpoint" => Me.attempts \in n.deadLetters,
         \/ wk' = [IdleWorker EXCEPT !.pc = "idle"]
         \/ wk.pc = "finish" /\ wk' = [wk EXCEPT !.pc = "evidence"]
  PROVE  IInv'
<1>1. LP!IInv  BY DEF IInv
<1>2. Serving /\ phase # "stopped" /\ wk.task \in Tasks /\ Exists(wk.task)
  BY DEF IInv, StopIsClean, ThreadsAtWork, Resting
<1>3. /\ WorkerType' /\ wk'.pc \in {"idle", "evidence"}
      /\ wk'.active => wk.active /\ wk'.pc = "evidence" /\ wk'.fence = wk.fence
      /\ wk'.pc = "evidence" => wk'.task = wk.task
  BY DEF IInv, WorkerType, IdleWorker, Resting, Reporting
<1>4. PICK t \in Tasks : t = wk.task  BY <1>2
<1>5. /\ rec'[t] # None /\ rec'[t].deadLetters = n.deadLetters
      /\ \A u \in Tasks : u # t => rec'[u] = rec[u]
      /\ \A u \in Tasks : Exists(u) => rec'[u] # None
  BY <1>1, <1>4, PutFacts DEF Carries
<1>6. ControlType'  BY DEF IInv, ControlType
<1>7. AttemptIsLive' /\ AttemptOwnsRecord' /\ CancelUnderWay'
  BY <1>3 DEF AttemptIsLive, AttemptOwnsRecord, CancelUnderWay, Attempting, Dispatched
<1>8. ThreadsAtWork'
  <2>1. Serving'  BY <1>2 DEF Serving
  <2>2. ctl'.pc = "drainCancel" => ctl'.fence \in Fences /\ ctl'.fence.generation = gen'
    BY DEF IInv, ThreadsAtWork
  <2>3. ctl'.pc \in {"signal", "drainCancel", "drainSignal"} =>
          ctl'.task \in Tasks /\ rec'[ctl'.task] # None
    BY <1>5 DEF IInv, ThreadsAtWork
  <2>4. wk'.active => wk'.fence \in Fences /\ wk'.fence.generation = gen'
    BY <1>3 DEF IInv, ThreadsAtWork
  <2>. QED  BY <1>3, <1>4, <1>5, <2>1, <2>2, <2>3, <2>4
            DEF ThreadsAtWork, Exists, Dispatched, Resting
<1>9. ASSUME NEW l \in letters, l.by = gen  PROVE l.attempt \in rec'[l.task].deadLetters
  <2>1. l.task \in Tasks  BY DEF IInv, FileType
  <2>2. \/ l.attempt \in rec[l.task].deadLetters
        \/ wk.pc = "checkpoint" /\ wk.task = l.task /\ l.attempt = Me.attempts
    BY <1>9 DEF IInv, LettersFollow
  <2>. QED  BY <1>4, <1>5, <2>1, <2>2 DEF Me
<1>10. n.env = Env[t] /\ (Exists(t) => rec[t].deadLetters \subseteq n.deadLetters)
  BY <1>2, <1>4 DEF IInv, RecordOrigin, Me
<1>11. Put(t, n) /\ \A a \in n.deadLetters : HasLetter(t, a)  BY <1>4
<1>12. wk'.pc # "checkpoint"  BY <1>3
<1>. QED  BY <1>2, <1>3, <1>6, <1>7, <1>8, <1>9, <1>10, <1>11, <1>12, RecordStep

\* The summary follows its letter.
LEMMA CheckpointStep ==
  ASSUME IInv, CheckpointEvidence  PROVE IInv' /\ LP!Next /\ ReportsKept
<1>1. /\ wk.pc = "checkpoint" /\ NeedsEvidence(Me)
      /\ UNCHANGED <<ledger, calls, letters, gen, now, phase, scan, gate, ctl>>
      /\ wk' = [IdleWorker EXCEPT !.pc = "idle"]
  BY DEF CheckpointEvidence, effects, WorkerStep, Unregister
<1>2. /\ LP!IInv /\ Serving /\ wk.task \in Tasks /\ Exists(wk.task)
      /\ HasLetter(wk.task, Me.attempts)
  BY <1>1 DEF IInv, ThreadsAtWork, Resting, LettersFollow
<1>3. Me \in Snapshots /\ Sound(Me)  BY <1>2, RecordFacts DEF Me
<1>4. Me.attempts \in Nat  BY <1>3 DEF Snapshots, SnapshotType
<1>5. PICK n : n = AddDeadLetter(Me, Me.attempts)  OBVIOUS
<1>6. Put(wk.task, n)  BY <1>5 DEF CheckpointEvidence
<1>7. n \in Snapshots /\ n.status = Me.status /\ n.result = Me.result
  BY <1>3, <1>4, <1>5, AddDeadLetterFacts DEF Snapshots
<1>8. n.env = Me.env /\ n.deadLetters = Me.deadLetters \cup {Me.attempts}
  BY <1>3, <1>5 DEF AddDeadLetter, Snapshots, SnapshotType
<1>9. LP!Next /\ LP!IInv'
  <2>1. LP!CheckpointEvidence(wk.task)
    BY <1>1, <1>2, <1>5, <1>6, SameOperators, SameShapes
    DEF LP!CheckpointEvidence, LP!Serve, Me, Serving
  <2>. QED  BY <1>1, <1>2, <2>1, AsOperation
<1>10. \A a \in n.deadLetters : HasLetter(wk.task, a)
  BY <1>2, <1>8 DEF IInv, LettersFollow, SummaryHasLetter, Me
<1>11. IInv'  BY <1>1, <1>6, <1>7, <1>8, <1>9, <1>10, WorkerPut
<1>12. ReportsKept  BY <1>2, <1>6, <1>7, PutKeepsReports DEF Me
<1>. QED  BY <1>9, <1>11, <1>12

\* Task t is reported completed, with the result the ledger holds for it.
Reports(t) ==
  /\ t \in Effectful /\ Committed(ledger[KeyOf[t]]) /\ ledger[KeyOf[t]].op = OpOf[t]
  /\ Reported(rec[t]) = None /\ Reported(rec'[t]) = ledger[KeyOf[t]].result
  /\ \A u \in Effectful : u # t => Reported(rec'[u]) = Reported(rec[u])

\* The outcome: what the ledger committed, a block, or the handler's own.
LEMMA FinishStep ==
  ASSUME IInv, Finish  PROVE IInv' /\ LP!Next /\ (ReportsKept \/ Reports(wk.task))
<1>1. /\ wk.pc = "finish" /\ VerifyFence(Me, wk.fence) /\ Me.status \in Active
      /\ UNCHANGED <<ledger, calls, letters, gen, now, phase, scan, gate, ctl>>
  BY DEF Finish, effects, WorkerStep
<1>2. wk.pc \in Attempting  BY <1>1 DEF Attempting
<1>3. /\ Serving /\ wk.task \in Tasks /\ Exists(wk.task) /\ Me \in Snapshots /\ Sound(Me)
      /\ Me.generation = gen /\ Me.owner = Owner /\ MyKey \in Keys
  BY <1>2, AttemptFacts
<1>4. LP!IInv /\ now \in Nat /\ now \in 0..now  BY StoreFacts DEF IInv
<1>5. /\ wk.out \in Outcomes
      /\ wk.fin = "committed" =>
           /\ wk.task \in Effectful /\ Committed(ledger[MyKey]) /\ ledger[MyKey].op = MyOp
           /\ wk.out = Completed(ledger[MyKey].result)
      /\ wk.fin # "committed" /\ wk.task \in Effectful => wk.out.status # "completed"
  BY <1>1 DEF IInv, AttemptOwnsRecord
<1>6. PICK out :
        /\ out \in IF wk.hbError /\ wk.fin = "plain" THEN {Failed(b) : b \in BOOLEAN}
                   ELSE {wk.out}
        /\ Put(wk.task, Finished(out))
        /\ IF ~wk.quiet /\ NeedsEvidence(Finished(out))
           THEN wk' = [wk EXCEPT !.pc = "evidence"] ELSE Unregister("idle")
  BY DEF Finish
<1>7. /\ out \in Outcomes /\ (wk.fin = "committed" => out = wk.out)
      /\ wk.fin # "committed" /\ wk.task \in Effectful => out.status # "completed"
  BY <1>5, <1>6, OutcomeFacts
<1>8. PICK n : n = Finished(out)  OBVIOUS
<1>9. \/ wk' = [IdleWorker EXCEPT !.pc = "idle"]
      \/ wk' = [wk EXCEPT !.pc = "evidence"]
  BY <1>6 DEF Unregister
<1>10. Put(wk.task, n)  BY <1>6, <1>8
<1>11. ASSUME wk.fin = "block"
       PROVE  n \in Snapshots /\ Carries(Me, n) /\ LP!Attempt(wk.task) /\ n.status # "completed"
  <2>1. n = BlockUnknownEffect(Me)  BY <1>8, <1>11 DEF Finished
  <2>2. n \in Snapshots /\ n.status = "interrupted"
    BY <1>3, <2>1, BlockFacts DEF Snapshots
  <2>3. Carries(Me, n)  BY <1>3, <2>1, CarriedFields
  <2>4. LP!BlockPreparedEffect(wk.task, Owner)
    BY <1>1, <1>3, <1>10, <2>1, SameOperators, SameShapes
    DEF LP!BlockPreparedEffect, LP!Serve, LP!Fenced, Me, Serving
  <2>5. LP!Attempt(wk.task)  BY <2>4 DEF LP!Attempt
  <2>. QED  BY <2>2, <2>3, <2>5
<1>12. ASSUME wk.fin = "committed"
       PROVE  /\ n \in Snapshots /\ Carries(Me, n) /\ LP!Attempt(wk.task)
              /\ n.status = "completed" /\ n.result = ledger[MyKey].result
  <2>1. ledger[MyKey].result \in Results
    BY <1>3, <1>5, <1>12 DEF IInv, LedgerCounts, Committed
  <2>2. PICK r \in Results : r = ledger[MyKey].result  BY <2>1
  <2>3. out.result = r  BY <1>5, <1>7, <1>12, <2>2, OutcomeFacts
  <2>4. n = CompleteCommittedEffect(Me, r)  BY <1>8, <1>12, <2>3 DEF Finished
  <2>5. n \in Snapshots /\ n.status = "completed" /\ n.result = r
    BY <1>1, <1>3, <2>4, NoneFacts, CompleteCommittedFacts DEF Snapshots
  <2>6. Carries(Me, n)  BY <1>3, <2>4, CarriedFields
  <2>7. LP!FinishCommittedEffect(wk.task, Owner, r)
    BY <1>1, <1>3, <1>10, <2>4, SameOperators, SameShapes
    DEF LP!FinishCommittedEffect, LP!Serve, LP!Fenced, Me, Serving
  <2>8. LP!Attempt(wk.task)  BY <2>7 DEF LP!Attempt
  <2>. QED  BY <2>2, <2>5, <2>6, <2>8
<1>13. ASSUME wk.fin \notin {"block", "committed"}, Me.status = "cancelling"
       PROVE  n \in Snapshots /\ Carries(Me, n) /\ LP!Attempt(wk.task) /\ n.status # "completed"
  <2>1. n = MarkCancelled(Me)  BY <1>8, <1>13 DEF Finished
  <2>2. n \in Snapshots /\ n.status = "cancelled"
    BY <1>3, <1>13, <2>1, MarkCancelledFacts DEF Snapshots
  <2>3. Carries(Me, n)  BY <1>3, <2>1, CarriedFields
  <2>4. LP!FinishExecution(wk.task, Owner, out, now)
    BY <1>1, <1>3, <1>10, <1>13, <2>1, SameOperators, SameShapes
    DEF LP!FinishExecution, LP!Serve, LP!Fenced, Me, Serving
  <2>5. LP!Attempt(wk.task)  BY <1>4, <1>7, <2>4, SameShapes DEF LP!Attempt
  <2>. QED  BY <2>2, <2>3, <2>5
<1>14. ASSUME wk.fin \notin {"block", "committed"}, Me.status = "running"
       PROVE  /\ n \in Snapshots /\ Carries(Me, n) /\ LP!Attempt(wk.task)
              /\ wk.task \in Effectful => n.status # "completed"
  <2>1. n = ApplyOutcome(Me, out, now)  BY <1>8, <1>14 DEF Finished
  <2>2. Carries(Me, n)  BY <1>3, <1>7, <2>1, CarriedFields
  <2>3. LP!FinishExecution(wk.task, Owner, out, now)
    BY <1>1, <1>3, <1>10, <1>14, <2>1, SameOperators, SameShapes
    DEF LP!FinishExecution, LP!Serve, LP!Fenced, Me, Serving
  <2>4. LP!Attempt(wk.task)  BY <1>4, <1>7, <2>3, SameShapes DEF LP!Attempt
  <2>5. CASE \E r \in Results : out = Completed(r)
    <3>1. PICK r \in Results : out = Completed(r)  BY <2>5
    <3>2. n = Complete(Me, r) /\ out.status = "completed"
      BY <2>1, <3>1, OutcomeFacts DEF ApplyOutcome
    <3>3. n \in Snapshots  BY <1>3, <1>14, <3>2, NoneFacts, CompleteFacts DEF Snapshots
    <3>. QED  BY <1>7, <1>14, <2>2, <2>4, <3>2, <3>3
  <2>6. CASE \E b \in BOOLEAN : out = Failed(b)
    <3>1. PICK b \in BOOLEAN : out = Failed(b)  BY <2>6
    <3>2. n = Fail(Me, "error", b)  BY <2>1, <3>1 DEF ApplyOutcome, Failed, Outcome
    <3>3. n \in Snapshots /\ n.status = "failed"
      BY <1>3, <1>14, <3>2, NoneFacts, FailFacts DEF Snapshots
    <3>. QED  BY <2>2, <2>4, <3>3
  <2>7. CASE \E b \in BOOLEAN : out = TimedOut(b)
    <3>1. PICK b \in BOOLEAN : out = TimedOut(b)  BY <2>7
    <3>2. n = TimeOut(Me, now, b)  BY <2>1, <3>1 DEF ApplyOutcome, TimedOut, Outcome
    <3>3. n \in Snapshots /\ n.status = "timed_out"
      BY <1>3, <1>4, <1>14, <3>2, NoneFacts, TimeOutFacts DEF Snapshots
    <3>. QED  BY <2>2, <2>4, <3>3
  <2>. QED  BY <1>7, <2>5, <2>6, <2>7 DEF Outcomes, HandlerErrors
<1>15. /\ n \in Snapshots /\ Carries(Me, n) /\ LP!Attempt(wk.task)
       /\ wk.fin # "committed" /\ wk.task \in Effectful => n.status # "completed"
  BY <1>1, <1>11, <1>12, <1>13, <1>14 DEF Active
<1>16. LP!Next /\ LP!IInv'  BY <1>1, <1>3, <1>4, <1>15, AsOperation
<1>17. IInv'
  <2>1. \A a \in n.deadLetters : HasLetter(wk.task, a)
    BY <1>3, <1>15 DEF IInv, LettersFollow, SummaryHasLetter, Carries, Me
  <2>2. n.env = Me.env /\ Me.deadLetters \subseteq n.deadLetters  BY <1>15 DEF Carries
  <2>. QED  BY <1>1, <1>9, <1>10, <1>15, <1>16, <2>1, <2>2, WorkerPut
<1>18. /\ \A u \in Tasks : u # wk.task => rec'[u] = rec[u]
       /\ rec'[wk.task] # None /\ rec'[wk.task].status = n.status
       /\ rec'[wk.task].result = n.result
  BY <1>3, <1>4, <1>10, <1>15, PutFacts
<1>19. Reported(rec[wk.task]) = None  BY <1>1 DEF Reported, Active, Me
<1>20. CASE wk.fin = "committed"
  <2>1. Reported(rec'[wk.task]) = ledger[MyKey].result  BY <1>12, <1>18, <1>20 DEF Reported
  <2>2. Reports(wk.task)
    BY <1>5, <1>18, <1>19, <1>20, <2>1, NoneFacts DEF Reports, MyKey, MyOp
  <2>. QED  BY <1>16, <1>17, <2>2
<1>21. CASE wk.fin # "committed"
  <2>1. wk.task \in Effectful => Reported(rec'[wk.task]) = None
    BY <1>15, <1>18, <1>21 DEF Reported
  <2>2. ReportsKept  BY <1>18, <1>19, <2>1, NoneFacts DEF ReportsKept
  <2>. QED  BY <1>16, <1>17, <2>2
<1>. QED  BY <1>20, <1>21

-----------------------------------------------------------------------------
(* The control thread.                                                     *)

\* The control thread works for a serving daemon only.
LEMMA ControlFacts ==
  ASSUME IInv, Control
  PROVE  /\ phase = "serving" /\ Serving /\ LP!IInv /\ now \in Nat /\ now \in 0..now
         /\ UNCHANGED <<gen, now, ledger, calls, letters, scan>>
BY StoreFacts DEF IInv, Control, Serving, effects

\* The control thread writes no record.
LEMMA ControlMoves ==
  ASSUME IInv, Control, UNCHANGED rec, gate' \in BOOLEAN,
         phase' \in {"serving", "stopped", "drainFailed"}, ControlType', WorkerType',
         wk'.pc = wk.pc, wk'.task = wk.task, wk'.fence = wk.fence, wk'.active = wk.active,
         wk'.out = wk.out, wk'.fin = wk.fin,
         ctl'.pc \in {"signal", "drainCancel", "drainSignal"} =>
            ctl'.task \in Tasks /\ rec[ctl'.task] # None,
         ctl'.pc = "drainCancel" => ctl'.fence \in Fences /\ ctl'.fence.generation = gen,
         CancelUnderWay', StopIsClean'
  PROVE  IInv'
<1>1. /\ phase = "serving" /\ Serving /\ LP!IInv
      /\ UNCHANGED <<gen, now, ledger, calls, letters, scan, rec>>
  BY ControlFacts
<1>2. LP!IInv'
  <2>1. UNCHANGED LP!vars  BY <1>1 DEF LP!vars, Serving
  <2>. QED  BY <1>1, <2>1, LifecycleStep
<1>3. FileType' /\ RecordOrigin' /\ LedgerCounts'
  BY <1>1 DEF IInv, FileType, RecordOrigin, LedgerCounts, Exists
<1>4. ThreadsAtWork'
  BY <1>1 DEF IInv, ThreadsAtWork, Exists, Serving
<1>5. AttemptIsLive'  BY <1>1 DEF IInv, AttemptIsLive, Me
<1>6. AttemptOwnsRecord'  BY <1>1 DEF IInv, AttemptOwnsRecord, MyKey, MyOp
<1>7. LettersFollow'
  BY <1>1 DEF IInv, LettersFollow, SummaryHasLetter, HasLetter, Me, Exists
<1>8. RecoveredSoFar'  BY DEF RecoveredSoFar
<1>. QED  BY <1>2, <1>3, <1>4, <1>5, <1>6, <1>7, <1>8 DEF IInv

\* The signal reaches the attempt that is registered.
LEMMA SignalStep ==
  ASSUME IInv, SignalCancellation \/ DrainSignal  PROVE IInv' /\ rec' = rec
<1>1. /\ Control /\ UNCHANGED <<rec, phase, gate>>
      /\ wk' = [wk EXCEPT !.cancel = @ \/ (wk.active /\ wk.task = ctl.task)]
      /\ ctl' = IdleControl \/ ctl' = [ctl EXCEPT !.pc = "cooperate"]
  BY DEF SignalCancellation, DrainSignal, GoTo
<1>2. phase = "serving" /\ gate \in BOOLEAN  BY <1>1, ControlFacts DEF IInv, FileType
<1>3. ControlType' /\ ctl'.pc \in {"idle", "cooperate"}
  BY <1>1 DEF IInv, ControlType, IdleControl, DrainSteps
<1>4. /\ WorkerType' /\ wk'.pc = wk.pc /\ wk'.task = wk.task /\ wk'.fence = wk.fence
      /\ wk'.active = wk.active /\ wk'.out = wk.out /\ wk'.fin = wk.fin
      /\ wk'.cancel = (wk.cancel \/ (wk.active /\ wk.task = ctl.task))
  BY <1>1 DEF IInv, WorkerType
<1>5. CancelUnderWay'
  BY <1>1, <1>2, <1>4 DEF IInv, CancelUnderWay, ThreadsAtWork, Me
<1>6. StopIsClean'  BY <1>1, <1>2 DEF StopIsClean
<1>. QED  BY <1>1, <1>2, <1>3, <1>4, <1>5, <1>6, ControlMoves

\* The drain takes the result permit back, and signals once more.
LEMMA RevokeStep == ASSUME IInv, RevokeHandlerResults  PROVE IInv' /\ rec' = rec
<1>1. /\ Control /\ UNCHANGED <<rec, phase, gate>>
      /\ wk' = [wk EXCEPT !.cap = IF @ = "pending" THEN "revoked" ELSE @, !.cancel = TRUE]
      /\ ctl' = [ctl EXCEPT !.pc = "flush"]
  BY DEF RevokeHandlerResults, GoTo
<1>2. phase = "serving" /\ gate \in BOOLEAN  BY <1>1, ControlFacts DEF IInv, FileType
<1>3. ControlType' /\ ctl'.pc = "flush"
  BY <1>1 DEF IInv, ControlType, DrainSteps
<1>4. /\ WorkerType' /\ wk'.pc = wk.pc /\ wk'.task = wk.task /\ wk'.fence = wk.fence
      /\ wk'.active = wk.active /\ wk'.out = wk.out /\ wk'.fin = wk.fin /\ wk'.cancel
  BY <1>1 DEF IInv, WorkerType
<1>5. CancelUnderWay'  BY <1>4 DEF CancelUnderWay
<1>6. StopIsClean'  BY <1>1, <1>2 DEF StopIsClean
<1>. QED  BY <1>1, <1>2, <1>3, <1>4, <1>5, <1>6, ControlMoves

\* The drain's waits: the gate, the grace period, the idle worker.
LEMMA DrainWaitStep ==
  ASSUME IInv, CloseClaimGate \/ WaitForIdle \/ GraceElapses  PROVE IInv' /\ rec' = rec
<1>1. Control /\ UNCHANGED <<rec, phase, wk>>
  BY DEF CloseClaimGate, WaitForIdle, GraceElapses
<1>2. phase = "serving" /\ gate' \in BOOLEAN
  BY <1>1, ControlFacts DEF IInv, FileType, CloseClaimGate, WaitForIdle, GraceElapses
<1>3. /\ WorkerType' /\ wk'.pc = wk.pc /\ wk'.task = wk.task /\ wk'.fence = wk.fence
      /\ wk'.active = wk.active /\ wk'.out = wk.out /\ wk'.fin = wk.fin
  BY <1>1 DEF IInv, WorkerType
<1>4. StopIsClean'  BY <1>1, <1>2 DEF StopIsClean
<1>5. CASE CloseClaimGate \/ WaitForIdle
  <2>1. /\ ctl' = [ctl EXCEPT !.pc = "grace"] \/ ctl' = [ctl EXCEPT !.pc = "join"]
        /\ ctl.pc \notin {"signal", "drainSignal"}
    BY <1>5 DEF CloseClaimGate, WaitForIdle, GoTo
  <2>2. ControlType' /\ ctl'.pc \in {"grace", "join"}
    BY <2>1 DEF IInv, ControlType, DrainSteps
  <2>3. CancelUnderWay'  BY <1>1, <2>1 DEF IInv, CancelUnderWay, Me
  <2>. QED  BY <1>1, <1>2, <1>3, <1>4, <2>2, <2>3, ControlMoves
<1>6. CASE GraceElapses
  <2>1. /\ ctl' = [pc |-> "drainCancel", task |-> wk.task, fence |-> wk.fence]
        /\ ctl.pc = "grace" /\ wk.active
    BY <1>6 DEF GraceElapses
  <2>2. /\ wk.task \in Tasks /\ Exists(wk.task) /\ wk.fence \in Fences
        /\ wk.fence.generation = gen
    BY <2>1 DEF IInv, ThreadsAtWork
  <2>3. /\ ControlType' /\ ctl'.pc = "drainCancel" /\ ctl'.task = wk.task
        /\ ctl'.fence = wk.fence
    BY <2>1, <2>2 DEF ControlType, DrainSteps
  <2>4. CancelUnderWay'  BY <1>1, <2>1 DEF IInv, CancelUnderWay, Me
  <2>. QED  BY <1>1, <1>2, <1>3, <1>4, <2>2, <2>3, <2>4, ControlMoves DEF Exists
<1>. QED  BY <1>1, <1>5, <1>6

\* The end of the drain.  A clean one joined a worker that left by itself, and
\* found no active record under its owner, hence none at all.
LEMMA DrainEndsStep ==
  ASSUME IInv, JoinWorker \/ DrainBudgetExceeded  PROVE IInv' /\ rec' = rec
<1>1. /\ Control /\ UNCHANGED <<rec, gate, wk>> /\ ctl' = IdleControl
      /\ phase' \in {"stopped", "drainFailed"}
      /\ phase' = "stopped" => wk.pc = "exited" /\ Residual = {}
  BY DEF JoinWorker, DrainBudgetExceeded, DrainEnds
<1>2. LP!IInv /\ gate' \in BOOLEAN  BY <1>1 DEF IInv, FileType
<1>3. /\ WorkerType' /\ wk'.pc = wk.pc /\ wk'.task = wk.task /\ wk'.fence = wk.fence
      /\ wk'.active = wk.active /\ wk'.out = wk.out /\ wk'.fin = wk.fin
  BY <1>1 DEF IInv, WorkerType
<1>4. ControlType' /\ ctl'.pc = "idle"
  BY <1>1 DEF ControlType, IdleControl
<1>5. CancelUnderWay'  BY <1>1 DEF CancelUnderWay
<1>6. ASSUME phase' = "stopped", NEW t \in Tasks, Exists(t)
      PROVE  rec[t].status \notin Active
  <2>1. rec[t] \in Snapshots /\ Sound(rec[t])  BY <1>2, <1>6, RecordFacts
  <2>2. rec[t].owner \in {Owner, None}  BY <2>1 DEF Snapshots, SnapshotType
  <2>3. rec[t].status \in Active => rec[t].owner = Owner  BY <2>1, <2>2 DEF Sound
  <2>. QED  BY <1>1, <1>6, <2>3 DEF Residual
<1>7. StopIsClean'  BY <1>1, <1>6 DEF StopIsClean, Exists
<1>. QED  BY <1>1, <1>2, <1>3, <1>4, <1>5, <1>7, ControlMoves

\* A new record: no attempt can be on it.
LEMMA CreatedStep ==
  ASSUME IInv, Control, NEW t \in Tasks, ~Exists(t), Put(t, QueuedSnapshot(Env[t])),
         UNCHANGED <<phase, gate, wk, ctl>>
  PROVE  IInv' /\ LP!Next /\ ReportsKept
<1>1. /\ phase = "serving" /\ Serving /\ LP!IInv
      /\ UNCHANGED <<gen, now, ledger, calls, letters, scan>>
  BY ControlFacts
<1>2. PICK n : n = QueuedSnapshot(Env[t])  OBVIOUS
<1>3. Env[t] \in EnvType  BY RecordAssumption
<1>4. n \in Snapshots  BY <1>2, <1>3, QueuedFacts DEF Snapshots
<1>5. n.env = Env[t] /\ n.deadLetters = {} /\ n.status = "queued"
  BY <1>2 DEF QueuedSnapshot
<1>6. LP!Next /\ LP!IInv'
  <2>1. LP!Create(t)
    BY <1>1, SameOperators, SameShapes DEF LP!Create, Serving
  <2>. QED  BY <1>1, <2>1, AsOperation
<1>7. wk.pc \notin Resting => wk.task # t
  BY DEF IInv, ThreadsAtWork
<1>8. wk.pc \notin Attempting \/ wk.task # t
  BY <1>7 DEF Attempting, Dispatched, Resting
<1>9. wk.pc \in Dispatched => wk.pc \in Attempting /\ wk.task \in Tasks /\ wk.task # t
  BY <1>7 DEF Attempting, Dispatched, Resting, IInv, ThreadsAtWork
<1>10. Put(t, n)  BY <1>2
<1>11. wk.pc \in Dispatched => rec'[wk.task] = rec[wk.task]
  BY <1>1, <1>4, <1>9, <1>10, PutFacts
<1>12. phase = "serving" /\ wk.pc \in Dispatched /\ rec'[wk.task].cancelRequested =>
         wk.cancel \/ (ctl'.pc \in {"signal", "drainSignal"} /\ ctl'.task = wk.task)
  BY <1>11 DEF IInv, CancelUnderWay, Me
<1>13. ControlType' /\ phase # "stopped"  BY <1>1 DEF IInv, ControlType
<1>14. UNCHANGED <<gen, ledger, calls, letters, scan, gate, phase, wk>>  BY <1>1
<1>15. IInv'
  BY <1>1, <1>4, <1>5, <1>6, <1>8, <1>10, <1>12, <1>13, <1>14, OtherPut
<1>16. ReportsKept  BY <1>1, <1>4, <1>5, <1>10, PutKeepsReports
<1>. QED  BY <1>6, <1>15, <1>16

\* A submitted task is new.
LEMMA SubmitStep ==
  ASSUME IInv, NEW t \in Tasks, Submit(t)  PROVE IInv' /\ LP!Next /\ ReportsKept
BY CreatedStep DEF Submit

\* An operator's cancellation; the attempt it meets stays the same attempt.
LEMMA CancelTaskStep ==
  ASSUME IInv, NEW t \in Tasks, CancelTask(t)
  PROVE  IInv' /\ (LP!Next \/ rec' = rec) /\ ReportsKept
<1>1. /\ Control /\ Exists(t) /\ ctl.pc = "idle" /\ UNCHANGED <<phase, gate, wk>>
      /\ ctl' = [ctl EXCEPT !.pc = "signal", !.task = t]
  BY DEF CancelTask
<1>2. /\ phase = "serving" /\ Serving /\ LP!IInv
      /\ UNCHANGED <<gen, now, ledger, calls, letters, scan>>
  BY <1>1, ControlFacts
<1>3. ControlType' /\ ctl'.pc = "signal" /\ ctl'.task = t
  BY <1>1 DEF IInv, ControlType
<1>4. CASE UNCHANGED rec
  <2>1. CancelUnderWay'  BY <1>1, <1>4 DEF IInv, CancelUnderWay, Me
  <2>2. StopIsClean' /\ gate' \in BOOLEAN  BY <1>1, <1>2 DEF StopIsClean, IInv, FileType
  <2>3. WorkerType'  BY <1>1 DEF IInv, WorkerType
  <2>4. rec[ctl'.task] # None  BY <1>1, <1>3 DEF Exists
  <2>5. IInv'  BY <1>1, <1>2, <1>3, <1>4, <2>1, <2>2, <2>3, <2>4, ControlMoves
  <2>. QED  BY <1>4, <2>5, SameReports
<1>5. CASE /\ ~(rec[t].cancelRequested /\ rec[t].cancelReason = "operator")
           /\ Put(t, IF rec[t].status = "queued"
                     THEN MarkCancelled(RequestCancel(rec[t], "operator"))
                     ELSE RequestCancel(rec[t], "operator"))
  <2>1. PICK s : s = rec[t]  OBVIOUS
  <2>2. PICK n : n = IF s.status = "queued" THEN MarkCancelled(RequestCancel(s, "operator"))
                     ELSE RequestCancel(s, "operator")  OBVIOUS
  <2>3. s \in Snapshots /\ Sound(s)  BY <1>1, <1>2, <2>1, RecordFacts
  <2>4. Carries(s, n)  BY <2>2, <2>3, CarriedFields
  <2>5. s.status \in Statuses  BY <2>3 DEF Snapshots, SnapshotType
  <2>6. /\ n \in Snapshots
        /\ s.status \in Active => n.status \in Active
        /\ \/ n.status # "completed" /\ s.status # "completed"
           \/ n.status = s.status /\ n.result = s.result
    <3>1. CASE s.status = "queued"
      BY <2>2, <2>3, <3>1, CancelQueuedFacts DEF Snapshots, Active
    <3>2. CASE s.status \in Active
      <4>1. n = RequestCancel(s, "operator")  BY <2>2, <3>2 DEF Active
      <4>2. n \in Snapshots /\ n.status = "cancelling"
        BY <2>3, <3>2, <4>1, CancelActiveFacts DEF Snapshots
      <4>. QED  BY <3>2, <4>2 DEF Active
    <3>3. CASE s.status \in Terminal
      <4>1. n = RequestCancel(s, "operator")  BY <2>2, <3>3 DEF Terminal
      <4>2. n \in Snapshots /\ n.status = s.status /\ n.result = s.result
        BY <2>3, <3>3, <4>1, CancelTerminalFacts DEF Snapshots
      <4>. QED  BY <4>2
    <3>. QED  BY <2>5, <3>1, <3>2, <3>3 DEF Statuses, Active, Terminal
  <2>7. Put(t, n)  BY <1>5, <2>1, <2>2
  <2>8. LP!Next /\ LP!IInv'
    <3>1. LP!CancelCandidate(rec[t], "operator") = n
      BY <2>1, <2>2, SameOperators DEF LP!CancelCandidate
    <3>2. LP!RequestCancellation(t, "operator")
      BY <1>1, <1>2, <1>5, <2>7, <3>1, SameShapes DEF LP!RequestCancellation, LP!Serve, Serving
    <3>. QED  BY <1>1, <1>2, <3>2, AsOperation
  <2>9. n.env = Env[t]  BY <1>1, <2>1, <2>4 DEF IInv, RecordOrigin, Carries
  <2>10. s.owner = n.owner
    BY <2>2, <2>3 DEF MarkCancelled, RequestCancel, Snapshots, SnapshotType
  <2>11. wk.pc \in Attempting /\ t = wk.task => n.status \in Active /\ n.owner = Owner
    BY <2>1, <2>6, <2>10, AttemptFacts DEF Me
  <2>12. wk.pc \in Dispatched /\ wk.task # t => rec'[wk.task] = rec[wk.task]
    <3>1. wk.pc \in Dispatched => wk.task \in Tasks
      BY DEF IInv, ThreadsAtWork, Dispatched, Resting
    <3>. QED  BY <1>2, <2>6, <2>7, <3>1, PutFacts
  <2>13. phase = "serving" /\ wk.pc \in Dispatched /\ rec'[wk.task].cancelRequested =>
           wk.cancel \/ (ctl'.pc \in {"signal", "drainSignal"} /\ ctl'.task = wk.task)
    BY <1>1, <1>3, <2>12 DEF IInv, CancelUnderWay, Me
  <2>14. UNCHANGED <<gen, ledger, calls, letters, scan, gate, phase, wk>> /\ phase # "stopped"
    BY <1>1, <1>2
  <2>15. IInv'
    BY <1>1, <1>2, <1>3, <2>1, <2>4, <2>6, <2>7, <2>8, <2>9, <2>11, <2>13, <2>14, OtherPut
  <2>16. ReportsKept  BY <1>1, <1>2, <2>1, <2>6, <2>7, PutKeepsReports
  <2>. QED  BY <2>8, <2>15, <2>16
<1>. QED  BY <1>4, <1>5 DEF CancelTask

\* A replayed delivery is requeued only when no attempt is on its record.
LEMMA RequeuedStep ==
  ASSUME IInv, Control, NEW t \in Tasks, Exists(t), NEW n \in Snapshots, Put(t, n),
         UNCHANGED <<phase, gate, wk, ctl>>,
         LP!Next, LP!IInv', Carries(rec[t], n), rec[t].status \notin Active,
         rec[t].status # "completed", n.status # "completed"
  PROVE  IInv' /\ ReportsKept
<1>1. /\ phase = "serving" /\ Serving /\ LP!IInv
      /\ UNCHANGED <<gen, now, ledger, calls, letters, scan>>
  BY ControlFacts
<1>2. wk.pc \in Attempting => wk.task # t /\ wk.task \in Tasks
  BY AttemptFacts DEF Me
<1>3. wk.pc \in Dispatched => rec'[wk.task] = rec[wk.task]
  BY <1>1, <1>2, PutFacts DEF Attempting
<1>4. phase = "serving" /\ wk.pc \in Dispatched /\ rec'[wk.task].cancelRequested =>
         wk.cancel \/ (ctl'.pc \in {"signal", "drainSignal"} /\ ctl'.task = wk.task)
  BY <1>3 DEF IInv, CancelUnderWay, Me
<1>5. ControlType' /\ phase # "stopped"  BY <1>1 DEF IInv, ControlType
<1>6. UNCHANGED <<gen, ledger, calls, letters, scan, gate, phase, wk>>  BY <1>1
<1>7. n.env = Env[t]  BY DEF IInv, RecordOrigin, Carries
<1>8. IInv'  BY <1>1, <1>2, <1>4, <1>5, <1>6, <1>7, OtherPut
<1>9. ReportsKept  BY <1>1, PutKeepsReports
<1>. QED  BY <1>8, <1>9

\* A replay delivery: created, retried or reclaimed.
LEMMA ReconcileStep ==
  ASSUME IInv, NEW t \in Tasks, ReconcileReplay(t)  PROVE IInv' /\ LP!Next /\ ReportsKept
<1>1. Control /\ UNCHANGED <<phase, gate, wk, ctl>> /\ Origin[t] # None
  BY DEF ReconcileReplay
<1>2. /\ phase = "serving" /\ Serving /\ LP!IInv /\ now \in Nat /\ now \in 0..now
      /\ UNCHANGED <<gen, now, ledger, calls, letters, scan>>
  BY <1>1, ControlFacts
<1>3. CASE ~Exists(t) /\ Put(t, QueuedSnapshot(Env[t]))  BY <1>1, <1>3, CreatedStep
<1>4. CASE Exists(t) /\ RetryStepEnabled(rec[t], now) /\ Put(t, RetryStep(rec[t], now))
  <2>1. PICK s : s = rec[t]  OBVIOUS
  <2>2. PICK n : n = RetryStep(s, now)  OBVIOUS
  <2>3. s \in Snapshots /\ Sound(s)  BY <1>2, <1>4, <2>1, RecordFacts
  <2>4. RetryEligible(s)  BY <1>4, <2>1 DEF RetryStepEnabled
  <2>5. s.status \in {"failed", "timed_out"} /\ ~s.cancelRequested  BY <2>4 DEF RetryEligible
  <2>6. now + s.env.backoff \in Nat
    <3>1. s.env \in EnvType  BY <2>3 DEF Snapshots, SnapshotType
    <3>. QED  BY <1>2, <3>1 DEF EnvType
  <2>7. n \in Snapshots /\ n.status # "completed"
    <3>1. CASE n = Requeue(s)  BY <2>3, <2>5, <3>1, RequeueFacts DEF Snapshots
    <3>2. CASE n = ScheduleRetry(s, now + s.env.backoff)
      BY <2>3, <2>4, <2>5, <2>6, <3>2, NoneFacts, ScheduleFacts DEF Snapshots
    <3>. QED  BY <2>2, <3>1, <3>2 DEF RetryStep
  <2>8. Carries(s, n)  BY <2>2, <2>3, CarriedFields
  <2>9. Put(t, n)  BY <1>4, <2>1, <2>2
  <2>10. LP!Next /\ LP!IInv'
    <3>1. LP!RequeueRetryable(t, now)
      BY <1>1, <1>2, <1>4, SameOperators, SameShapes DEF LP!RequeueRetryable, LP!Serve, Serving
    <3>. QED  BY <1>1, <1>2, <3>1, AsOperation
  <2>11. s.status \notin Active /\ s.status # "completed"  BY <2>5 DEF Active
  <2>. QED  BY <1>1, <1>4, <2>1, <2>7, <2>8, <2>9, <2>10, <2>11, RequeuedStep
<1>5. CASE /\ Exists(t) /\ rec[t].status = "interrupted" /\ Abandoned(rec[t])
           /\ Put(t, Requeue(rec[t]))
  <2>1. PICK s : s = rec[t]  OBVIOUS
  <2>2. PICK n : n = Requeue(s)  OBVIOUS
  <2>3. s \in Snapshots /\ Sound(s)  BY <1>2, <1>5, <2>1, RecordFacts
  <2>4. ~s.cancelRequested /\ s.status = "interrupted"  BY <1>5, <2>1 DEF Abandoned
  <2>5. n \in Snapshots /\ n.status # "completed"
    BY <2>2, <2>3, <2>4, RequeueFacts DEF Snapshots
  <2>6. Carries(s, n)  BY <2>2, <2>3, CarriedFields
  <2>7. Put(t, n)  BY <1>5, <2>1, <2>2
  <2>8. rec[t].env.replay
    BY <1>1, <1>5, WorkerAssumption DEF IInv, RecordOrigin
  <2>9. LP!Next /\ LP!IInv'
    <3>1. LP!RecoverReplayDelivery(t)
      BY <1>1, <1>2, <1>5, <2>8, SameOperators, SameShapes
      DEF LP!RecoverReplayDelivery, Serving
    <3>. QED  BY <1>1, <1>2, <3>1, AsOperation
  <2>10. s.status \notin Active /\ s.status # "completed"  BY <2>4 DEF Active
  <2>. QED  BY <1>1, <1>5, <2>1, <2>5, <2>6, <2>7, <2>9, <2>10, RequeuedStep
<1>. QED  BY <1>3, <1>4, <1>5 DEF ReconcileReplay

\* The drain's cancellation: the fence it took names an attempt of this process.
LEMMA DrainCancelStep ==
  ASSUME IInv, DrainCancel  PROVE IInv' /\ (LP!Next \/ rec' = rec) /\ ReportsKept
<1>1. /\ Control /\ UNCHANGED <<gate, wk>> /\ ctl.pc = "drainCancel"
  BY DEF DrainCancel
<1>2. /\ phase = "serving" /\ Serving /\ LP!IInv
      /\ UNCHANGED <<gen, now, ledger, calls, letters, scan>>
  BY <1>1, ControlFacts
<1>3. PICK t \in Tasks : t = ctl.task /\ Exists(t)
  BY <1>1 DEF IInv, ThreadsAtWork
<1>4. ctl.fence \in Fences /\ ctl.fence.generation = gen
  BY <1>1 DEF IInv, ThreadsAtWork
<1>5. WorkerType' /\ gate' \in BOOLEAN  BY <1>1 DEF IInv, WorkerType, FileType
<1>6. CASE DrainEnds("drainFailed") /\ UNCHANGED rec
  <2>1. ControlType' /\ ctl'.pc = "idle" /\ phase' = "drainFailed"
    BY <1>6 DEF DrainEnds, ControlType, IdleControl
  <2>2. CancelUnderWay' /\ StopIsClean'  BY <2>1 DEF CancelUnderWay, StopIsClean
  <2>3. IInv'  BY <1>1, <1>5, <1>6, <2>1, <2>2, ControlMoves
  <2>. QED  BY <1>6, <2>3, SameReports
<1>7. ASSUME GoTo("drainSignal")
      PROVE  ControlType' /\ ctl'.pc = "drainSignal" /\ ctl'.task = t
  BY <1>3, <1>7 DEF GoTo, IInv, ControlType, DrainSteps
<1>8. CASE GoTo("drainSignal") /\ UNCHANGED <<phase, rec>>
  <2>1. CancelUnderWay' /\ StopIsClean'
    BY <1>1, <1>2, <1>8 DEF IInv, CancelUnderWay, StopIsClean, Me
  <2>2. IInv'  BY <1>1, <1>2, <1>3, <1>5, <1>7, <1>8, <2>1, ControlMoves DEF Exists
  <2>. QED  BY <1>8, <2>2, SameReports
<1>9. CASE /\ GoTo("drainSignal") /\ UNCHANGED phase /\ VerifyFence(rec[t], ctl.fence)
           /\ ~IsTerminal(rec[t]) /\ ~rec[t].cancelRequested
           /\ Put(t, RequestCancel(rec[t], "shutdown"))
  <2>1. PICK s : s = rec[t]  OBVIOUS
  <2>2. PICK n : n = RequestCancel(s, "shutdown")  OBVIOUS
  <2>3. s \in Snapshots /\ Sound(s)  BY <1>2, <1>3, <2>1, RecordFacts
  <2>4. s.generation = gen /\ s.owner = Owner
    BY <1>4, <1>9, <2>1 DEF VerifyFence, FenceOf, Fences
  <2>5. s.status \in Active
    <3>1. s.status \in Statuses  BY <2>3 DEF Snapshots, SnapshotType
    <3>2. s.status # "queued"  BY <2>3, <2>4, NoneFacts DEF Sound
    <3>. QED  BY <1>9, <2>1, <3>1, <3>2 DEF IsTerminal, Terminal, Statuses, Active
  <2>6. n \in Snapshots /\ n.status = "cancelling"
    BY <2>2, <2>3, <2>5, CancelActiveFacts DEF Snapshots
  <2>7. Carries(s, n) /\ n.owner = Owner
    BY <2>2, <2>3, <2>4, CarriedFields DEF RequestCancel, Snapshots, SnapshotType
  <2>8. Put(t, n)  BY <1>9, <2>1, <2>2
  <2>9. LP!Next /\ LP!IInv'
    <3>1. LP!RequestExecutionCancellation(t, Owner, "shutdown")
      BY <1>2, <1>3, <1>9, <2>1, <2>4, <2>5, SameOperators, SameShapes
      DEF LP!RequestExecutionCancellation, LP!Serve, LP!Fenced, Serving
    <3>2. LP!Attempt(t)  BY <3>1 DEF LP!Attempt
    <3>. QED  BY <1>2, <1>9, <3>2, AsOperation
  <2>10. n.env = Env[t]  BY <1>3, <2>1, <2>7 DEF IInv, RecordOrigin, Carries
  <2>11. n.status \in Active  BY <2>6 DEF Active
  <2>12. wk.pc \in Dispatched /\ wk.task # t => rec'[wk.task] = rec[wk.task]
    <3>1. wk.pc \in Dispatched => wk.task \in Tasks
      BY DEF IInv, ThreadsAtWork, Dispatched, Resting
    <3>. QED  BY <1>2, <2>6, <2>8, <3>1, PutFacts
  <2>13. phase = "serving" /\ wk.pc \in Dispatched /\ rec'[wk.task].cancelRequested =>
           wk.cancel \/ (ctl'.pc \in {"signal", "drainSignal"} /\ ctl'.task = wk.task)
    BY <1>1, <1>7, <1>9, <2>12 DEF IInv, CancelUnderWay, Me
  <2>14. UNCHANGED <<gen, ledger, calls, letters, scan, gate, phase, wk>> /\ phase # "stopped"
    BY <1>1, <1>2, <1>9
  <2>15. IInv'
    BY <1>2, <1>3, <1>7, <1>9, <2>1, <2>6, <2>7, <2>8, <2>9, <2>10, <2>11, <2>13, <2>14,
       OtherPut
  <2>16. ReportsKept
    BY <1>2, <1>3, <2>1, <2>5, <2>6, <2>8, PutKeepsReports DEF Active
  <2>. QED  BY <2>9, <2>15, <2>16
<1>. QED  BY <1>3, <1>6, <1>8, <1>9 DEF DrainCancel

-----------------------------------------------------------------------------
(* Restart: recovery, the switch to serving, the next process.             *)

\* Recovery of a task the ledger says nothing about.
LEMMA SafeRecoveryFacts ==
  ASSUME IInv, phase = "recovering", NEW t \in Tasks, t \in scan,
         NEW n, n = SafeRecovery(rec[t])
  PROVE  /\ n \in Snapshots /\ Carries(rec[t], n) /\ n.status \notin Active
         /\ n # rec[t] => rec[t].status # "completed" /\ n.status # "completed"
         /\ n # rec[t] /\ Put(t, n) /\ UNCHANGED <<gen, now, phase>> => LP!Next /\ LP!IInv'
<1>1. LP!IInv /\ ~Serving /\ Exists(t) /\ rec[t].generation # gen
  BY DEF IInv, RecoveredSoFar, Serving
<1>2. PICK s : s = rec[t]  OBVIOUS
<1>3. s \in Snapshots /\ Sound(s)  BY <1>1, <1>2, RecordFacts
<1>4. CASE Abandoned(s)
  <2>1. n = Requeue(s)  BY <1>2, <1>4 DEF SafeRecovery
  <2>2. ~s.cancelRequested /\ s.status \in {"running", "interrupted"}  BY <1>4 DEF Abandoned
  <2>3. n \in Snapshots /\ n.status = "queued"
    BY <1>3, <2>1, <2>2, RequeueFacts DEF Snapshots
  <2>4. Carries(s, n)  BY <1>3, <2>1, CarriedFields
  <2>5. ASSUME Put(t, n), UNCHANGED <<gen, now, phase>>  PROVE LP!Next /\ LP!IInv'
    <3>1. LP!RecoverReplayDelivery(t) \/ LP!RecoverAbandonedTask(t)
      BY <1>1, <1>2, <1>4, <2>1, <2>5, SameOperators, SameShapes
      DEF LP!RecoverReplayDelivery, LP!RecoverAbandonedTask, LP!Recover, Serving
    <3>. QED  BY <1>1, <2>5, <3>1, AsOperation
  <2>. QED  BY <1>2, <2>2, <2>3, <2>4, <2>5 DEF Active
<1>5. CASE ~Abandoned(s) /\ s.status \in Active
  <2>1. n = MarkInterrupted(s) \/ n = BaselineInterrupt(s)
    BY <1>2, <1>5 DEF SafeRecovery, Active
  <2>2. n \in Snapshots /\ n.status = "interrupted"
    BY <1>3, <1>5, <2>1, MarkInterruptedFacts, BaselineFacts DEF Snapshots
  <2>3. Carries(s, n)  BY <1>3, <2>1, CarriedFields
  <2>4. ASSUME Put(t, n), UNCHANGED <<gen, now, phase>>  PROVE LP!Next /\ LP!IInv'
    <3>1. LP!InterruptAfterRestart(t)
      BY <1>1, <1>2, <1>5, <2>1, <2>4, SameOperators, SameShapes
      DEF LP!InterruptAfterRestart, LP!Recover, Serving
    <3>. QED  BY <1>1, <2>4, <3>1, AsOperation
  <2>. QED  BY <1>2, <1>5, <2>2, <2>3, <2>4 DEF Active
<1>6. CASE ~Abandoned(s) /\ s.status \notin Active
  <2>1. n = s  BY <1>2, <1>6 DEF SafeRecovery, Active
  <2>. QED  BY <1>2, <1>3, <1>6, <2>1 DEF Carries
<1>. QED  BY <1>4, <1>5, <1>6

\* What recovery leaves of a record: settled by the ledger, and not active.
LEMMA RecoveredFacts ==
  ASSUME IInv, phase = "recovering", NEW t \in Tasks, t \in scan,
         NEW n, n = RecoveredTask(t), n # None
  PROVE  /\ n \in Snapshots /\ Carries(rec[t], n) /\ n.status \notin Active /\ Settles(t, n)
         /\ n # rec[t] =>
              /\ rec[t].status # "completed"
              /\ n.status = "completed" =>
                   /\ t \in Effectful /\ Committed(ledger[KeyOf[t]])
                   /\ ledger[KeyOf[t]].op = OpOf[t] /\ n.result = ledger[KeyOf[t]].result
         /\ n # rec[t] /\ Put(t, n) /\ UNCHANGED <<gen, now, phase>> => LP!Next /\ LP!IInv'
<1>1. LP!IInv /\ ~Serving /\ Exists(t) /\ rec[t].generation # gen
  BY DEF IInv, RecoveredSoFar, Serving
<1>2. PICK s : s = rec[t]  OBVIOUS
<1>3. s \in Snapshots /\ Sound(s)  BY <1>1, <1>2, RecordFacts
<1>4. PICK k \in Keys : k = KeyOf[t]  BY NoneFacts
<1>5. PICK e : e = ledger[k]  OBVIOUS
<1>6. e # None => e \in EffectRecords  BY <1>5 DEF IInv, FileType
<1>7. e # None => e.state \in {"prepared", "committed"}  BY <1>6 DEF EffectRecords
<1>8. CASE t \notin Known
  <2>1. t \notin Effectful  BY <1>8, WorkerAssumption
  <2>2. CASE s.status \in Active
    <3>1. n = MarkInterrupted(s)  BY <1>2, <1>8, <2>2 DEF RecoveredTask
    <3>2. n \in Snapshots /\ n.status = "interrupted"
      BY <1>3, <2>2, <3>1, MarkInterruptedFacts DEF Snapshots
    <3>3. Carries(s, n)  BY <1>3, <3>1, CarriedFields
    <3>4. ASSUME Put(t, n), UNCHANGED <<gen, now, phase>>  PROVE LP!Next /\ LP!IInv'
      <4>1. LP!InterruptAfterRestart(t)
        BY <1>1, <1>2, <2>2, <3>1, <3>4, SameOperators, SameShapes
        DEF LP!InterruptAfterRestart, LP!Recover, Serving
      <4>. QED  BY <1>1, <3>4, <4>1, AsOperation
    <3>. QED  BY <1>2, <2>1, <2>2, <3>2, <3>3, <3>4 DEF Active, Settles
  <2>3. CASE s.status \notin Active
    <3>1. n = s  BY <1>2, <1>8, <2>3 DEF RecoveredTask
    <3>. QED  BY <1>2, <1>3, <2>1, <2>3, <3>1 DEF Settles, Carries
  <2>. QED  BY <2>2, <2>3
<1>9. CASE t \in Known /\ (t \notin Effectful \/ e = None)
  <2>1. n = SafeRecovery(s)
    BY <1>2, <1>4, <1>5, <1>9 DEF RecoveredTask, LedgerState
  <2>2. Settles(t, n)  BY <1>4, <1>5, <1>9 DEF Settles
  <2>. QED  BY <1>2, <2>1, <2>2, SafeRecoveryFacts
<1>10. CASE t \in Effectful /\ e # None /\ e.state = "prepared"
  <2>1. t \in Known  BY <1>10, WorkerAssumption
  <2>2. e.op = OpOf[t] /\ s.status # "completed"
    BY <1>2, <1>4, <1>5, <1>10, <2>1 DEF RecoveredTask, LedgerState, OperationMatches
  <2>3. n = IF RequiresOperator(s) THEN s ELSE BlockUnknownEffect(s)
    BY <1>2, <1>4, <1>5, <1>10, <2>1, <2>2 DEF RecoveredTask, LedgerState, OperationMatches
  <2>4. CASE RequiresOperator(s)
    <3>1. n = s  BY <2>3, <2>4
    <3>. QED  BY <1>2, <1>3, <1>4, <1>5, <1>10, <2>4, <3>1
              DEF Settles, Committed, Carries, RequiresOperator, Active
  <2>5. CASE ~RequiresOperator(s)
    <3>1. n = BlockUnknownEffect(s)  BY <2>3, <2>5
    <3>2. n \in Snapshots /\ n.status = "interrupted" /\ n.reason = UnknownEffect
      BY <1>3, <3>1, BlockFacts DEF Snapshots
    <3>3. Carries(s, n)  BY <1>3, <3>1, CarriedFields
    <3>4. ASSUME Put(t, n), UNCHANGED <<gen, now, phase>>  PROVE LP!Next /\ LP!IInv'
      <4>1. LP!BlockForUnknownEffect(t)
        BY <1>1, <1>2, <2>2, <2>5, <3>1, <3>4, SameOperators, SameShapes
        DEF LP!BlockForUnknownEffect, LP!Recover, Serving
      <4>. QED  BY <1>1, <3>4, <4>1, AsOperation
    <3>5. Settles(t, n)
      BY <1>4, <1>5, <1>10, <3>2 DEF Settles, Committed, RequiresOperator
    <3>. QED  BY <1>2, <2>2, <3>2, <3>3, <3>4, <3>5 DEF Active
  <2>. QED  BY <2>4, <2>5
<1>11. CASE t \in Effectful /\ e # None /\ e.state = "committed"
  <2>1. t \in Known  BY <1>11, WorkerAssumption
  <2>2. e.op = OpOf[t]
    BY <1>2, <1>4, <1>5, <1>11, <2>1 DEF RecoveredTask, LedgerState, OperationMatches
  <2>3. n = IF s.status # "completed" THEN RecoverCommitted(s, e.result)
            ELSE IF s.result = e.result THEN s ELSE None
    BY <1>2, <1>4, <1>5, <1>11, <2>1, <2>2 DEF RecoveredTask, LedgerState, OperationMatches
  <2>4. e.result \in Results /\ Committed(e)
    BY <1>5, <1>11 DEF IInv, LedgerCounts, Committed
  <2>5. CASE s.status = "completed"
    <3>1. n = s /\ s.result = e.result  BY <2>3, <2>5
    <3>. QED  BY <1>2, <1>3, <1>4, <1>5, <1>11, <2>4, <2>5, <3>1
              DEF Settles, Carries, Active
  <2>6. CASE s.status # "completed"
    <3>1. n = RecoverCommitted(s, e.result)  BY <2>3, <2>6
    <3>2. n \in Snapshots /\ n.status = "completed" /\ n.result = e.result
      BY <1>3, <2>4, <3>1, NoneFacts, RecoverCommittedFacts DEF Snapshots
    <3>3. Carries(s, n)  BY <1>3, <2>4, <3>1, CarriedFields
    <3>4. ASSUME Put(t, n), UNCHANGED <<gen, now, phase>>  PROVE LP!Next /\ LP!IInv'
      <4>1. LP!RecoverFromCommittedEffect(t, e.result)
        BY <1>1, <1>2, <2>6, <3>1, <3>4, SameOperators, SameShapes
        DEF LP!RecoverFromCommittedEffect, LP!Recover, Serving
      <4>. QED  BY <1>1, <2>4, <3>4, <4>1, AsOperation
    <3>5. Settles(t, n)  BY <1>4, <1>5, <2>4, <3>2 DEF Settles
    <3>. QED  BY <1>2, <1>4, <1>5, <1>11, <2>2, <2>4, <2>6, <3>2, <3>3, <3>4, <3>5 DEF Active
  <2>. QED  BY <2>5, <2>6
<1>. QED  BY <1>7, <1>8, <1>9, <1>10, <1>11

\* One record visited.
LEMMA RecoverTaskStep ==
  ASSUME IInv, NEW t \in Tasks, RecoverTask(t)
  PROVE  IInv' /\ (LP!Next \/ rec' = rec) /\ (ReportsKept \/ Reports(t))
<1>1. /\ phase = "recovering" /\ t \in scan /\ LP!IInv /\ ~Serving /\ Exists(t)
      /\ UNCHANGED <<gen, now, ledger, calls, letters, gate, wk, ctl>>
      /\ wk.pc = "idle" /\ ctl.pc = "idle" /\ ~wk.active /\ rec[t].generation # gen
  BY DEF RecoverTask, effects, IInv, ThreadsAtWork, Resting, Serving, RecoveredSoFar
<1>2. PICK n : n = RecoveredTask(t)  OBVIOUS
<1>3. /\ WorkerType' /\ ControlType' /\ AttemptIsLive' /\ AttemptOwnsRecord' /\ LedgerCounts'
      /\ wk'.pc = "idle" /\ ctl'.pc = "idle" /\ ~wk'.active
  BY <1>1 DEF IInv, WorkerType, ControlType, AttemptIsLive, AttemptOwnsRecord, LedgerCounts,
              Attempting, Dispatched
<1>4. ASSUME phase' \in {"recovering", "startFailed"}
      PROVE  CancelUnderWay' /\ StopIsClean' /\ ThreadsAtWork'
  BY <1>3, <1>4 DEF CancelUnderWay, StopIsClean, ThreadsAtWork, Resting, Dispatched
<1>5. CASE n = None /\ phase' = "startFailed" /\ UNCHANGED <<rec, scan>>
  <2>1. UNCHANGED LP!vars  BY <1>1, <1>5 DEF LP!vars, Serving
  <2>2. LP!IInv'  BY <1>1, <2>1, LifecycleStep
  <2>3. FileType' /\ RecordOrigin' /\ RecoveredSoFar'
    BY <1>1, <1>5 DEF IInv, FileType, RecordOrigin, RecoveredSoFar, Exists
  <2>4. LettersFollow'
    BY <1>1, <1>3, <1>5 DEF IInv, LettersFollow, SummaryHasLetter, HasLetter, Exists
  <2>5. CancelUnderWay' /\ StopIsClean' /\ ThreadsAtWork'  BY <1>4, <1>5
  <2>. QED  BY <1>3, <1>5, <2>2, <2>3, <2>4, <2>5, SameReports DEF IInv
<1>6. CASE /\ n # None /\ scan' = scan \ {t} /\ UNCHANGED phase
           /\ IF n = rec[t] THEN UNCHANGED rec ELSE Put(t, n)
  <2>1. /\ n \in Snapshots /\ Carries(rec[t], n) /\ n.status \notin Active /\ Settles(t, n)
        /\ n # rec[t] =>
             /\ rec[t].status # "completed"
             /\ n.status = "completed" =>
                  /\ t \in Effectful /\ Committed(ledger[KeyOf[t]])
                  /\ ledger[KeyOf[t]].op = OpOf[t] /\ n.result = ledger[KeyOf[t]].result
        /\ n # rec[t] /\ Put(t, n) /\ UNCHANGED <<gen, now, phase>> => LP!Next /\ LP!IInv'
    BY <1>1, <1>2, <1>6, RecoveredFacts
  <2>2. (LP!Next \/ rec' = rec) /\ LP!IInv'
    BY <1>1, <1>6, <2>1, SameStore
  <2>3. /\ rec'[t] # None /\ rec'[t].status = n.status /\ rec'[t].result = n.result
        /\ rec'[t].reason = n.reason /\ Carries(n, rec'[t])
        /\ rec'[t].generation \in {gen, rec[t].generation}
        /\ \A u \in Tasks : u # t => rec'[u] = rec[u]
        /\ \A u \in Tasks : Exists(u) => rec'[u] # None
    <3>1. CASE n = rec[t]  BY <1>1, <1>6, <3>1 DEF Carries, Exists
    <3>2. CASE n # rec[t]  BY <1>1, <1>6, <2>1, <3>2, PutFacts
    <3>. QED  BY <3>1, <3>2
  <2>4. \A u \in Tasks : Exists(u) =>
          rec'[u].env = rec[u].env /\ rec'[u].deadLetters = rec[u].deadLetters
    BY <2>1, <2>3 DEF Carries
  <2>5. \A u \in Tasks : rec'[u] # None => Exists(u)  BY <1>1, <2>3 DEF Exists
  <2>6. gen \in 1..gen  BY <1>1, StoreFacts, RecordAssumption
  <2>7. FileType'  BY <1>1, <1>6 DEF IInv, FileType
  <2>8. RecordOrigin'
    <3>1. ASSUME NEW u \in Tasks, rec'[u] # None
          PROVE  rec'[u].env = Env[u] /\ rec'[u].generation \in 1..gen
      <4>1. Exists(u) /\ rec[u].env = Env[u] /\ rec[u].generation \in 1..gen
        BY <2>5, <3>1 DEF IInv, RecordOrigin
      <4>. QED  BY <2>3, <2>4, <2>6, <4>1
    <3>. QED  BY <1>1, <3>1 DEF RecordOrigin, Exists
  <2>9. LettersFollow'
    <3>1. ASSUME NEW u \in Tasks, rec'[u] # None, NEW a \in rec'[u].deadLetters
          PROVE  HasLetter(u, a)
      BY <2>4, <2>5, <3>1 DEF IInv, LettersFollow, SummaryHasLetter
    <3>2. SummaryHasLetter'  BY <1>1, <3>1 DEF SummaryHasLetter, HasLetter, Exists
    <3>3. \A l \in letters : l.task \in Tasks /\ rec'[l.task] # None
      BY <2>3 DEF IInv, LettersFollow, FileType
    <3>4. \A l \in letters : l.by = gen => l.attempt \in rec'[l.task].deadLetters
      BY <1>1, <2>4, <3>3 DEF IInv, LettersFollow
    <3>. QED  BY <1>1, <1>3, <3>2, <3>3, <3>4 DEF LettersFollow, Exists
  <2>10. RecoveredSoFar'
    <3>1. Settles(t, rec'[t])  BY <2>1, <2>3 DEF Settles, RequiresOperator
    <3>2. ASSUME NEW u \in Tasks
          PROVE  /\ u \in scan' => rec'[u] # None /\ rec'[u].generation # gen
                 /\ u \notin scan' /\ rec'[u] # None =>
                      /\ Settles(u, rec'[u])
                      /\ rec'[u].generation # gen => rec'[u].status \notin Active
      <4>1. CASE u = t  BY <1>6, <2>1, <2>3, <3>1, <4>1
      <4>2. CASE u # t
        <5>1. rec'[u] = rec[u] /\ (u \in scan' <=> u \in scan)  BY <1>6, <2>3, <4>2
        <5>. QED  BY <1>1, <5>1 DEF IInv, RecoveredSoFar, Exists
      <4>. QED  BY <4>1, <4>2
    <3>. QED  BY <1>1, <3>2 DEF RecoveredSoFar, Exists, Settles
  <2>11. CancelUnderWay' /\ StopIsClean' /\ ThreadsAtWork'  BY <1>1, <1>4, <1>6
  <2>12. IInv'  BY <1>3, <2>2, <2>7, <2>8, <2>9, <2>10, <2>11 DEF IInv
  <2>13. CASE n = rec[t]  BY <1>6, <2>2, <2>12, <2>13, SameReports
  <2>14. CASE n # rec[t] /\ n.status # "completed"
    <3>1. ReportsKept  BY <1>1, <1>6, <2>1, <2>14, PutKeepsReports
    <3>. QED  BY <2>2, <2>12, <3>1
  <2>15. CASE n # rec[t] /\ n.status = "completed"
    <3>1. Reports(t)  BY <2>1, <2>3, <2>15, NoneFacts DEF Reports, Reported
    <3>. QED  BY <2>2, <2>12, <3>1
  <2>. QED  BY <2>13, <2>14, <2>15
<1>. QED  BY <1>2, <1>5, <1>6 DEF RecoverTask

\* Recovery is over when it has visited every record it found.
LEMMA StartServingStep ==
  ASSUME IInv, StartServing
  PROVE  /\ IInv' /\ LP!Next /\ ReportsKept
         /\ \A t \in Effectful : Exists(t) => Settles(t, rec[t])
<1>1. /\ phase = "recovering" /\ scan = {} /\ phase' = "serving" /\ gate' = TRUE
      /\ UNCHANGED <<rec, gen, now, ledger, calls, letters, scan, wk, ctl>>
      /\ wk.pc = "idle" /\ ctl.pc = "idle" /\ LP!IInv
  BY DEF StartServing, store, effects, IInv, ThreadsAtWork, Serving
<1>2. \A t \in Tasks : Exists(t) =>
        Settles(t, rec[t]) /\ (rec[t].generation # gen => rec[t].status \notin Active)
  BY <1>1 DEF IInv, RecoveredSoFar
<1>3. LP!StartServing
  BY <1>1, <1>2, SameShapes DEF LP!StartServing, LP!Exists, Exists, Serving, LP!Active, Active
<1>4. LP!Next  BY <1>3 DEF LP!Next
<1>5. LP!IInv'  BY <1>1, <1>4, LifecycleStep
<1>6. WorkerType' /\ ControlType' /\ FileType' /\ RecordOrigin' /\ LedgerCounts'
  BY <1>1 DEF IInv, WorkerType, ControlType, FileType, RecordOrigin, LedgerCounts, Exists
<1>7. AttemptIsLive' /\ AttemptOwnsRecord' /\ CancelUnderWay' /\ StopIsClean' /\ RecoveredSoFar'
  BY <1>1 DEF AttemptIsLive, AttemptOwnsRecord, CancelUnderWay, StopIsClean, RecoveredSoFar,
              Attempting, Dispatched
<1>8. ThreadsAtWork'  BY <1>1 DEF IInv, ThreadsAtWork, Serving, Exists
<1>9. LettersFollow'
  BY <1>1 DEF IInv, LettersFollow, SummaryHasLetter, HasLetter, Me, Exists
<1>. QED
  BY <1>1, <1>2, <1>4, <1>5, <1>6, <1>7, <1>8, <1>9, SameReports, NoneFacts DEF IInv

\* A new process finds only records of older generations, and letters of them.
LEMMA RestartStep ==
  ASSUME IInv, Restart  PROVE IInv' /\ LP!Next /\ ReportsKept
<1>1. /\ gen < MaxGen /\ gen' = gen + 1 /\ phase' = "recovering" /\ gate' = FALSE
      /\ scan' = {t \in Tasks : Exists(t)} /\ wk' = IdleWorker /\ ctl' = IdleControl
      /\ UNCHANGED <<rec, now, ledger, calls, letters>> /\ LP!IInv
  BY DEF Restart, effects, IInv
<1>2. gen \in Nat  BY <1>1, StoreFacts
<1>3. LP!Restart  BY <1>1 DEF LP!Restart, Serving
<1>4. LP!Next  BY <1>3 DEF LP!Next
<1>5. LP!IInv'  BY <1>1, <1>4, LifecycleStep
<1>6. /\ WorkerType' /\ ControlType' /\ wk'.pc = "idle" /\ ctl'.pc = "idle" /\ ~wk'.active
  BY <1>1 DEF WorkerType, ControlType, IdleWorker, IdleControl, Resting
<1>7. \A l \in letters : l \in [task : Tasks, attempt : Nat, by : 1..gen]
  BY DEF IInv, FileType
<1>8. FileType' /\ LedgerCounts'
  <2>1. \A l \in letters : l \in [task : Tasks, attempt : Nat, by : 1..(gen + 1)]
    BY <1>2, <1>7
  <2>. QED  BY <1>1, <2>1 DEF IInv, FileType, LedgerCounts
<1>9. \A t \in Tasks : Exists(t) => rec[t].env = Env[t] /\ rec[t].generation \in 1..gen
  BY DEF IInv, RecordOrigin
<1>10. RecordOrigin'  BY <1>1, <1>2, <1>9 DEF RecordOrigin, Exists
<1>11. AttemptIsLive' /\ AttemptOwnsRecord' /\ CancelUnderWay' /\ StopIsClean' /\ ThreadsAtWork'
  BY <1>1, <1>6 DEF AttemptIsLive, AttemptOwnsRecord, CancelUnderWay, StopIsClean, ThreadsAtWork,
              Attempting, Dispatched, Resting
<1>12. RecoveredSoFar'
  <2>1. \A t \in Tasks : Exists(t) => rec[t].generation # gen + 1  BY <1>2, <1>9
  <2>. QED  BY <1>1, <2>1 DEF RecoveredSoFar, Exists
<1>13. LettersFollow'
  <2>1. \A l \in letters : l.by # gen + 1  BY <1>2, <1>7
  <2>. QED  BY <1>1, <1>6, <2>1 DEF IInv, LettersFollow, SummaryHasLetter, HasLetter, Exists
<1>. QED
  BY <1>1, <1>4, <1>5, <1>6, <1>8, <1>10, <1>11, <1>12, <1>13, SameReports DEF IInv

\* The parts of IInv other than TaskLifecycle's do not read the clock.
LEMMA SameWorker ==
  ASSUME IInv, LP!IInv', UNCHANGED <<rec, gen, ledger, calls, letters, phase, scan, gate, wk, ctl>>
  PROVE  IInv'
<1>1. WorkerType' /\ ControlType' /\ FileType' /\ RecordOrigin'
  BY DEF IInv, WorkerType, ControlType, FileType, RecordOrigin, Exists
<1>2. ThreadsAtWork' /\ AttemptIsLive' /\ LedgerCounts'
  BY DEF IInv, ThreadsAtWork, AttemptIsLive, LedgerCounts, Exists, Serving, Me
<1>3. AttemptOwnsRecord' /\ CancelUnderWay'
  BY DEF IInv, AttemptOwnsRecord, CancelUnderWay, MyKey, MyOp, Me
<1>4. LettersFollow' /\ StopIsClean' /\ RecoveredSoFar'
  BY DEF IInv, LettersFollow, SummaryHasLetter, HasLetter, StopIsClean, RecoveredSoFar,
         Settles, Exists, Me
<1>. QED  BY <1>1, <1>2, <1>3, <1>4 DEF IInv

\* Time passes.
LEMMA TickStep == ASSUME IInv, Tick  PROVE IInv' /\ LP!Next /\ ReportsKept
<1>1. /\ now < MaxTime /\ now' = now + 1
      /\ UNCHANGED <<rec, gen, ledger, calls, letters, phase, scan, gate, wk, ctl>>
  BY DEF Tick, effects
<1>2. LP!Tick  BY <1>1 DEF LP!Tick, Serving
<1>3. LP!Next  BY <1>2 DEF LP!Next
<1>4. LP!IInv'  BY <1>3, LifecycleStep DEF IInv
<1>. QED  BY <1>1, <1>3, <1>4, SameWorker, SameReports

\* Nothing happens.
LEMMA StutterStep == ASSUME IInv, UNCHANGED vars  PROVE IInv'
<1>1. UNCHANGED <<rec, gen, now, ledger, calls, letters, phase, scan, gate, wk, ctl>>
  BY DEF vars
<1>2. LP!IInv'  BY <1>1, SameStore DEF IInv
<1>. QED  BY <1>1, <1>2, SameWorker

\* The first process on empty files.
LEMMA InitHolds == ASSUME Init  PROVE IInv
<1>1. LP!Init  BY DEF Init, LP!Init, Serving
<1>2. LP!IInv
  BY <1>1, LP!InitIInv, RecordAssumption, WorkerAssumption
  DEF EnvType, LP!EnvType, UnknownEffect, LP!UnknownEffect, RestartNote, LP!RestartNote
<1>3. WorkerType /\ ControlType /\ FileType
  BY DEF Init, WorkerType, ControlType, FileType, IdleWorker, IdleControl, Resting
<1>4. RecordOrigin /\ LedgerCounts  BY DEF Init, RecordOrigin, LedgerCounts, Exists
<1>5. ThreadsAtWork /\ AttemptIsLive /\ AttemptOwnsRecord /\ CancelUnderWay
  BY DEF Init, IdleWorker, IdleControl, ThreadsAtWork, AttemptIsLive, AttemptOwnsRecord,
         CancelUnderWay, Attempting, Dispatched, Resting
<1>6. LettersFollow /\ StopIsClean /\ RecoveredSoFar
  BY DEF Init, IdleWorker, LettersFollow, SummaryHasLetter, StopIsClean, RecoveredSoFar, Exists
<1>. QED  BY <1>2, <1>3, <1>4, <1>5, <1>6 DEF IInv

-----------------------------------------------------------------------------
(* Every step keeps IInv, and is a step of TaskLifecycle or none at all.   *)

Quiet == UNCHANGED <<rec, gen, now>> /\ Serving' = Serving

\* The worker thread, without the store.
LEMMA WorkerKeeps ==
  ASSUME IInv, UNCHANGED rec, WorkerStep  PROVE Quiet
BY DEF Quiet, WorkerStep, Serving

\* The control thread, without the store: the daemon serves until it restarts.
LEMMA ControlKeeps ==
  ASSUME IInv, IInv', Control, UNCHANGED rec,
         phase' \in {"serving", "stopped", "drainFailed"}
  PROVE  Quiet
BY ControlFacts DEF Quiet, Serving

\* What the worker does by itself.
LEMMA WorkerProgressStep ==
  ASSUME IInv, WorkerProgress  PROVE IInv' /\ (LP!Next \/ Quiet)
<1>1. CASE Register
  BY <1>1, RegisterStep, WorkerKeeps DEF Register
<1>2. CASE PreDispatch
  <2>1. IInv' /\ (LP!Next \/ rec' = rec)  BY <1>2, PreDispatchStep
  <2>. QED  BY <1>2, <2>1, WorkerKeeps DEF PreDispatch
<1>3. CASE DispatchSafe
  BY <1>3, DispatchSafeStep, WorkerKeeps DEF DispatchSafe
<1>4. CASE SafeHandlerAbandoned
  BY <1>4, SafeHandlerStep, WorkerKeeps DEF SafeHandlerAbandoned
<1>5. CASE InspectForClaim
  BY <1>5, InspectForClaimStep, WorkerKeeps DEF InspectForClaim
<1>6. CASE PrepareForClaim
  BY <1>6, PrepareForClaimStep, WorkerKeeps DEF PrepareForClaim
<1>7. CASE InvokeEffect
  BY <1>7, InvokeEffectStep, WorkerKeeps DEF InvokeEffect
<1>8. CASE AbandonPrepared \/ EffectHandlerAbandoned \/ EffectHandlerFailed
  BY <1>8, EffectGivenUpStep, WorkerKeeps
  DEF AbandonPrepared, EffectHandlerAbandoned, EffectHandlerFailed
<1>9. CASE CommitEffect
  BY <1>9, CommitEffectStep, WorkerKeeps DEF CommitEffect
<1>10. CASE Finish  BY <1>10, FinishStep
<1>11. CASE RecordDeadLetter
  BY <1>11, RecordDeadLetterStep, WorkerKeeps DEF RecordDeadLetter
<1>12. CASE CheckpointEvidence  BY <1>12, CheckpointStep
<1>13. CASE WorkerExit
  BY <1>13, WorkerExitStep, WorkerKeeps DEF WorkerExit
<1>. QED
  BY <1>1, <1>2, <1>3, <1>4, <1>5, <1>6, <1>7, <1>8, <1>9, <1>10, <1>11, <1>12, <1>13
  DEF WorkerProgress

\* Faults and handlers touch no record.
LEMMA FaultStep ==
  ASSUME IInv, WorkerFaults \/ HandlerReturns \/ HeartbeatFails  PROVE IInv' /\ Quiet
<1>1. CASE HeartbeatStartFails
  BY <1>1, HeartbeatStartFailsStep, WorkerKeeps DEF HeartbeatStartFails
<1>2. CASE PrepareFails
  BY <1>2, PrepareFailsStep, WorkerKeeps DEF PrepareFails
<1>3. CASE WorkerDies
  BY <1>3, WorkerDiesStep, WorkerKeeps DEF WorkerDies
<1>4. CASE SafeHandlerReturns
  BY <1>4, SafeHandlerStep, WorkerKeeps DEF SafeHandlerReturns
<1>5. CASE EffectHandlerReturns
  BY <1>5, EffectHandlerReturnsStep, WorkerKeeps DEF EffectHandlerReturns
<1>6. CASE HeartbeatFails
  BY <1>6, HeartbeatFailsStep DEF HeartbeatFails, store, Quiet, Serving
<1>. QED  BY <1>1, <1>2, <1>3, <1>4, <1>5, <1>6 DEF WorkerFaults, HandlerReturns

\* The control thread's signal and the drain.
LEMMA DrainStep ==
  ASSUME IInv, SignalCancellation \/ CloseClaimGate \/ DrainProgress \/ DrainBudgetExceeded
  PROVE  IInv' /\ (LP!Next \/ Quiet)
<1>1. CASE SignalCancellation \/ DrainSignal
  <2>1. Control /\ UNCHANGED phase  BY <1>1 DEF SignalCancellation, DrainSignal
  <2>2. phase' = "serving"  BY <2>1 DEF Control
  <2>. QED  BY <1>1, <2>1, <2>2, SignalStep, ControlKeeps
<1>2. CASE CloseClaimGate \/ WaitForIdle \/ GraceElapses
  <2>1. Control /\ UNCHANGED phase  BY <1>2 DEF CloseClaimGate, WaitForIdle, GraceElapses
  <2>2. phase' = "serving"  BY <2>1 DEF Control
  <2>. QED  BY <1>2, <2>1, <2>2, DrainWaitStep, ControlKeeps
<1>3. CASE RevokeHandlerResults
  <2>1. Control /\ UNCHANGED phase  BY <1>3 DEF RevokeHandlerResults
  <2>2. phase' = "serving"  BY <2>1 DEF Control
  <2>. QED  BY <1>3, <2>1, <2>2, RevokeStep, ControlKeeps
<1>4. CASE JoinWorker \/ DrainBudgetExceeded
  <2>1. Control /\ phase' \in {"stopped", "drainFailed"}
    BY <1>4 DEF JoinWorker, DrainBudgetExceeded, DrainEnds
  <2>. QED  BY <1>4, <2>1, DrainEndsStep, ControlKeeps
<1>5. CASE DrainCancel
  <2>1. Control /\ phase' \in {"serving", "drainFailed"}
    BY <1>5 DEF DrainCancel, DrainEnds, Control
  <2>2. IInv' /\ (LP!Next \/ rec' = rec)  BY <1>5, DrainCancelStep
  <2>. QED  BY <2>1, <2>2, ControlKeeps
<1>. QED  BY <1>1, <1>2, <1>3, <1>4, <1>5 DEF DrainProgress

\* IInv is inductive.
LEMMA NextStep ==
  ASSUME IInv, [Next]_vars  PROVE IInv' /\ (LP!Next \/ Quiet)
<1>1. ASSUME NEW t \in Tasks, Claim(t)  PROVE IInv' /\ (LP!Next \/ Quiet)
  BY <1>1, ClaimStep
<1>2. ASSUME NEW t \in Tasks, FindEvidence(t)  PROVE IInv' /\ (LP!Next \/ Quiet)
  BY <1>2, FindEvidenceStep, WorkerKeeps DEF FindEvidence
<1>3. CASE WorkerProgress  BY <1>3, WorkerProgressStep
<1>4. CASE WorkerFaults \/ HandlerReturns \/ HeartbeatFails  BY <1>4, FaultStep
<1>5. CASE Heartbeat  BY <1>5, HeartbeatStep
<1>6. ASSUME NEW t \in Tasks, Submit(t)  PROVE IInv' /\ (LP!Next \/ Quiet)
  BY <1>6, SubmitStep
<1>7. ASSUME NEW t \in Tasks, CancelTask(t)  PROVE IInv' /\ (LP!Next \/ Quiet)
  <2>1. Control /\ phase' = "serving"  BY <1>7 DEF CancelTask, Control
  <2>2. IInv' /\ (LP!Next \/ rec' = rec)  BY <1>7, CancelTaskStep
  <2>. QED  BY <2>1, <2>2, ControlKeeps
<1>8. ASSUME NEW t \in Tasks, ReconcileReplay(t)  PROVE IInv' /\ (LP!Next \/ Quiet)
  BY <1>8, ReconcileStep
<1>9. CASE SignalCancellation \/ CloseClaimGate \/ DrainProgress \/ DrainBudgetExceeded
  BY <1>9, DrainStep
<1>10. ASSUME NEW t \in Tasks, RecoverTask(t)  PROVE IInv' /\ (LP!Next \/ Quiet)
  <2>1. IInv' /\ (LP!Next \/ rec' = rec)  BY <1>10, RecoverTaskStep
  <2>2. /\ phase = "recovering" /\ phase' \in {"recovering", "startFailed"}
        /\ UNCHANGED <<gen, now>>
    BY <1>10 DEF RecoverTask
  <2>. QED  BY <2>1, <2>2 DEF Quiet, Serving
<1>11. CASE StartServing  BY <1>11, StartServingStep
<1>12. CASE Restart  BY <1>12, RestartStep
<1>13. CASE Tick  BY <1>13, TickStep
<1>14. CASE UNCHANGED vars  BY <1>14, StutterStep DEF vars, Quiet, Serving
<1>. QED
  BY <1>1, <1>2, <1>3, <1>4, <1>5, <1>6, <1>7, <1>8, <1>9, <1>10, <1>11, <1>12, <1>13, <1>14
  DEF Next

\* The inductive invariant holds in every reachable state.
THEOREM Invariance == Spec => []IInv
<1>1. Init => IInv  BY InitHolds
<1>2. IInv /\ [Next]_vars => IInv'  BY NextStep
<1>. QED  BY <1>1, <1>2, PTL DEF Spec

-----------------------------------------------------------------------------
(* The daemon implements TaskLifecycle.                                    *)

\* Lifecycle, the instance in TaskWorker, and LP have the same steps.
LEMMA SameLifecycle == Lifecycle!Next <=> LP!Next
<1>1. \A t : Lifecycle!Create(t) <=> LP!Create(t)
  BY DEF LP!Create, Lifecycle!Create, LP!Put, Lifecycle!Put, LP!Exists,
         Lifecycle!Exists, LP!QueuedSnapshot, Lifecycle!QueuedSnapshot
<1>2. \A t, o, n : Lifecycle!TryClaimQueued(t, o, n) <=> LP!TryClaimQueued(t, o, n)
  BY DEF LP!TryClaimQueued, Lifecycle!TryClaimQueued, LP!Claimable,
         Lifecycle!Claimable, LP!ClaimForExecution, Lifecycle!ClaimForExecution,
         LP!ClearOutcome, Lifecycle!ClearOutcome, LP!Serve, Lifecycle!Serve,
         LP!Exists, Lifecycle!Exists, LP!Put, Lifecycle!Put
<1>3. \A t, o, n : Lifecycle!HeartbeatExecution(t, o, n) <=> LP!HeartbeatExecution(t, o, n)
  BY DEF LP!HeartbeatExecution, Lifecycle!HeartbeatExecution, LP!Fenced,
         Lifecycle!Fenced, LP!Active, Lifecycle!Active, LP!TouchHeartbeat,
         Lifecycle!TouchHeartbeat, LP!Serve, Lifecycle!Serve, LP!Exists,
         Lifecycle!Exists, LP!Put, Lifecycle!Put
<1>4. \A t, o, x, n : Lifecycle!FinishExecution(t, o, x, n) <=> LP!FinishExecution(t, o, x, n)
  BY DEF LP!FinishExecution, Lifecycle!FinishExecution, LP!Fenced, Lifecycle!Fenced,
         LP!ApplyOutcome, Lifecycle!ApplyOutcome, LP!Complete, Lifecycle!Complete,
         LP!Fail, Lifecycle!Fail, LP!TimeOut, Lifecycle!TimeOut, LP!MarkCancelled,
         Lifecycle!MarkCancelled, LP!Serve, Lifecycle!Serve, LP!Exists,
         Lifecycle!Exists, LP!Put, Lifecycle!Put
<1>5. \A t, o, r : Lifecycle!FinishCommittedEffect(t, o, r) <=> LP!FinishCommittedEffect(t, o, r)
  BY DEF LP!FinishCommittedEffect, Lifecycle!FinishCommittedEffect, LP!Fenced,
         Lifecycle!Fenced, LP!Active, Lifecycle!Active, LP!CompleteCommittedEffect,
         Lifecycle!CompleteCommittedEffect, LP!Complete, Lifecycle!Complete,
         LP!Serve, Lifecycle!Serve, LP!Exists, Lifecycle!Exists, LP!Put,
         Lifecycle!Put
<1>6. \A t, o : Lifecycle!BlockPreparedEffect(t, o) <=> LP!BlockPreparedEffect(t, o)
  BY DEF LP!BlockPreparedEffect, Lifecycle!BlockPreparedEffect, LP!Fenced,
         Lifecycle!Fenced, LP!Active, Lifecycle!Active, LP!BlockUnknownEffect,
         Lifecycle!BlockUnknownEffect, LP!ClearOutcome, Lifecycle!ClearOutcome,
         LP!UnknownEffect, Lifecycle!UnknownEffect, LP!Serve, Lifecycle!Serve,
         LP!Exists, Lifecycle!Exists, LP!Put, Lifecycle!Put
<1>7. \A t, o, w : Lifecycle!RequestExecutionCancellation(t, o, w) <=> LP!RequestExecutionCancellation(t, o, w)
  BY DEF LP!RequestExecutionCancellation, Lifecycle!RequestExecutionCancellation,
         LP!Fenced, Lifecycle!Fenced, LP!Active, Lifecycle!Active, LP!RequestCancel,
         Lifecycle!RequestCancel, LP!IsTerminal, Lifecycle!IsTerminal, LP!Terminal,
         Lifecycle!Terminal, LP!Serve, Lifecycle!Serve, LP!Exists, Lifecycle!Exists,
         LP!Put, Lifecycle!Put
<1>8. \A t, w : Lifecycle!RequestCancellation(t, w) <=> LP!RequestCancellation(t, w)
  BY DEF LP!RequestCancellation, Lifecycle!RequestCancellation, LP!CancelCandidate,
         Lifecycle!CancelCandidate, LP!MarkCancelled, Lifecycle!MarkCancelled,
         LP!RequestCancel, Lifecycle!RequestCancel, LP!IsTerminal,
         Lifecycle!IsTerminal, LP!Terminal, Lifecycle!Terminal, LP!Serve,
         Lifecycle!Serve, LP!Exists, Lifecycle!Exists, LP!Put, Lifecycle!Put
<1>9. \A t, n : Lifecycle!RequeueRetryable(t, n) <=> LP!RequeueRetryable(t, n)
  BY DEF LP!RequeueRetryable, Lifecycle!RequeueRetryable, LP!RetryStepEnabled,
         Lifecycle!RetryStepEnabled, LP!RetryEligible, Lifecycle!RetryEligible,
         LP!ErrorIsRetryable, Lifecycle!ErrorIsRetryable, LP!RetryStep,
         Lifecycle!RetryStep, LP!Requeue, Lifecycle!Requeue, LP!ScheduleRetry,
         Lifecycle!ScheduleRetry, LP!ClearOutcome, Lifecycle!ClearOutcome, LP!Serve,
         Lifecycle!Serve, LP!Exists, Lifecycle!Exists, LP!Put, Lifecycle!Put
<1>10. \A t : Lifecycle!CheckpointEvidence(t) <=> LP!CheckpointEvidence(t)
  BY DEF LP!CheckpointEvidence, Lifecycle!CheckpointEvidence, LP!NeedsEvidence,
         Lifecycle!NeedsEvidence, LP!AddDeadLetter, Lifecycle!AddDeadLetter,
         LP!Serve, Lifecycle!Serve, LP!Exists, Lifecycle!Exists, LP!Put,
         Lifecycle!Put
<1>11. \A t : Lifecycle!RecoverReplayDelivery(t) <=> LP!RecoverReplayDelivery(t)
  BY DEF LP!RecoverReplayDelivery, Lifecycle!RecoverReplayDelivery, LP!Abandoned,
         Lifecycle!Abandoned, LP!RequiresOperator, Lifecycle!RequiresOperator,
         LP!UnknownEffect, Lifecycle!UnknownEffect, LP!Requeue, Lifecycle!Requeue,
         LP!ClearOutcome, Lifecycle!ClearOutcome, LP!Put, Lifecycle!Put, LP!Exists,
         Lifecycle!Exists
<1>12. \A t : Lifecycle!RecoverAbandonedTask(t) <=> LP!RecoverAbandonedTask(t)
  BY DEF LP!RecoverAbandonedTask, Lifecycle!RecoverAbandonedTask, LP!Recover,
         Lifecycle!Recover, LP!Abandoned, Lifecycle!Abandoned, LP!RequiresOperator,
         Lifecycle!RequiresOperator, LP!UnknownEffect, Lifecycle!UnknownEffect,
         LP!Requeue, Lifecycle!Requeue, LP!ClearOutcome, Lifecycle!ClearOutcome,
         LP!Put, Lifecycle!Put, LP!Exists, Lifecycle!Exists
<1>13. \A t : Lifecycle!InterruptAfterRestart(t) <=> LP!InterruptAfterRestart(t)
  BY DEF LP!InterruptAfterRestart, Lifecycle!InterruptAfterRestart, LP!Recover,
         Lifecycle!Recover, LP!Active, Lifecycle!Active, LP!BaselineInterrupt,
         Lifecycle!BaselineInterrupt, LP!MarkInterrupted, Lifecycle!MarkInterrupted,
         LP!RestartNote, Lifecycle!RestartNote, LP!Put, Lifecycle!Put, LP!Exists,
         Lifecycle!Exists
<1>14. \A t, r : Lifecycle!RecoverFromCommittedEffect(t, r) <=> LP!RecoverFromCommittedEffect(t, r)
  BY DEF LP!RecoverFromCommittedEffect, Lifecycle!RecoverFromCommittedEffect,
         LP!Recover, Lifecycle!Recover, LP!RecoverCommitted,
         Lifecycle!RecoverCommitted, LP!ClearOutcome, Lifecycle!ClearOutcome,
         LP!Put, Lifecycle!Put, LP!Exists, Lifecycle!Exists
<1>15. \A t : Lifecycle!BlockForUnknownEffect(t) <=> LP!BlockForUnknownEffect(t)
  BY DEF LP!BlockForUnknownEffect, Lifecycle!BlockForUnknownEffect, LP!Recover,
         Lifecycle!Recover, LP!RequiresOperator, Lifecycle!RequiresOperator,
         LP!BlockUnknownEffect, Lifecycle!BlockUnknownEffect, LP!ClearOutcome,
         Lifecycle!ClearOutcome, LP!UnknownEffect, Lifecycle!UnknownEffect, LP!Put,
         Lifecycle!Put, LP!Exists, Lifecycle!Exists
<1>16. Lifecycle!Outcomes = LP!Outcomes
  BY DEF LP!Outcomes, Lifecycle!Outcomes, LP!Outcome, Lifecycle!Outcome
<1>17. \A t : Lifecycle!Attempt(t) <=> LP!Attempt(t)
  BY <1>2, <1>3, <1>4, <1>5, <1>6, <1>7, <1>16 DEF LP!Attempt, Lifecycle!Attempt
<1>18. (Lifecycle!StartServing <=> LP!StartServing) /\ (Lifecycle!Restart <=> LP!Restart) /\ (Lifecycle!Tick <=> LP!Tick)
  BY DEF LP!StartServing, Lifecycle!StartServing, LP!Restart, Lifecycle!Restart,
         LP!Tick, Lifecycle!Tick, LP!Exists, Lifecycle!Exists, LP!Active,
         Lifecycle!Active
<1>. QED
  BY <1>1, <1>8, <1>9, <1>10, <1>11, <1>12, <1>13, <1>14, <1>15, <1>17, <1>18 DEF
     LP!Next, Lifecycle!Next

\* Every step of the daemon's threads, drain and recovery is an allowed move of
\* the task records, or leaves them alone.
THEOREM ImplementsLifecycle == Spec => LifecycleSpec
<1>1. Init => Lifecycle!Init  BY DEF Init, Lifecycle!Init, Serving
<1>2. IInv /\ [Next]_vars => [Lifecycle!Next]_(Lifecycle!vars)
  <2>1. ASSUME IInv, [Next]_vars  PROVE [Lifecycle!Next]_(Lifecycle!vars)
    <3>1. LP!Next \/ Quiet  BY <2>1, NextStep
    <3>. QED  BY <3>1, SameLifecycle DEF Quiet, Lifecycle!vars
  <2>. QED  BY <2>1
<1>. QED  BY <1>1, <1>2, Invariance, PTL DEF Spec, LifecycleSpec, Lifecycle!Spec

-----------------------------------------------------------------------------
(* The daemon implements EffectOnce.                                       *)

\* Progress of a key, case by case.
LEMMA ProgressFacts ==
  ASSUME NEW k
  PROVE  /\ calls[k] = 0 /\ ledger[k] = None => Progress(k) = "absent"
         /\ calls[k] = 0 /\ ledger[k] # None => Progress(k) = "reserved"
         /\ calls[k] = 1 /\ ledger[k] # None /\ ~Committed(ledger[k]) => Progress(k) = "started"
         /\ calls[k] = 1 /\ Committed(ledger[k]) => Progress(k) = "known"
BY DEF Progress, Committed

\* The same in the next state.
LEMMA NewProgressFacts ==
  ASSUME NEW k
  PROVE  /\ calls'[k] = 0 /\ ledger'[k] # None => Progress(k)' = "reserved"
         /\ calls'[k] = 1 /\ ledger'[k] # None /\ ~Committed(ledger'[k]) =>
              Progress(k)' = "started"
         /\ calls'[k] = 1 /\ Committed(ledger'[k]) => Progress(k)' = "known"
         /\ calls'[k] = calls[k] /\ ledger'[k] = ledger[k] => Progress(k)' = Progress(k)
BY DEF Progress, Committed

\* EffectOnce's reported, in this module's terms.
LEMMA ReportedIs ==
  /\ [t \in Effectful |-> IF Exists(t) /\ rec[t].status = "completed"
                          THEN rec[t].result ELSE None]
       = [t \in Effectful |-> Reported(rec[t])]
  /\ [t \in Effectful |-> IF Exists(t) /\ rec[t].status = "completed"
                          THEN rec[t].result ELSE None]'
       = [t \in Effectful |-> Reported(rec'[t])]
BY DEF Reported, Exists

\* A function that differs from another at one argument is its update there.
LEMMA Updated ==
  ASSUME NEW K, NEW f, NEW g, NEW k \in K, NEW v,
         f = [j \in K |-> f[j]], g = [j \in K |-> g[j]],
         f[k] = v, \A j \in K : j # k => f[j] = g[j]
  PROVE  f = [g EXCEPT ![k] = v]
<1>1. DOMAIN g = K  OBVIOUS
<1>2. \A j \in K : f[j] = IF j = k THEN v ELSE g[j]  OBVIOUS
<1>. QED  BY <1>1, <1>2

\* Steps EffectOnce does not see.
LEMMA OnceIdle ==
  ASSUME UNCHANGED <<ledger, calls>>, ReportsKept  PROVE UNCHANGED Once!vars
<1>1. [k \in Keys |-> Progress(k)]' = [k \in Keys |-> Progress(k)]
  BY DEF Progress, Committed
<1>2. [t \in Effectful |-> Reported(rec'[t])] = [t \in Effectful |-> Reported(rec[t])]
  BY DEF ReportsKept
<1>. QED  BY <1>1, <1>2, ReportedIs DEF Once!vars, Committed

\* A task is completed from the ledger: Report.
LEMMA OnceReports ==
  ASSUME IInv, UNCHANGED <<ledger, calls>>, NEW t \in Tasks, Reports(t)
  PROVE  Once!Next
<1>1. PICK k \in Keys : k = KeyOf[t]  BY NoneFacts
<1>2. t \in Effectful /\ Committed(ledger[k]) /\ ledger[k] # None /\ ledger[k].op = OpOf[t]
  BY <1>1 DEF Reports, Committed
<1>3. Progress(k) = "known"
  <2>1. calls[k] = 1  BY <1>2 DEF IInv, LedgerCounts
  <2>. QED  BY <1>2, <2>1, ProgressFacts
<1>4. [u \in Effectful |-> Reported(rec'[u])]
        = [[u \in Effectful |-> Reported(rec[u])] EXCEPT ![t] = ledger[k].result]
  BY <1>1, <1>2 DEF Reports
<1>5. [j \in Keys |-> Progress(j)]' = [j \in Keys |-> Progress(j)]
  BY DEF Progress, Committed
<1>6. [u \in Effectful |-> Reported(rec[u])][t] = None  BY <1>2 DEF Reports
<1>7. Once!Report(t)
  BY <1>1, <1>2, <1>3, <1>4, <1>5, <1>6, ReportedIs DEF Once!Report, Committed
<1>. QED  BY <1>2, <1>7 DEF Once!Next

\* A prepared record under a free key: Reserve.
LEMMA OnceReserves ==
  ASSUME IInv, UNCHANGED <<rec, calls>>, wk.pc = "prepare", Found = "absent",
         ledger' = [ledger EXCEPT ![MyKey] = PreparedRecord(MyOp, wk.task, wk.fence)]
  PROVE  Once!Next
<1>1. /\ wk.task \in Effectful /\ MyKey \in Keys /\ ledger[MyKey] = None /\ calls[MyKey] = 0
      /\ ~Committed(ledger'[MyKey]) /\ ledger'[MyKey] # None /\ ledger'[MyKey].op = MyOp
  BY ReserveFacts
<1>2. ledger \in [Keys -> EffectRecords \cup {None}]  BY DEF IInv, FileType
<1>3. \A j \in Keys : j # MyKey => ledger'[j] = ledger[j]  BY <1>1, <1>2
<1>4. Progress(MyKey) = "absent"  BY <1>1, ProgressFacts
<1>5. [j \in Keys |-> Progress(j)']
        = [[j \in Keys |-> Progress(j)] EXCEPT ![MyKey] = "reserved"]
  BY <1>1, <1>3, NewProgressFacts
<1>6. [j \in Keys |-> IF ledger'[j] = None THEN None ELSE ledger'[j].op]
        = [[j \in Keys |-> IF ledger[j] = None THEN None ELSE ledger[j].op]
             EXCEPT ![MyKey] = MyOp]
  <2>1. PICK f : f = [j \in Keys |-> IF ledger'[j] = None THEN None ELSE ledger'[j].op]
    OBVIOUS
  <2>2. PICK g : g = [j \in Keys |-> IF ledger[j] = None THEN None ELSE ledger[j].op]
    OBVIOUS
  <2>3. PICK k \in Keys, v \in {MyOp} : k = MyKey  BY <1>1
  <2>4. f = [j \in Keys |-> f[j]] /\ g = [j \in Keys |-> g[j]]  BY <2>1, <2>2
  <2>5. f[k] = v  BY <1>1, <2>1, <2>3
  <2>6. \A j \in Keys : j # k => f[j] = g[j]  BY <1>3, <2>1, <2>2, <2>3
  <2>7. f = [g EXCEPT ![k] = v]  BY <2>4, <2>5, <2>6, Updated
  <2>. QED  BY <2>1, <2>2, <2>3, <2>7
<1>7. [j \in Keys |-> IF Committed(ledger'[j]) THEN ledger'[j].result ELSE None]
        = [j \in Keys |-> IF Committed(ledger[j]) THEN ledger[j].result ELSE None]
  <2>1. ~Committed(ledger[MyKey])  BY <1>1 DEF Committed
  <2>. QED  BY <1>1, <1>3, <2>1
<1>8. [u \in Effectful |-> Reported(rec'[u])] = [u \in Effectful |-> Reported(rec[u])]
  OBVIOUS
<1>9. PICK t \in Effectful : t = wk.task  BY <1>1
<1>10. Once!Reserve(t)
  BY <1>1, <1>4, <1>5, <1>6, <1>7, <1>8, <1>9, ReportedIs
  DEF Once!Reserve, MyKey, MyOp, Committed
<1>. QED  BY <1>10 DEF Once!Next

\* The handler is called: Start.
LEMMA OnceStarts == ASSUME IInv, InvokeEffect  PROVE Once!Next
<1>1. /\ wk.pc = "prepared" /\ calls' = [calls EXCEPT ![MyKey] = @ + 1]
      /\ UNCHANGED <<rec, ledger>>
  BY DEF InvokeEffect
<1>2. wk.pc \in Attempting  BY <1>1 DEF Attempting, Dispatched
<1>3. /\ MyKey \in Keys /\ ledger[MyKey] # None /\ ~Committed(ledger[MyKey])
      /\ calls[MyKey] = 0
  BY <1>1, <1>2, AttemptFacts DEF IInv, AttemptOwnsRecord, PreparedBy
<1>4. calls \in [Keys -> Nat]  BY DEF IInv, FileType
<1>5. calls'[MyKey] = 1 /\ \A j \in Keys : j # MyKey => calls'[j] = calls[j]
  BY <1>1, <1>3, <1>4
<1>6. Progress(MyKey) = "reserved"  BY <1>3, ProgressFacts
<1>7. ledger'[MyKey] # None /\ ~Committed(ledger'[MyKey])  BY <1>1, <1>3
<1>8. [j \in Keys |-> Progress(j)']
        = [[j \in Keys |-> Progress(j)] EXCEPT ![MyKey] = "started"]
  BY <1>1, <1>5, <1>7, NewProgressFacts
<1>9. [u \in Effectful |-> Reported(rec'[u])] = [u \in Effectful |-> Reported(rec[u])]
  BY <1>1
<1>10. PICK k \in Keys : k = MyKey  BY <1>3
<1>11. Once!Start(k)
  BY <1>1, <1>3, <1>6, <1>8, <1>9, <1>10, ReportedIs DEF Once!Start, Committed
<1>. QED  BY <1>11 DEF Once!Next

\* The committed record: Learn.
LEMMA OnceLearns ==
  ASSUME IInv, UNCHANGED <<rec, calls>>, wk.pc = "returned", wk.out.status = "completed",
         ledger' = [ledger EXCEPT ![MyKey] = CommitRecord(@, wk.out.result)]
  PROVE  Once!Next
<1>1. /\ MyKey \in Keys /\ ledger[MyKey] # None /\ ~Committed(ledger[MyKey])
      /\ calls[MyKey] = 1 /\ wk.out.result \in Results /\ Committed(ledger'[MyKey])
      /\ ledger'[MyKey].result = wk.out.result /\ ledger'[MyKey].op = ledger[MyKey].op
  BY CommitFacts
<1>2. ledger \in [Keys -> EffectRecords \cup {None}]  BY DEF IInv, FileType
<1>3. /\ \A j \in Keys : j # MyKey => ledger'[j] = ledger[j]
      /\ ledger'[MyKey] # None
  BY <1>1, <1>2 DEF Committed
<1>4. Progress(MyKey) = "started"  BY <1>1, ProgressFacts
<1>5. [j \in Keys |-> Progress(j)']
        = [[j \in Keys |-> Progress(j)] EXCEPT ![MyKey] = "known"]
  BY <1>1, <1>3, NewProgressFacts
<1>6. [j \in Keys |-> IF ledger'[j] = None THEN None ELSE ledger'[j].op]
        = [j \in Keys |-> IF ledger[j] = None THEN None ELSE ledger[j].op]
  BY <1>1, <1>3
<1>7. [j \in Keys |-> IF Committed(ledger'[j]) THEN ledger'[j].result ELSE None]
        = [[j \in Keys |-> IF Committed(ledger[j]) THEN ledger[j].result ELSE None]
             EXCEPT ![MyKey] = wk.out.result]
  <2>1. PICK f : f = [j \in Keys |-> IF Committed(ledger'[j]) THEN ledger'[j].result ELSE None]
    OBVIOUS
  <2>2. PICK g : g = [j \in Keys |-> IF Committed(ledger[j]) THEN ledger[j].result ELSE None]
    OBVIOUS
  <2>3. PICK k \in Keys, v \in {wk.out.result} : k = MyKey  BY <1>1
  <2>4. f = [j \in Keys |-> f[j]] /\ g = [j \in Keys |-> g[j]]  BY <2>1, <2>2
  <2>5. f[k] = v  BY <1>1, <2>1, <2>3
  <2>6. \A j \in Keys : j # k => f[j] = g[j]  BY <1>3, <2>1, <2>2, <2>3
  <2>7. f = [g EXCEPT ![k] = v]  BY <2>4, <2>5, <2>6, Updated
  <2>. QED  BY <2>1, <2>2, <2>3, <2>7
<1>8. [u \in Effectful |-> Reported(rec'[u])] = [u \in Effectful |-> Reported(rec[u])]
  OBVIOUS
<1>9. PICK k \in Keys, r \in Results : k = MyKey /\ r = wk.out.result  BY <1>1
<1>10. Once!Learn(k, r)
  BY <1>1, <1>4, <1>5, <1>6, <1>7, <1>8, <1>9, ReportedIs DEF Once!Learn, Committed
<1>. QED  BY <1>10 DEF Once!Next

\* The worker's steps; all but the five named ones leave the ledger, the calls
\* and the reports alone.
LEMMA OnceWorker ==
  ASSUME IInv, WorkerProgress \/ WorkerFaults \/ HandlerReturns
  PROVE  Once!Next \/ UNCHANGED Once!vars
<1>1. CASE UNCHANGED <<rec, ledger, calls>>  BY <1>1, SameReports, OnceIdle
<1>2. CASE PreDispatch
  BY <1>2, PreDispatchStep, OnceIdle DEF PreDispatch, effects
<1>3. CASE PrepareForClaim \/ PrepareFails
  <2>1. UNCHANGED <<rec, calls>> /\ wk.pc = "prepare"
    BY <1>3 DEF PrepareForClaim, PrepareFails
  <2>2. CASE UNCHANGED ledger  BY <1>1, <2>1, <2>2
  <2>3. CASE /\ Found = "absent"
             /\ ledger' = [ledger EXCEPT ![MyKey] = PreparedRecord(MyOp, wk.task, wk.fence)]
    BY <2>1, <2>3, OnceReserves
  <2>. QED  BY <1>3, <2>2, <2>3 DEF PrepareForClaim, PrepareFails
<1>4. CASE InvokeEffect  BY <1>4, OnceStarts
<1>5. CASE CommitEffect
  <2>1. UNCHANGED <<rec, calls>> /\ wk.pc = "returned" /\ wk.out.status = "completed"
    BY <1>5 DEF CommitEffect
  <2>2. CASE UNCHANGED ledger  BY <1>1, <2>1, <2>2
  <2>3. CASE ledger' = [ledger EXCEPT ![MyKey] = CommitRecord(@, wk.out.result)]
    BY <2>1, <2>3, OnceLearns
  <2>. QED  BY <1>5, <2>2, <2>3 DEF CommitEffect
<1>6. CASE Finish
  <2>1. UNCHANGED <<ledger, calls>> /\ wk.pc \in Attempting  BY <1>6 DEF Finish, effects, Attempting
  <2>2. wk.task \in Tasks  BY <2>1, AttemptFacts
  <2>3. ReportsKept \/ Reports(wk.task)  BY <1>6, FinishStep
  <2>. QED  BY <2>1, <2>2, <2>3, OnceIdle, OnceReports
<1>7. CASE CheckpointEvidence
  BY <1>7, CheckpointStep, OnceIdle DEF CheckpointEvidence, effects
<1>8. CASE \/ Register \/ DispatchSafe \/ SafeHandlerAbandoned \/ InspectForClaim
           \/ AbandonPrepared \/ EffectHandlerAbandoned \/ EffectHandlerFailed
           \/ RecordDeadLetter \/ WorkerExit \/ HeartbeatStartFails \/ WorkerDies
           \/ SafeHandlerReturns \/ EffectHandlerReturns
  BY <1>1, <1>8
  DEF Register, DispatchSafe, SafeHandlerAbandoned, InspectForClaim, AbandonPrepared,
      EffectHandlerAbandoned, EffectHandlerFailed, RecordDeadLetter, WorkerExit,
      HeartbeatStartFails, WorkerDies, SafeHandlerReturns, EffectHandlerReturns, effects
<1>. QED
  BY <1>2, <1>3, <1>4, <1>5, <1>6, <1>7, <1>8 DEF WorkerProgress, WorkerFaults, HandlerReturns

\* The control thread's signal and the drain report nothing.
LEMMA OnceControl ==
  ASSUME IInv, SignalCancellation \/ CloseClaimGate \/ DrainProgress \/ DrainBudgetExceeded
  PROVE  UNCHANGED Once!vars
<1>1. Control
  BY DEF SignalCancellation, CloseClaimGate, DrainProgress, DrainBudgetExceeded, WaitForIdle,
         GraceElapses, DrainCancel, DrainSignal, RevokeHandlerResults, JoinWorker
<1>2. UNCHANGED <<ledger, calls>>  BY <1>1, ControlFacts
<1>3. CASE DrainCancel  BY <1>2, <1>3, DrainCancelStep, OnceIdle
<1>4. CASE ~DrainCancel
  <2>1. rec' = rec
    BY <1>4 DEF SignalCancellation, CloseClaimGate, DrainProgress, DrainBudgetExceeded,
                WaitForIdle, GraceElapses, DrainSignal, RevokeHandlerResults, JoinWorker
  <2>. QED  BY <1>2, <2>1, SameReports, OnceIdle
<1>. QED  BY <1>3, <1>4

\* Every step is a step of EffectOnce or none.
LEMMA OnceStep ==
  ASSUME IInv, [Next]_vars  PROVE [Once!Next]_(Once!vars)
<1>1. ASSUME NEW t \in Tasks, Claim(t)  PROVE UNCHANGED Once!vars
  BY <1>1, ClaimStep, OnceIdle DEF Claim, effects
<1>2. ASSUME NEW t \in Tasks, FindEvidence(t)  PROVE UNCHANGED Once!vars
  BY <1>2, SameReports, OnceIdle DEF FindEvidence, effects
<1>3. CASE WorkerProgress \/ WorkerFaults \/ HandlerReturns  BY <1>3, OnceWorker
<1>4. CASE Heartbeat  BY <1>4, HeartbeatStep, OnceIdle DEF Heartbeat, effects
<1>5. CASE HeartbeatFails  BY <1>5, SameReports, OnceIdle DEF HeartbeatFails, effects, store
<1>6. ASSUME NEW t \in Tasks, Submit(t) \/ CancelTask(t) \/ ReconcileReplay(t)
      PROVE  UNCHANGED Once!vars
  <2>1. Control  BY <1>6 DEF Submit, CancelTask, ReconcileReplay
  <2>2. UNCHANGED <<ledger, calls>>  BY <2>1, ControlFacts
  <2>3. ReportsKept  BY <1>6, SubmitStep, CancelTaskStep, ReconcileStep
  <2>. QED  BY <2>2, <2>3, OnceIdle
<1>7. CASE SignalCancellation \/ CloseClaimGate \/ DrainProgress \/ DrainBudgetExceeded
  BY <1>7, OnceControl
<1>8. ASSUME NEW t \in Tasks, RecoverTask(t)  PROVE Once!Next \/ UNCHANGED Once!vars
  <2>1. UNCHANGED <<ledger, calls>>  BY <1>8 DEF RecoverTask, effects
  <2>2. ReportsKept \/ Reports(t)  BY <1>8, RecoverTaskStep
  <2>. QED  BY <2>1, <2>2, OnceIdle, OnceReports
<1>9. CASE StartServing \/ Restart \/ Tick \/ UNCHANGED vars
  BY <1>9, SameReports, OnceIdle DEF StartServing, Restart, Tick, vars, effects, store
<1>. QED
  BY <1>1, <1>2, <1>3, <1>4, <1>5, <1>6, <1>7, <1>8, <1>9 DEF Next

\* Whatever retries, cancellations, I/O errors, drains and restarts happen
\* between the ledger's prepare and the task's outcome, the operation behind an
\* idempotency key starts at most once, after its record is durable, and a task
\* is reported completed only with the committed result of its own operation.
THEOREM ImplementsEffectOnce == Spec => EffectOnceSpec
<1>1. Init => Once!Init
  <2>1. SUFFICES ASSUME Init  PROVE Once!Init  OBVIOUS
  <2>2. \A k \in Keys : ledger[k] = None /\ calls[k] = 0 /\ ~Committed(ledger[k])
    BY <2>1 DEF Init, Committed
  <2>3. \A k \in Keys : Progress(k) = "absent"  BY <2>2, ProgressFacts
  <2>4. \A t \in Effectful : ~Exists(t)  BY <2>1, NoneFacts DEF Init, Exists
  <2>. QED  BY <2>2, <2>3, <2>4 DEF Once!Init
<1>2. IInv /\ [Next]_vars => [Once!Next]_(Once!vars)  BY OnceStep
<1>. QED  BY <1>1, <1>2, Invariance, PTL DEF Spec, EffectOnceSpec, Once!Spec

-----------------------------------------------------------------------------
(* The invariants and the action property that the runs check.             *)

\* A dead letter summary on a task record has its letter: the worker publishes
\* the letter before it checkpoints the summary, and no restart undoes that.
THEOREM LettersPrecedeSummaries == Spec => []LettersAreExact
<1>1. ASSUME IInv  PROVE LettersAreExact
  <2>1. gen \in 1..MaxGen /\ now \in 0..MaxTime  BY <1>1, StoreFacts DEF IInv
  <2>2. \A t \in Tasks : Exists(t) => rec[t].status \in Statuses
    BY <1>1, RecordFacts DEF IInv, Snapshots, SnapshotType
  <2>3. \A k \in Keys : ledger[k] # None => ledger[k].state \in {"prepared", "committed"}
    BY <1>1 DEF IInv, FileType, EffectRecords
  <2>4. /\ wk.pc \in {"idle", "claimed", "registered", "dispatch", "prepare", "prepared",
                      "handling", "returned", "finish", "evidence", "checkpoint", "exited",
                      "dead"}
        /\ wk.cap \in {"pending", "accepted", "revoked"}
        /\ wk.fin \in {None, "plain", "effect", "committed", "block"}
        /\ ctl.pc \in {"idle", "signal"} \cup DrainSteps
    BY <1>1 DEF IInv, WorkerType, ControlType, Resting, Attempting, Dispatched, Reporting
  <2>. QED
    BY <1>1, <2>1, <2>2, <2>3, <2>4 DEF LettersAreExact, TypeOK, IInv, FileType, LettersFollow
<1>. QED  BY <1>1, Invariance, PTL

\* A durable cancellation, by an operator or by the drain, reaches the attempt
\* that is running: its flag is set once the requesting thread has signalled.
THEOREM CancellationArrives == Spec => []CancelReachesAttempt
<1>1. IInv => CancelReachesAttempt
  BY DEF IInv, CancelUnderWay, CancelReachesAttempt, Dispatched
<1>. QED  BY <1>1, Invariance, PTL

\* A clean stop, the one the drain reports after joining the worker, leaves no
\* active attempt and no published letter that its task does not know of.
THEOREM CleanStop == Spec => []StoppedIsSettled
<1>1. IInv => StoppedIsSettled
  BY DEF IInv, StopIsClean, LettersFollow, StoppedIsSettled
<1>. QED  BY <1>1, Invariance, PTL

\* A restarted daemon serves only after each non-idempotent task with a ledger
\* entry is completed with the committed result or blocked for an operator.
THEOREM RecoverySettles == Spec => RecoverySettlesEffects
<1>1. IInv /\ [Next]_vars =>
        [phase = "recovering" /\ phase' = "serving" =>
           \A t \in Effectful : Exists(t) /\ ledger[KeyOf[t]] # None =>
             IF Committed(ledger[KeyOf[t]])
             THEN rec[t].status = "completed" /\ rec[t].result = ledger[KeyOf[t]].result
             ELSE RequiresOperator(rec[t])]_vars
  <2>1. SUFFICES ASSUME IInv, Next, phase = "recovering", phase' = "serving"
                 PROVE  \A t \in Effectful : Exists(t) => Settles(t, rec[t])
    BY DEF Settles
  <2>2. wk.pc = "idle" /\ ~Serving /\ ~wk.active /\ ~Control
    BY <2>1 DEF IInv, ThreadsAtWork, Serving, Resting, Control
  <2>3. StartServing
    <3>1. ~(\E t \in Tasks : Claim(t) \/ FindEvidence(t))  BY <2>2 DEF Claim, FindEvidence
    <3>2. ~WorkerProgress
      BY <2>2 DEF WorkerProgress, Register, PreDispatch, DispatchSafe, SafeHandlerAbandoned,
        InspectForClaim, PrepareForClaim, InvokeEffect, AbandonPrepared,
        EffectHandlerAbandoned, EffectHandlerFailed, CommitEffect, Finish, RecordDeadLetter,
        CheckpointEvidence, WorkerExit
    <3>3. ~WorkerFaults /\ ~HandlerReturns /\ ~Heartbeat /\ ~HeartbeatFails
      BY <2>2 DEF WorkerFaults, HandlerReturns, Heartbeat, HeartbeatFails, HeartbeatRuns,
        HeartbeatStartFails, PrepareFails, WorkerDies, SafeHandlerReturns, EffectHandlerReturns
    <3>4. ~(\E t \in Tasks : Submit(t) \/ CancelTask(t) \/ ReconcileReplay(t))
      BY <2>2 DEF Submit, CancelTask, ReconcileReplay
    <3>5. ~(SignalCancellation \/ CloseClaimGate \/ DrainProgress \/ DrainBudgetExceeded)
      BY <2>2 DEF SignalCancellation, CloseClaimGate, DrainProgress, DrainBudgetExceeded,
        WaitForIdle, GraceElapses, DrainCancel, DrainSignal, RevokeHandlerResults, JoinWorker
    <3>6. ~(\E t \in Tasks : RecoverTask(t)) /\ ~Restart /\ ~Tick
      BY <2>1 DEF RecoverTask, Restart, Tick
    <3>. QED  BY <2>1, <3>1, <3>2, <3>3, <3>4, <3>5, <3>6 DEF Next
  <2>. QED  BY <2>1, <2>3, StartServingStep
<1>. QED  BY <1>1, Invariance, PTL DEF Spec, RecoverySettlesEffects
=============================================================================
