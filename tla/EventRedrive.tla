----------------------------- MODULE EventRedrive -----------------------------
(***************************************************************************)
(* The durable event bus of a daemon and the redrive of its dead letters:  *)
(* eva-storage/src/event_log.rs, eva-eventbus/src/durable.rs and           *)
(* eva-runtime/src/scheduler_retry.rs.                                     *)
(*                                                                         *)
(* Two buses are open in the process.  The task worker keeps one for good  *)
(* and records failures with it: an event, then its dead letter, then a    *)
(* summary in the task.  The scheduler opens one per tick: it publishes a  *)
(* replay of a due letter under an id of its own, has every binding of the *)
(* letter delivered as a task, and acknowledges or fails the replay.  Each *)
(* bus has copies of log and letters; a mutation reloads them under the    *)
(* writer's lock and writes one file.                                      *)
(*                                                                         *)
(* The process dies between any two writes, the worker thread alone as     *)
(* well; an I/O error ends the tick and with it the daemon.                *)
(***************************************************************************)
EXTENDS Integers, Sequences

CONSTANTS
  Events,      \* failure events
  None,
  Plan,        \* number of replay handlers of an event's letter
  Delay,       \* retry_delay_ms of an event's letter
  Routable,    \* events whose handlers agree with the project's routes
  MaxTime,     \* bound on the clock
  MaxCount,    \* bound on replay_count
  MaxFailures, \* bound on failing deliveries
  MaxCrashes   \* bound on crashes of the worker or the process

VARIABLES
  log,         \* event log files: sequence number -> record
  letters,     \* dead-letter files
  task,        \* delivery tasks: <<event, replay, binding>> -> state
  summaries,   \* failures whose task carries the letter's summary
  wbus,        \* the worker's copies of log and letters
  wpc, wjob,   \* the worker and the failure it materialises
  sbus,        \* the tick's copies
  spc,         \* recovery and scheduler
  todo,        \* letters the scan has not visited
  cur,         \* event, replay number, next binding and outcome in hand
  at,          \* redrive_ready_at_ms of the tick
  now, failures, crashes

worker  == <<wbus, wpc, wjob>>
tick    == <<sbus, spc, todo, cur, at>>
bounded == <<now, failures, crashes>>
vars    == <<log, letters, task, summaries, worker, tick, bounded>>

Deliveries == UNION {{<<e, n, i>> : n \in 1..MaxCount, i \in 1..Plan[e]} : e \in Events}

Bus(l, d) == [log |-> l, letters |-> d]
NoBus  == Bus(<<>>, [e \in Events |-> None])
NoWork == [event |-> None, replay |-> 0, next |-> 0, failed |-> FALSE, pending |-> FALSE]
Idle   == [st |-> "none", ready |-> 0]

Init ==
  /\ log = <<>> /\ letters = [e \in Events |-> None]
  /\ task = [d \in Deliveries |-> Idle] /\ summaries = {}
  /\ wbus = NoBus /\ wpc = "off" /\ wjob = None
  /\ sbus = NoBus /\ spc = "off" /\ todo = {} /\ cur = NoWork /\ at = 0
  /\ now = 0 /\ failures = 0 /\ crashes = 0

-----------------------------------------------------------------------------
(* event_log.rs and durable.rs.                                            *)

Appended(e, n) == [event |-> e, replay |-> n, status |-> "appended"]

Position(l, e, n) == {k \in DOMAIN l : l[k].event = e /\ l[k].replay = n}
HasEvent(l, e, n) == Position(l, e, n) # {}

\* latest_replay_record: the newest record whose id extends the event's own.
Replays(l, e) == {k \in DOMAIN l : l[k].event = e /\ l[k].replay > 0}
LatestReplay(l, e) == l[CHOOSE k \in Replays(l, e) : \A j \in Replays(l, e) : j <= k]

\* with_mutation and with_write_transaction.
Reload(b) == Bus(log, letters)

\* persist_record: the file named after the sequence number is replaced.
PersistRecord(k, r) ==
  log' = IF k <= Len(log) THEN [log EXCEPT ![k] = r] ELSE Append(log, r)

AppendEvent(b, e, n) ==
  ~HasEvent(Reload(b).log, e, n) /\ PersistRecord(Len(Reload(b).log) + 1, Appended(e, n))

\* ack and fail; an acknowledged record is left alone.
SetStatus(b, e, n, status) ==
  \E k \in Position(Reload(b).log, e, n) :
    IF Reload(b).log[k].status = "acked" THEN UNCHANGED log
    ELSE PersistRecord(k, [Reload(b).log[k] EXCEPT !.status = status])

\* saturating_add; the last instant of the clock stands for u64::MAX.
Saturating(t) == IF t > MaxTime THEN MaxTime ELSE t

NewLetter(e) == [count |-> 0, due |-> Saturating(now + Delay[e])]

PutLetter(e, letter) == letters' = [letters EXCEPT ![e] = letter]

-----------------------------------------------------------------------------
(* The task worker materialises the evidence of a failed task.             *)

\* The task of e has failed; its summary is not in its record yet.
FailTask(e) ==
  /\ wpc = "idle" /\ e \notin summaries
  /\ wpc' = "event" /\ wjob' = e
  /\ UNCHANGED <<log, letters, task, summaries, wbus, tick, bounded>>

EnsureEvent ==
  /\ wpc = "event" /\ wpc' = "letter"
  /\ \/ HasEvent(wbus.log, wjob, 0) /\ UNCHANGED <<log, wbus>>
     \/ /\ ~HasEvent(wbus.log, wjob, 0) /\ AppendEvent(wbus, wjob, 0)
        /\ wbus' = [wbus EXCEPT !.log = log']
  /\ UNCHANGED <<letters, task, summaries, wjob, tick, bounded>>

RecordDeadLetter ==
  /\ wpc = "letter" /\ wpc' = "summary"
  /\ \/ wbus.letters[wjob] # None /\ UNCHANGED <<letters, wbus>>
     \/ /\ wbus.letters[wjob] = None /\ Reload(wbus).letters[wjob] = None
        /\ PutLetter(wjob, NewLetter(wjob))
        /\ wbus' = [wbus EXCEPT !.letters = letters']
  /\ UNCHANGED <<log, task, summaries, wjob, tick, bounded>>

Checkpoint ==
  /\ wpc = "summary" /\ wpc' = "idle" /\ summaries' = summaries \cup {wjob} /\ wjob' = None
  /\ UNCHANGED <<log, letters, task, wbus, tick, bounded>>

\* A delivery is executed and its outcome written; its failure is retryable or
\* final.  A handler that does not return is this step not being taken.
RunDelivery(d) ==
  /\ wpc = "idle" /\ task[d].st = "queued"
  /\ \/ task' = [task EXCEPT ![d].st = "completed"] /\ UNCHANGED failures
     \/ /\ failures < MaxFailures /\ failures' = failures + 1
        /\ \E st \in {"failed", "rejected"} : task' = [task EXCEPT ![d].st = st]
  /\ UNCHANGED <<log, letters, summaries, worker, tick, now, crashes>>

-----------------------------------------------------------------------------
(* Recovery and the scheduler's tick.                                      *)

\* redrive_recovered_events, on the bus the recovery opened.
RecoveryRedrives(e) ==
  /\ sbus.letters[e] # None /\ sbus.letters[e].due <= at
  /\ HasEvent(sbus.log, e, 0) /\ Replays(sbus.log, e) = {}

\* redrive_for_publish_with_next: count first, then publish.
Redrive(e, due, where) ==
  LET old == Reload(sbus).letters[e] IN
  /\ old.count < MaxCount
  /\ PutLetter(e, [count |-> old.count + 1, due |-> due])
  /\ cur' = [NoWork EXCEPT !.event = e, !.replay = old.count + 1, !.next = 1]
  /\ sbus' = [sbus EXCEPT !.letters = letters'] /\ spc' = where

RecoverEvent(e) ==
  /\ spc = "recovery" /\ e \in todo
  /\ \/ ~RecoveryRedrives(e) /\ UNCHANGED <<letters, sbus, spc, cur>>
     \/ /\ RecoveryRedrives(e)
        /\ Redrive(e, Saturating(Delay[e] * (Reload(sbus).letters[e].count + 1)), "republish")
  /\ todo' = todo \ {e}
  /\ UNCHANGED <<log, task, summaries, worker, at, bounded>>

EndRecovery ==
  /\ spc = "recovery" /\ todo = {} /\ spc' = "idle" /\ sbus' = NoBus
  /\ wpc' = "idle" /\ wbus' = Bus(log, letters)
  /\ UNCHANGED <<log, letters, task, summaries, wjob, todo, cur, at, bounded>>

OpenTick ==
  /\ spc = "idle" /\ wpc # "dead" /\ spc' = "scan" /\ sbus' = Bus(log, letters) /\ at' = now
  /\ todo' = {e \in Events : letters[e] # None}
  /\ UNCHANGED <<log, letters, task, summaries, worker, cur, bounded>>

\* Fault: a replay that failed once is not taken up again.
SkipsFault(e) ==
  \/ sbus.letters[e].due > at
  \/ Replays(sbus.log, e) # {} /\ LatestReplay(sbus.log, e).status # "appended"

\* Letters that are not due, have no event, or whose replay was acknowledged.
Skips(e) ==
  \/ sbus.letters[e].due > at
  \/ ~HasEvent(sbus.log, e, 0)
  \/ Replays(sbus.log, e) # {} /\ LatestReplay(sbus.log, e).status = "acked"

Resumes(e) == Replays(sbus.log, e) # {}

Visit(e) ==
  /\ spc = "scan" /\ e \in todo /\ todo' = todo \ {e}
  /\ \/ Skips(e) /\ UNCHANGED <<letters, sbus, spc, cur>>
     \/ /\ ~Skips(e) /\ Resumes(e) /\ spc' = "reconcile"
        /\ cur' = [NoWork EXCEPT !.event = e, !.next = 1,
                                 !.replay = LatestReplay(sbus.log, e).replay]
        /\ UNCHANGED <<letters, sbus>>
     \/ ~Skips(e) /\ ~Resumes(e) /\ Redrive(e, at, "publish")
  /\ UNCHANGED <<log, task, summaries, worker, at, bounded>>

PublishReplay ==
  /\ spc \in {"publish", "republish"} /\ AppendEvent(sbus, cur.event, cur.replay)
  /\ sbus' = [sbus EXCEPT !.log = log']
  /\ IF spc = "publish" THEN spc' = "reconcile" /\ UNCHANGED cur
     ELSE spc' = "recovery" /\ cur' = NoWork
  /\ UNCHANGED <<letters, task, summaries, worker, todo, at, bounded>>

\* validate_replay_bindings, and a worker that is not healthy.
PlanRefused == cur.event \notin Routable \/ Plan[cur.event] = 0 \/ wpc = "dead"

\* reconcile_replay_delivery: the task is created, found or put back into the
\* queue, and what it says of the delivery is noted.
Delivered(s) ==
  CASE s.st = "none" -> [s EXCEPT !.st = "queued"]
    [] s.st = "failed" /\ Delay[cur.event] = 0 -> [s EXCEPT !.st = "queued"]
    [] s.st = "failed" /\ Delay[cur.event] > 0 ->
         [st |-> "deferred", ready |-> Saturating(at + Delay[cur.event])]
    [] s.st = "deferred" /\ s.ready <= at -> [st |-> "queued", ready |-> 0]
    [] OTHER -> s

Reconcile ==
  LET d == <<cur.event, cur.replay, cur.next>> IN
  /\ spc = "reconcile" /\ ~PlanRefused /\ cur.next <= Plan[cur.event]
  /\ task' = [task EXCEPT ![d] = Delivered(@)]
  /\ cur' = [cur EXCEPT
       !.next = @ + 1,
       !.pending = @ \/ task[d].st \in {"none", "queued"}
                     \/ (task[d].st = "deferred" /\ task'[d].st = "queued"),
       !.failed = @ \/ task[d].st \in {"failed", "rejected"} \/ task'[d].st = "deferred"]
  /\ UNCHANGED <<log, letters, summaries, worker, sbus, spc, todo, at, bounded>>

Reconciled == spc = "reconcile" /\ ~PlanRefused /\ cur.next > Plan[cur.event]

\* Fault: a plan without a failed delivery counts as delivered.
PlanSucceededFault == Reconciled /\ ~cur.failed

PlanSucceeded == Reconciled /\ ~cur.failed /\ ~cur.pending

AckReplay ==
  /\ PlanSucceeded /\ SetStatus(sbus, cur.event, cur.replay, "acked")
  /\ sbus' = [sbus EXCEPT !.log = log'] /\ spc' = "scan" /\ cur' = NoWork
  /\ UNCHANGED <<letters, task, summaries, worker, todo, at, bounded>>

LeavePending ==
  /\ Reconciled /\ ~cur.failed /\ cur.pending /\ ~PlanSucceeded
  /\ spc' = "scan" /\ cur' = NoWork
  /\ UNCHANGED <<log, letters, task, summaries, worker, sbus, todo, at, bounded>>

FailReplay ==
  /\ (spc = "reconcile" /\ PlanRefused) \/ (Reconciled /\ cur.failed)
  /\ SetStatus(sbus, cur.event, cur.replay, "failed")
  /\ sbus' = [sbus EXCEPT !.log = log']
  /\ IF Delay[cur.event] > 0 THEN spc' = "policy" /\ UNCHANGED cur
     ELSE spc' = "scan" /\ cur' = NoWork
  /\ UNCHANGED <<letters, task, summaries, worker, todo, at, bounded>>

SetRedrivePolicy ==
  /\ spc = "policy"
  /\ PutLetter(cur.event, [Reload(sbus).letters[cur.event] EXCEPT !.due = Saturating(at + Delay[cur.event])])
  /\ sbus' = [sbus EXCEPT !.letters = letters'] /\ spc' = "scan" /\ cur' = NoWork
  /\ UNCHANGED <<log, task, summaries, worker, todo, at, bounded>>

EndTick ==
  /\ spc = "scan" /\ todo = {} /\ spc' = "idle" /\ sbus' = NoBus /\ at' = 0
  /\ UNCHANGED <<log, letters, task, summaries, worker, todo, cur, bounded>>

-----------------------------------------------------------------------------
(* Process.                                                                *)

\* The daemon starts; the worker stays paused until recovery is through.
StartDaemon ==
  /\ spc = "off" /\ spc' = "recovery" /\ sbus' = Bus(log, letters) /\ at' = now
  /\ todo' = {e \in Events : letters[e] # None}
  /\ UNCHANGED <<log, letters, task, summaries, worker, cur, bounded>>

\* The worker thread dies of an I/O error; the control loop still finishes
\* the tick it is in.
WorkerDies ==
  /\ wpc \in {"event", "letter", "summary"} /\ crashes < MaxCrashes
  /\ crashes' = crashes + 1 /\ wpc' = "dead" /\ wjob' = None /\ wbus' = NoBus
  /\ UNCHANGED <<log, letters, task, summaries, tick, now, failures>>

Down ==
  /\ spc' = "off" /\ sbus' = NoBus /\ todo' = {} /\ cur' = NoWork /\ at' = 0
  /\ wpc' = "off" /\ wbus' = NoBus /\ wjob' = None
  /\ UNCHANGED <<log, letters, task, summaries, now, failures>>

Crash == spc # "off" /\ crashes < MaxCrashes /\ crashes' = crashes + 1 /\ Down

\* check_health: a control loop that finds its worker dead stops the daemon.
StopUnhealthy == spc = "idle" /\ wpc = "dead" /\ Down /\ UNCHANGED crashes

Tick == now < MaxTime /\ now' = now + 1
        /\ UNCHANGED <<log, letters, task, summaries, worker, tick, failures, crashes>>

\* The worker's own steps; what a delivery takes is up to its handler.
Evidence  == EnsureEvent \/ RecordDeadLetter \/ Checkpoint
Worker    == Evidence \/ \E d \in Deliveries : RunDelivery(d)
Recover   == EndRecovery \/ \E e \in Events : RecoverEvent(e)
Scheduler == \/ OpenTick \/ PublishReplay \/ Reconcile \/ AckReplay \/ LeavePending
             \/ FailReplay \/ SetRedrivePolicy \/ EndTick
             \/ \E e \in Events : Visit(e)

Next ==
  \/ \E e \in Events : FailTask(e)
  \/ Worker \/ Recover \/ Scheduler
  \/ StartDaemon \/ WorkerDies \/ Crash \/ StopUnhealthy \/ Tick

Spec == Init /\ [][Next]_vars

-----------------------------------------------------------------------------
(* Properties.                                                             *)

LetterType == [count : 0..MaxCount, due : 0..MaxTime] \cup {None}

\* The shape of the files, the copies and the threads.
TypeOK ==
  /\ \A k \in DOMAIN log : log[k] \in [event : Events, replay : 0..MaxCount,
                                       status : {"appended", "acked", "failed"}]
  /\ letters \in [Events -> LetterType] /\ summaries \subseteq Events
  /\ \A d \in Deliveries : task[d].st \in {"none", "queued", "completed", "failed",
                                           "deferred", "rejected"}
  /\ wpc \in {"off", "idle", "event", "letter", "summary", "dead"}
  /\ spc \in {"off", "recovery", "republish", "idle", "scan", "publish", "reconcile", "policy"}
  /\ todo \subseteq Events /\ at \in 0..MaxTime

\* Across crashes between the letter's count, the replay's publication and the
\* deliveries, a letter gets one replay event for good, and only bindings of
\* that replay become tasks: no binding runs under two identities.
ReplayedOnce ==
  \A e \in Events :
    /\ \A j, k \in Replays(log, e) : j = k
    /\ \A d \in Deliveries : d[1] = e /\ task[d].st # "none" => HasEvent(log, e, d[2])

\* A replay is acknowledged only when every binding of its letter has completed,
\* and stays true to that afterwards.
AckedMeansDelivered ==
  \A k \in DOMAIN log : log[k].status = "acked" =>
    \A i \in 1..Plan[log[k].event] : task[<<log[k].event, log[k].replay, i>>].st = "completed"

\* A summary in a task points to a letter, and a letter to an event of the log,
\* wherever the materialisation was cut off.
EvidenceInOrder ==
  \A e \in Events :
    /\ e \in summaries => letters[e] # None
    /\ letters[e] # None => HasEvent(log, e, 0)

\* The log only grows: no record is replaced by another event's, although both
\* buses append from copies, and an acknowledged record is final.
LogKeepsHistory ==
  [][\A k \in DOMAIN log :
       /\ k \in DOMAIN log'
       /\ log'[k].event = log[k].event /\ log'[k].replay = log[k].replay
       /\ log[k].status = "acked" => log'[k] = log[k]]_vars

Done(e) ==
  \/ \E k \in Replays(log, e) : log[k].status = "acked"
  \/ \E d \in Deliveries : d[1] = e /\ task[d].st = "rejected"

\* A binding of e's replay waits for the worker, or its handler has not returned.
HandedOver(e) == \E d \in Deliveries : d[1] = e /\ task[d].st = "queued"

=============================================================================
