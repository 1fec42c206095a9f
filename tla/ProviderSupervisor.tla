------------------------ MODULE ProviderSupervisor ------------------------
(***************************************************************************)
(* Provider processes of one adapter: the durable process records          *)
(* (eva-storage provider_process.rs), the admission table                  *)
(* (provider_admission.rs), the supervisor and the invocation loop that    *)
(* drives it (eva-adapter supervisor.rs, runtime.rs, restart.rs) and the   *)
(* part of restart recovery that reclaims providers (recovery.rs).         *)
(*                                                                         *)
(* The supervisor sits in a RefCell of the daemon's control thread, so at  *)
(* most one invocation is in flight; crashes, the renewal thread, the      *)
(* provider processes and the clock interleave with it.  A reservation id  *)
(* is the pair <<session, time of the reservation>>, as in the code.       *)
(***************************************************************************)
EXTENDS Integers, FiniteSets, FiniteSetsExt

CONSTANTS Sessions,        \* session ids (request and adapter)
          MaxAttempts,     \* restart budget of each session in the manifest a daemon
                           \* generation was started with; 0 disables restarts
          Concurrency,     \* manifest max_concurrency
          Ttl,             \* reservation time to live
          Backoff,         \* delay before a restart
          StableWindow,    \* run time after which a budget is whole again
          Threshold, RecoveryWindow,   \* circuit breaker
          RateMax, RateWindow,         \* rate limit
          MaxClock, MaxGen, MaxFaults, MaxPid  \* bounds of the model

VARIABLES
    rec,      \* session -> process record, or NoRec
    resv,     \* admission table: set of [id, session, expires]
    lock,     \* the admission lock file outlived the process that made it
    procs,    \* live operating system processes [pid, session, reg]
    daemon,   \* [phase, gen, draining, todo]
    inv,      \* the invocation in flight
    circuit,  \* [failures, opened, probe]
    rate,     \* [start, count]
    drain,    \* [phase, session, id]
    now, pids, faults,
    starts    \* session -> registered starts since its budget was last whole

vars == <<rec, resv, lock, procs, daemon, inv, circuit, rate, drain, now,
          pids, faults, starts>>

NoRec == [active |-> FALSE, rs |-> "none"]
NoId == <<"none", 0>>
NoTime == -1
RestartStates == {"disabled", "stable", "running", "pending", "starting",
                  "exhausted", "failed"}
Recorded(s) == rec[s] # NoRec

---------------------------------------------------------------------------
(* Process records: the transitions of ProviderProcessSnapshot.            *)

\* The budgets of the manifest the living daemon has loaded.
Manifest == MaxAttempts[daemon.gen]

\* ProviderProcessSnapshot::running with configure_restart_budget: the budget
\* stays with the record, whatever a later manifest says.
RunningRecord(s, id) ==
    [active |-> TRUE, rs |-> IF Manifest[s] = 0 THEN "disabled" ELSE "running",
     pid |-> 0, attempts |-> 0, max |-> Manifest[s], due |-> NoTime, at |-> now, gen |-> daemon.gen,
     resv |-> id, registered |-> FALSE, pendingRelease |-> {}]

Cleared(r) == [r EXCEPT !.pid = 0, !.gen = daemon.gen]

PrepareForRestart(r) ==
    [Cleared(r) EXCEPT !.rs = "starting", !.due = NoTime, !.at = now]

\* Fault: a restart is due only after its due time.
MayPrepareFault(r) == ~r.active /\ r.rs = "pending" /\ now > r.due

MayPrepare(r) == ~r.active /\ r.rs = "pending" /\ now >= r.due

\* stamp_snapshot and, for a restart, mark_restart_running.
WithIdentity(r, pid) ==
    [r EXCEPT !.pid = pid, !.registered = TRUE, !.gen = daemon.gen,
              !.active = TRUE, !.at = IF r.rs = "starting" THEN now ELSE @,
              !.rs = IF @ = "starting" THEN "running" ELSE @]

MayRegister(r) == (r.active \/ r.rs = "starting") /\ r.pid = 0

\* Fault: the restart is scheduled and not counted.
MarkRestartPendingFault(r, attempt, due) ==
    [Cleared(r) EXCEPT !.due = due, !.rs = "pending", !.active = FALSE, !.at = now]

\* An attempt that was counted before, or is beyond the record's own budget, is
\* an error that leaves the record alone.
AttemptInBudget(r, attempt) == attempt > r.attempts /\ attempt <= r.max
MarkRestartPending(r, attempt, due) ==
    [Cleared(r) EXCEPT !.attempts = attempt, !.due = due, !.rs = "pending",
                       !.active = FALSE, !.at = now]

RecoverStartingRestart(r) ==
    [Cleared(r) EXCEPT !.due = now, !.rs = "pending", !.at = now]

MarkRestartExhausted(r) ==
    [Cleared(r) EXCEPT !.rs = "exhausted", !.due = NoTime, !.active = FALSE]

MarkRestartFailed(r) ==
    [Cleared(r) EXCEPT !.rs = "failed", !.due = NoTime, !.active = FALSE]

MarkStableSuccess(r) ==
    [r EXCEPT !.attempts = 0, !.due = NoTime,
              !.rs = IF r.max = 0 THEN "disabled" ELSE "stable"]

Released(r) == [r EXCEPT !.active = FALSE, !.at = now, !.gen = daemon.gen]

\* validate_restart_state and validate_identity, as a predicate.
ValidRecord(r) ==
    /\ r.rs \in RestartStates
    /\ r.attempts <= r.max
    /\ (r.rs = "pending") <=> (r.due # NoTime)
    /\ r.rs \in {"pending", "starting", "exhausted"} => r.pid = 0

\* decide_restart on the budget consumed so far: an invocation asks with the
\* manifest's budget, recovery with the record's; saturating due time.
RestartDecision(max, r) ==
    CASE max = 0 -> "none"
      [] max > 0 /\ r.attempts >= max -> "exhausted"
      [] OTHER -> "restart"

DueAt(delay) == Min({now + delay, MaxClock})

---------------------------------------------------------------------------
(* Admission table.                                                        *)

Live(t) == {r \in t : r.expires > now}
Of(t, s) == {r \in Live(t) : r.session = s}
Owned(t, id, s) == {r \in t : r.id = id /\ r.session = s}

\* reserve: drop the expired, reuse the session's own, refuse at the limit.
MayReserve(t, s) == Of(t, s) # {} \/ Cardinality(Live(t)) < Concurrency
ReservationOf(t, s) ==
    IF Of(t, s) # {} THEN CHOOSE r \in Of(t, s) : TRUE
    ELSE [id |-> <<s, now>>, session |-> s, expires |-> now + Ttl]
Reserved(t, s) == Live(t) \cup {ReservationOf(t, s)}

\* reconcile_pending_admission_releases: what a crash between a durable
\* retirement and its release left behind is released now, by exact id.
PendingIds(s) == IF Recorded(s) THEN rec[s].pendingRelease ELSE {}
NothingPending == \A s \in Sessions : PendingIds(s) = {}
ReconciledTable ==
    IF NothingPending THEN resv
    ELSE {r \in Live(resv) : r.id \notin PendingIds(r.session)}
ReconciledRecords ==
    [s \in Sessions |-> IF PendingIds(s) = {} THEN rec[s]
                        ELSE [rec[s] EXCEPT !.pendingRelease = {}, !.gen = daemon.gen]]
MayReconcile == lock => NothingPending

---------------------------------------------------------------------------
Idle == [phase |-> "idle", session |-> "none", id |-> NoId, probe |-> FALSE,
         out |-> "none", renew |-> "ok"]
NoDrain == [phase |-> "none", session |-> "none", id |-> NoId]
ClosedCircuit == [failures |-> 0, opened |-> NoTime, probe |-> FALSE]
NoRate == [start |-> NoTime, count |-> 0]

Init ==
    /\ rec = [s \in Sessions |-> NoRec]
    /\ resv = {} /\ lock = FALSE /\ procs = {}
    /\ daemon = [phase |-> "down", gen |-> 0, draining |-> FALSE, todo |-> {}]
    /\ inv = Idle /\ circuit = ClosedCircuit /\ rate = NoRate /\ drain = NoDrain
    /\ now = 0 /\ pids = 0 /\ faults = 0
    /\ starts = [s \in Sessions |-> 0]

Serving == daemon.phase = "up" /\ ~daemon.draining
S == inv.session
Fault == faults < MaxFaults /\ faults' = faults + 1
FreshInvocation(s) == Serving /\ inv.phase = "idle" /\ MayReconcile

\* admit_circuit: closed, or the one probe after the recovery window.
CircuitAdmits ==
    \/ circuit.opened = NoTime
    \/ now - circuit.opened >= RecoveryWindow /\ ~circuit.probe
IsProbe == circuit.opened # NoTime
AdmittedCircuit == [circuit EXCEPT !.probe = @ \/ IsProbe]

\* admit_concurrency: active records of the adapter.
ConcurrencyAdmits == Cardinality({s \in Sessions : rec[s].active}) < Concurrency

\* admit_rate_limit: a fixed window that starts with the first request.
RateNow ==
    IF rate.start = NoTime \/ now - rate.start >= RateWindow
    THEN [start |-> now, count |-> 0] ELSE rate
RateAdmits == RateNow.count < RateMax

\* acquire of a session without a record, up to the reservation.
AcquireNew(s) ==
    /\ FreshInvocation(s) /\ ~Recorded(s)
    /\ CircuitAdmits /\ ConcurrencyAdmits /\ RateAdmits
    /\ ~lock /\ MayReserve(ReconciledTable, s)
    /\ rec' = ReconciledRecords
    /\ resv' = Reserved(ReconciledTable, s)
    /\ circuit' = AdmittedCircuit
    /\ rate' = [RateNow EXCEPT !.count = @ + 1]
    /\ inv' = [Idle EXCEPT !.phase = "reserved", !.session = s, !.probe = IsProbe,
                           !.id = ReservationOf(ReconciledTable, s).id]
    /\ UNCHANGED <<lock, procs, daemon, drain, now, pids, faults, starts>>

\* acquire refused by a gate after the circuit: the circuit's change stays.
AcquireRefused(s) ==
    /\ FreshInvocation(s) /\ ~Recorded(s) /\ CircuitAdmits
    /\ \/ ~ConcurrencyAdmits /\ UNCHANGED rate
       \/ ConcurrencyAdmits /\ ~RateAdmits /\ rate' = RateNow
       \/ /\ ConcurrencyAdmits /\ RateAdmits
          /\ lock \/ ~MayReserve(ReconciledTable, s)
          /\ rate' = [RateNow EXCEPT !.count = @ + 1]
    /\ rec' = ReconciledRecords /\ resv' = ReconciledTable
    /\ circuit' = AdmittedCircuit
    /\ UNCHANGED <<lock, procs, daemon, inv, drain, now, pids, faults, starts>>

\* acquire, last step: the running record is committed, or the reservation
\* is given back.
RecordSlot ==
    /\ inv.phase = "reserved"
    /\ rec' = [rec EXCEPT ![S] = RunningRecord(S, inv.id)]
    /\ inv' = [inv EXCEPT !.phase = "slot"]
    /\ UNCHANGED <<resv, lock, procs, daemon, circuit, rate, drain, now, pids,
                   faults, starts>>

RecordSlotFails ==
    /\ inv.phase = "reserved" /\ Fault
    /\ resv' = resv \ Owned(resv, inv.id, S)
    /\ inv' = Idle
    /\ UNCHANGED <<rec, lock, procs, daemon, circuit, rate, drain, now, pids, starts>>

\* acquire of a session whose restart is due: it needs its reservation still.
AcquireExisting(s) ==
    /\ FreshInvocation(s) /\ Recorded(s) /\ MayPrepare(rec[s])
    /\ ~lock /\ Of(ReconciledTable, s) # {}
    /\ LET id == ReservationOf(ReconciledTable, s).id IN
       /\ rec' = [ReconciledRecords EXCEPT ![s] =
                    [PrepareForRestart(ReconciledRecords[s]) EXCEPT !.resv = id]]
       /\ inv' = [Idle EXCEPT !.phase = "slot", !.session = s, !.id = id]
    /\ resv' = Live(ReconciledTable)
    /\ UNCHANGED <<lock, procs, daemon, circuit, rate, drain, now, pids, faults, starts>>

\* The credential session is denied by policy: complete, no restart decision.
PolicyDenied ==
    /\ inv.phase = "slot"
    /\ inv' = [inv EXCEPT !.phase = "outcome", !.out = "denied"]
    /\ UNCHANGED <<rec, resv, lock, procs, daemon, circuit, rate, drain, now,
                   pids, faults, starts>>

\* spawn_provider_as: the process exists before its identity is recorded.
Spawn ==
    /\ inv.phase = "slot" /\ pids < MaxPid
    /\ pids' = pids + 1
    /\ procs' = procs \cup {[pid |-> pids + 1, session |-> S, reg |-> FALSE]}
    /\ inv' = [inv EXCEPT !.phase = "spawned"]
    /\ UNCHANGED <<rec, resv, lock, daemon, circuit, rate, drain, now, faults, starts>>

SpawnFails ==
    /\ inv.phase = "slot"
    /\ \E out \in {"retryable", "fatal"} :
          inv' = [inv EXCEPT !.phase = "outcome", !.out = out]
    /\ UNCHANGED <<rec, resv, lock, procs, daemon, circuit, rate, drain, now,
                   pids, faults, starts>>

Register ==
    /\ inv.phase = "spawned" /\ MayRegister(rec[S])
    /\ rec' = [rec EXCEPT ![S] = WithIdentity(@, pids)]
    /\ procs' = {IF p.pid = pids THEN [p EXCEPT !.reg = TRUE] ELSE p : p \in procs}
    /\ starts' = [starts EXCEPT ![S] = @ + 1]
    /\ inv' = [inv EXCEPT !.phase = "running"]
    /\ UNCHANGED <<resv, lock, daemon, circuit, rate, drain, now, pids, faults>>

\* Registration fails: the process is terminated and the dispatch errs.
RegisterFails ==
    /\ inv.phase = "spawned" /\ Fault
    /\ procs' = {p \in procs : p.pid # pids}
    /\ inv' = [inv EXCEPT !.phase = "outcome", !.out = "fatal"]
    /\ UNCHANGED <<rec, resv, lock, daemon, circuit, rate, drain, now, pids, starts>>

\* The renewal thread, while a dispatch runs; its error ends the thread.
Renewable == {r \in Owned(resv, inv.id, S) : r.expires > now}
Renew ==
    /\ inv.phase = "running" /\ inv.renew = "ok"
    /\ IF ~lock /\ Renewable # {}
       THEN /\ resv' = (resv \ Renewable) \cup
                         {[r EXCEPT !.expires = now + Ttl] : r \in Renewable}
            /\ UNCHANGED inv
       ELSE /\ inv' = [inv EXCEPT !.renew = IF lock THEN "retryable" ELSE "fatal"]
            /\ UNCHANGED resv
    /\ UNCHANGED <<rec, lock, procs, daemon, circuit, rate, drain, now, pids,
                   faults, starts>>

\* The dispatch returns; a failed renewal replaces its result.
DispatchEnds(out) ==
    /\ inv.phase = "running"
    /\ procs' = {p \in procs : p.pid # rec[S].pid}
    /\ inv' = [inv EXCEPT !.phase = "outcome",
                          !.out = IF inv.renew = "ok" THEN out ELSE inv.renew]
    /\ UNCHANGED <<rec, resv, lock, daemon, circuit, rate, drain, now, pids,
                   faults, starts>>

\* record_circuit_outcome.
CircuitAfter(ok) ==
    IF ok THEN ClosedCircuit
    ELSE [failures |-> circuit.failures + 1, probe |-> FALSE,
          opened |-> IF inv.probe \/ circuit.failures + 1 >= Threshold
                     THEN now ELSE circuit.opened]

\* complete, up to the commit of the released record.
CompletedRecord == IF inv.out = "completed" THEN MarkStableSuccess(Released(rec[S]))
                   ELSE Released(rec[S])
Complete ==
    /\ inv.phase = "outcome" /\ rec[S].active
    /\ rec' = [rec EXCEPT ![S] = CompletedRecord]
    /\ circuit' = CircuitAfter(inv.out = "completed")
    /\ starts' = [starts EXCEPT ![S] = IF inv.out = "completed" THEN 0 ELSE @]
    /\ inv' = [inv EXCEPT !.phase = "release"]
    /\ UNCHANGED <<resv, lock, procs, daemon, rate, drain, now, pids, faults>>

\* complete returns an error: the slot is already terminal or the commit
\* failed after the circuit had been updated.  The invocation ends.
CompleteFails ==
    /\ inv.phase = "outcome"
    /\ \/ ~rec[S].active /\ UNCHANGED <<circuit, faults>>
       \/ rec[S].active /\ Fault /\ circuit' = CircuitAfter(inv.out = "completed")
    /\ inv' = Idle
    /\ UNCHANGED <<rec, resv, lock, procs, daemon, rate, drain, now, pids, starts>>

\* complete, last step: give the reservation back; a reservation that is
\* gone is an error that ends the invocation whatever the provider answered.
ReleaseReservation ==
    /\ inv.phase = "release"
    /\ IF lock \/ Owned(resv, inv.id, S) = {}
       THEN inv' = Idle /\ UNCHANGED resv
       ELSE /\ resv' = resv \ Owned(resv, inv.id, S)
            /\ inv' = IF inv.out \in {"completed", "denied"} THEN Idle
                      ELSE [inv EXCEPT !.phase = "decide"]
    /\ UNCHANGED <<rec, lock, procs, daemon, circuit, rate, drain, now, pids,
                   faults, starts>>

\* restart_after_failure; an attempt the record refuses ends the invocation.
RestartAfterFailure ==
    /\ inv.phase = "decide"
    /\ LET next == rec[S].attempts + 1
           d == CASE inv.out = "fatal" -> "failed"
                  [] inv.out # "fatal" /\ RestartDecision(Manifest[S], rec[S]) = "restart" ->
                       IF AttemptInBudget(rec[S], next) THEN "restart" ELSE "refused"
                  [] OTHER -> RestartDecision(Manifest[S], rec[S])
       IN /\ rec' = [rec EXCEPT ![S] =
                CASE d = "failed" -> MarkRestartFailed(@)
                  [] d = "exhausted" -> MarkRestartExhausted(@)
                  [] d = "restart" -> MarkRestartPending(@, next, DueAt(Backoff))
                  [] d \in {"none", "refused"} -> @]
          /\ inv' = IF d = "restart" THEN [inv EXCEPT !.phase = "backoff"] ELSE Idle
    /\ UNCHANGED <<resv, lock, procs, daemon, circuit, rate, drain, now, pids,
                   faults, starts>>

\* prepare_restart after the backoff; the loop dispatches once more.
PrepareRestart ==
    /\ inv.phase = "backoff" /\ MayPrepare(rec[S])
    /\ rec' = [rec EXCEPT ![S] = PrepareForRestart(@)]
    /\ inv' = [inv EXCEPT !.phase = "slot", !.out = "none", !.renew = "ok"]
    /\ UNCHANGED <<resv, lock, procs, daemon, circuit, rate, drain, now, pids,
                   faults, starts>>

---------------------------------------------------------------------------
(* Drain, on the control thread when no invocation is in flight.           *)

DrainBegin ==
    /\ Serving /\ inv.phase = "idle"
    /\ daemon' = [daemon EXCEPT !.draining = TRUE]
    /\ IF MayReconcile
       THEN /\ rec' = ReconciledRecords /\ resv' = ReconciledTable
            /\ drain' = [NoDrain EXCEPT !.phase = "scan"]
       ELSE UNCHANGED <<rec, resv>> /\ drain' = [NoDrain EXCEPT !.phase = "failed"]
    /\ UNCHANGED <<lock, procs, inv, circuit, rate, now, pids, faults, starts>>

\* retire_snapshot_after_drain: terminate what was registered, then commit the
\* retirement together with the release it still owes.
Retirable(r) == r.active /\ (r.pid # 0 \/ ~r.registered)
OwedRelease(s) == {r.id : r \in Owned(Live(resv), rec[s].resv, s)}
DrainRetire(s) ==
    /\ drain.phase = "scan" /\ Recorded(s) /\ Retirable(rec[s]) /\ ~lock
    /\ procs' = {p \in procs : rec[s].pid = 0 \/ p.pid # rec[s].pid}
    /\ rec' = [rec EXCEPT ![s] = [Released(@) EXCEPT !.pendingRelease = @ \cup OwedRelease(s)]]
    /\ resv' = Live(resv)
    /\ drain' = IF OwedRelease(s) = {} THEN drain
                ELSE [phase |-> "release", session |-> s, id |-> rec[s].resv]
    /\ UNCHANGED <<lock, daemon, inv, circuit, rate, now, pids, faults, starts>>

DrainRelease ==
    /\ drain.phase = "release"
    /\ resv' = resv \ Owned(resv, drain.id, drain.session)
    /\ drain' = [drain EXCEPT !.phase = "resolve"]
    /\ UNCHANGED <<rec, lock, procs, daemon, inv, circuit, rate, now, pids, faults, starts>>

\* mark_admission_release_resolved.
DrainResolve ==
    /\ drain.phase = "resolve"
    /\ rec' = [rec EXCEPT ![drain.session].pendingRelease = @ \ {drain.id}]
    /\ drain' = [NoDrain EXCEPT !.phase = "scan"]
    /\ UNCHANGED <<resv, lock, procs, daemon, inv, circuit, rate, now, pids, faults, starts>>

\* The report, once no record is active; or the deadline with some left.
DrainReports == \A s \in Sessions : ~rec[s].active
DrainEnds ==
    /\ drain.phase = "scan"
    /\ \/ DrainReports /\ drain' = [drain EXCEPT !.phase = "done"]
       \/ ~DrainReports /\ drain' = [drain EXCEPT !.phase = "failed"]
    /\ UNCHANGED <<rec, resv, lock, procs, daemon, inv, circuit, rate, now, pids,
                   faults, starts>>

---------------------------------------------------------------------------
(* Daemon generations and recovery.                                        *)

StartDaemon ==
    /\ daemon.phase = "down" /\ daemon.gen < MaxGen
    /\ daemon' = [phase |-> "clean", gen |-> daemon.gen + 1, draining |-> FALSE, todo |-> {}]
    /\ circuit' = ClosedCircuit /\ rate' = NoRate /\ drain' = NoDrain
    /\ UNCHANGED <<rec, resv, lock, procs, inv, now, pids, faults, starts>>

\* cleanup_provider_orphans: every active record must be of an older
\* generation and carry an identity; its process is terminated.
ActiveRecords == {s \in Sessions : rec[s].active}
OrphanPids == {rec[s].pid : s \in ActiveRecords}
Reclaimable == \A s \in ActiveRecords : rec[s].gen # daemon.gen /\ rec[s].pid # 0
CleanupOrphans ==
    /\ daemon.phase = "clean"
    /\ IF Reclaimable
       THEN /\ procs' = {p \in procs : p.pid \notin OrphanPids}
            /\ daemon' = [daemon EXCEPT !.phase = "recover",
                                        !.todo = {s \in Sessions : Recorded(s)}]
       ELSE UNCHANGED procs /\ daemon' = [daemon EXCEPT !.phase = "down"]
    /\ UNCHANGED <<rec, resv, lock, inv, circuit, rate, drain, now, pids, faults, starts>>

\* reset_restart_budget_after_stable_run.
BudgetReset(r) ==
    r.active /\ r.attempts > 0 /\ r.rs = "running" /\ now - r.at >= StableWindow
Reset(r) == IF BudgetReset(r) THEN MarkStableSuccess(r) ELSE r

\* For starts: the run of r has lasted for the window.
RanStably(r) == r.active /\ r.rs = "running" /\ now - r.at >= StableWindow

\* recover_provider_processes on one record.
RecoveredRecord(r) ==
    IF r.active THEN
        CASE RestartDecision(r.max, r) = "restart" -> MarkRestartPending(r, r.attempts + 1, DueAt(Backoff))
          [] RestartDecision(r.max, r) = "exhausted" -> MarkRestartExhausted(r)
          [] OTHER -> Released(r)
    ELSE CASE r.rs = "starting" -> RecoverStartingRestart(r)
           [] r.rs = "pending" -> [r EXCEPT !.gen = daemon.gen]
           [] OTHER -> r
RecoverProcess(s) ==
    /\ daemon.phase = "recover" /\ s \in daemon.todo
    /\ rec' = [rec EXCEPT ![s] = RecoveredRecord(Reset(@))]
    /\ starts' = [starts EXCEPT ![s] = IF RanStably(rec[s]) THEN 0 ELSE @]
    /\ daemon' = [daemon EXCEPT !.todo = @ \ {s}]
    /\ UNCHANGED <<resv, lock, procs, inv, circuit, rate, drain, now, pids, faults>>

RecoveryDone ==
    /\ daemon.phase = "recover" /\ daemon.todo = {}
    /\ daemon' = [daemon EXCEPT !.phase = "up"]
    /\ UNCHANGED <<rec, resv, lock, procs, inv, circuit, rate, drain, now, pids,
                   faults, starts>>

\* The daemon dies anywhere, or exits after a drain.  A death inside an
\* admission operation leaves the lock file, which nothing removes.
Stop ==
    /\ daemon.phase # "down"
    /\ \/ Fault /\ lock' = lock
       \/ Fault /\ inv.phase \in {"reserved", "release", "running"} /\ lock' = TRUE
       \/ drain.phase \in {"done", "failed"} /\ UNCHANGED <<faults, lock>>
    /\ daemon' = [daemon EXCEPT !.phase = "down", !.draining = FALSE, !.todo = {}]
    /\ inv' = Idle /\ drain' = NoDrain
    /\ UNCHANGED <<rec, resv, procs, circuit, rate, now, pids, starts>>

\* A process whose daemon is gone ends by itself.
ProcessExits(p) ==
    /\ p \in procs /\ daemon.phase = "down"
    /\ procs' = procs \ {p}
    /\ UNCHANGED <<rec, resv, lock, daemon, inv, circuit, rate, drain, now, pids,
                   faults, starts>>

Tick ==
    /\ now < MaxClock /\ now' = now + 1
    /\ UNCHANGED <<rec, resv, lock, procs, daemon, inv, circuit, rate, drain,
                   pids, faults, starts>>

\* The steps an invocation takes itself, and those that wait for the vault, which
\* opens the credentials of a slot, or for the provider.
SupervisorSteps ==
    \/ RecordSlot \/ RecordSlotFails \/ Register \/ RegisterFails
    \/ Complete \/ CompleteFails \/ ReleaseReservation \/ RestartAfterFailure
    \/ PrepareRestart
InvocationSteps ==
    \/ SupervisorSteps \/ PolicyDenied \/ Spawn \/ SpawnFails
    \/ \E out \in {"completed", "retryable", "fatal"} : DispatchEnds(out)
DrainSteps ==
    \/ \E s \in Sessions : DrainRetire(s)
    \/ DrainRelease \/ DrainResolve \/ DrainEnds
Next ==
    \/ \E s \in Sessions : AcquireNew(s) \/ AcquireRefused(s) \/ AcquireExisting(s)
    \/ InvocationSteps \/ Renew \/ DrainBegin \/ DrainSteps
    \/ StartDaemon \/ CleanupOrphans \/ RecoveryDone \/ Stop \/ Tick
    \/ \E s \in Sessions : RecoverProcess(s)
    \/ \E p \in procs : ProcessExits(p)

Spec == Init /\ [][Next]_vars
---------------------------------------------------------------------------
(* Properties.                                                             *)

RecordType == [active : BOOLEAN, rs : RestartStates, pid : 0 .. MaxPid,
               attempts : Nat, max : Nat, due : NoTime .. MaxClock, at : 0 .. MaxClock,
               gen : 0 .. MaxGen, resv : Sessions \X (0 .. MaxClock),
               registered : BOOLEAN, pendingRelease : SUBSET (Sessions \X (0 .. MaxClock))]

\* Every stored record is one validate_record accepts, reservations are of
\* known sessions and at most max_concurrency are unexpired.
TypeOK ==
    /\ \A s \in Sessions : Recorded(s) => rec[s] \in RecordType /\ ValidRecord(rec[s])
    /\ resv \subseteq [id : Sessions \X (0 .. MaxClock), session : Sessions,
                       expires : 1 .. MaxClock + Ttl]
    /\ Cardinality(Live(resv)) <= Concurrency
    /\ procs \subseteq [pid : 1 .. MaxPid, session : Sessions, reg : BOOLEAN]

\* recovery.rs reclaims orphans before it schedules restarts: two registered
\* processes of one session never run at the same time, whatever crashed.
OneRegisteredProcess ==
    \A p, q \in procs : p.reg /\ q.reg /\ p.session = q.session => p = q

\* The durable restart budget (runtime.rs, restart.rs): between two moments at
\* which its budget is whole a session is started at most once more than the
\* budget it was recorded with, counting the restarts that recovery schedules
\* and though a later manifest may allow more.
BudgetBoundsStarts == \A s \in Sessions : Recorded(s) => starts[s] <= rec[s].max + 1

\* Admission is not handed on early: an unexpired reservation disappears only
\* when the record of its session is not active any more, so a second
\* invocation cannot take the place of a provider that is still running.
HeldWhileActive ==
    [][\A r \in resv : (r \notin resv' /\ r.expires > now /\ ~\E q \in resv' : q.id = r.id)
          => ~(Recorded(r.session) /\ rec[r.session].active /\ rec[r.session].resv = r.id)]_vars

\* Drain (supervisor.rs drain_once): a drain that reports success leaves no
\* active record, no registered process and no release it still owes.
DrainLeavesNothing ==
    drain.phase = "done" =>
        /\ \A s \in Sessions : ~rec[s].active /\ PendingIds(s) = {}
        /\ \A p \in procs : ~p.reg

===========================================================================
