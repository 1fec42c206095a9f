# TLA+ verification of Eva-CLI's runtime

Eva-CLI is a Rust workspace whose daemon owns a set of durable files and runs
tasks, events, external providers, agents and upgrades on top of them. This
directory models the parts of that runtime where several threads, several
processes or a crash in the middle decide whether the result is right, checks
the models with TLC on small instances and proves the central facts with TLAPS
for every value of the constants.

Paths below are relative to `src/crates/` unless they start with `src/`.

## 1. Inventory of the system

| Component | State | Operations | What is hard, and what makes it correct |
|---|---|---|---|
| Task state store, `eva-storage/src/task_state.rs` | one versioned record file per task, a `latest` alias | create, claim, heartbeat, finish, cancel, retry, checkpoint evidence, restart recovery | reads take no lock and commits compare versions; canonical file and alias are two writes; a writer may die anywhere. Records stay valid, a durable cancellation is never outrun, settled outcomes stay, the optimistic transactions behave like indivisible steps |
| Effect ledger, `eva-storage/src/effect_ledger.rs` | one record per idempotency key: prepared, then committed | inspect, prepare, commit | crash or lost reply between prepare, handler call, commit and the task's outcome. The operation behind a key starts at most once and a completed task carries its result |
| Task worker, `eva-runtime/src/task_worker.rs` | claim gate, registry of active attempts, cancellation flag, result capability | claim loop, dispatch, heartbeat thread, failure evidence, replay reconciliation, drain | four threads share an attempt; a handler may never return; the worker may die. Cancellation reaches the attempt, a drain ends, a clean stop leaves nothing half done |
| Restart recovery, `eva-runtime/src/recovery.rs` | recovery reports | per-task recovery, start gate, provider orphans, event redrive | it may itself be interrupted. What the ledger knows decides each task before the daemon serves |
| Runtime lease and writer, `eva-storage/src/durable_backend.rs` | writer generation, owner record, lease record, two OS locks | acquire, renew, release, fenced write, probe | three files and two locks change one by one while processes start, stall and die. One writer per generation; a stale one cannot write |
| Background start, `eva-cli/src/run/daemon_cmd.rs`, `eva-runtime/src/daemon.rs` | frame files, pid and state file | launch, follow, abort, clean up, stop | a deadline races the child's readiness. A failed start leaves nothing, a serving daemon is not touched by others |
| Control loop, `eva-runtime/src/daemon.rs` | mailbox of request and response files | send, read, execute, answer, quarantine, shut down | four steps per request and a crash between any two. Executed at most once, answered to its sender |
| Event log and bus, `eva-storage/src/event_log.rs`, `eva-eventbus/`; retry, `eva-runtime/src/scheduler_retry.rs` | append-only log, dead letters, per-binding progress, due times | publish, acknowledge, dead-letter, replay | redelivery over crashes from copies of two buses. A binding that succeeded is not run again and every routable letter is settled |
| Provider table, admission, supervisor, `eva-storage/src/provider_*.rs`, `eva-adapter/` | process records, reservations, circuit and restart counters | admit, spawn, observe, restart, drain, clean orphans | orphans, stale owners, capacity. One process per session, a bounded number of starts |
| Provider transports and credentials, `eva-adapter/src/transports/`, `process_backend.rs`, `credential_vault.rs` | pipes, reader threads, process groups, vault sessions, a finalizer | run, time out, kill a group, release, retry, drain | output races deadline and exit; a vault may not answer. Nothing outlives the run unaccounted |
| Configuration generations, `eva-runtime/src/config_*.rs` | manifest, active and candidate runtime | watch, preflight, prepare, swap, promote, retire, recover | crash between staging and switch; edits meanwhile. What is served is what is durable |
| Restore apply, `eva-backup/src/restore_apply.rs` | transaction log, locks, target files | verify, apply, roll back, recover | a step is two log writes around a mutation. Nothing changes unlogged, foreign content is kept |
| Upgrade, `eva-lifecycle/src/{apply_lock,handoff,rollback}.rs` | apply lock, handoff and rollback records, pointer | gate, lock, drain, hand off, roll back | several operators and files. The pointer moves once per plan and behind its gates |
| Service managers and host, `eva-lifecycle/src/{systemd,launchd,windows_service,service_*}.rs` | unit files, tombstones, platform state, service status | install, start, stop, uninstall, query; report status | every command may fail half way; a watchdog reports a stale state. Success is true of the platform |
| MCP, `eva-mcp/`, `eva-adapter/src/supervisor.rs` | client call, HTTP registry, permits, server sessions, event streams | handshake, call, stream, abort, delete, drain, serve, shut down | peers that stop or answer late; drains race calls. Everything opened has one owner who releases it |
| Agents and routing, `eva-scheduler/`, `eva-agent/`, `eva-capability/`, `eva-lua-host/` | routes, bounded mailboxes, states | plan, enqueue, run, retry, acknowledge, dead-letter, reload | one Agent of several fails or a mailbox is full |
| Smaller stores, memory, hardware, discovery | artifacts, versions, audit, memory files, schedules, device state, cache | put, compare-and-set, append, maintain, claim, hotplug, scan | several processes on plain files and crashes between two of them |
| Configuration, policy, command line, release evidence, formats | values | parse, merge, narrow, decide, encode, verify | pure, but with many cases that have to agree with each other |
| Observability | output | record | best effort; not modelled |

Interaction. The daemon acquires the runtime lease, which yields the writer
generation every store checks on each commit. Recovery then walks all task
records against the effect ledger, ends provider orphans and reads the event log
before the control loop, the worker, its heartbeat threads and the scheduler
start. The control thread submits and cancels through the task store and signals
the worker's registry; the worker reports failures to the event bus as dead
letters; the scheduler turns a dead letter into a replay delivery, which is a
new task on the old idempotency key. Tasks reach providers through admission,
supervisor and transports, over MCP where the manifest says so. Launchers,
operators, restore, upgrade and service commands are other processes, which the
daemon meets in files only.

`PROJECT.json` lists every component with its status and every hazard with the
line where it bites and the properties that would catch it.

## 2. Modules

Actions are one per file write, lock operation, message, clock read or access to
shared state; code between two of those is part of the action.

| Module | Models | State |
|---|---|---|
| `TaskRecord` | `TaskStateSnapshot`: its pure transitions, `validate`, the transition table | none |
| `TaskLifecycle` | the abstract store: what callers may rely on | records, generation, clock |
| `TaskStateStore` | `FileSystemTaskStateStore` | record files, alias, one transaction per thread, commit lock |
| `EffectOnce` | the abstract ledger: what an idempotency key promises | progress per key |
| `TaskWorker` | worker, heartbeat, control thread, drain, recovery over store and ledger, and one ledger record | records, ledger, letters, worker, gate, scan |
| `RuntimeLease` | `durable_backend.rs` | files and locks of a data root, one record per process |
| `DaemonStartup` | launcher and child | lease, lock, frames, pid and state file, one start per launcher |
| `DaemonControl` | mailbox, loop, clients, shutdown | request, response and quarantine files, loop position, clients |
| `EventRedrive` | event log, dead letters, the retry tick | log, letters, two buses, scheduler position |
| `ProviderSupervisor` | process table, admission, supervisor, invocation loop, orphan recovery | records, reservations, processes, circuit, rate, drain |
| `ProviderTransports` | stdio, skill and HTTP runs, process-group clean-up, what a provider is given | run, pipes, readers, process group |
| `CredentialSessions` | vault sessions, finalizer, retries, drains | sessions, channel, counters |
| `ConfigGenerations` | watcher, reload, manifest, restart | disk, manifest, runtime, watcher |
| `RestoreApply`, `BackupArchive` | destructive restore; archives and sealing | files, plan, log, locks; none |
| `UpgradeHandoff` | upgrade apply and rollback | locks, records, pointer, one run per operator |
| `ServiceManagers`, `ServiceHost` | four managers; service process, watchdog and command execution | definition, tombstone, platform, operation; service status |
| `McpClient`, `McpStream` | one tool call over HTTP or stdio; event streams and the JSON scanner | link, server session, child; wire, pending responses |
| `McpHttpRegistry`, `McpHttpLifecycle` | session registry with readers; permits and credential owners of calls | sessions, threads; operations, leases, drain |
| `McpServer` | loopback server, sessions, shutdown, exposed tools | sessions, connection, handle |
| `AgentDispatch` | routes, mailboxes, Agents, event bus of one dispatch, hot reload | mailboxes, log, letters, run |
| `DurableStores` | backend manifest and layout, artifacts, versions, audit, text formats | files and one operation per actor |
| `MemoryStores` | memory and knowledge files, schedule, context and search | files, lock, claims |
| `HardwareLifecycle`, `Discovery` | drivers and hotplug; scans, cache and preflight | registry, sessions, stored state; world, cache, build |
| `AdapterManifest`, `ProjectConfig` | manifests; layers, references, policies, gates | none |
| `CommandLine`, `ReleaseGate` | options and exit codes; release evidence and readiness | none |
| `MCTaskStateStore`, `MCTaskWorker` | instances of one module each (`RuntimeLease` is run as it is) | |
| `MCSystem`, `MCServices`, `MCProgress` | many modules, one at a time; the parameters of `MCSystem`'s are its CONSTANTS, so that the theorems hold for all of them | `part` |
| `TaskRecordProofs`, `TaskLifecycleProofs`, `TaskStateStoreProofs`, `TaskWorkerProofs`, `RuntimeLeaseProofs` | theorems about one module each | |
| `SystemProofs`, `DaemonProofs`, `RecoveryProofs` | theorems about the machines of `MCSystem`: upgrade, hardware, stores, discovery, configuration and memory; start and control; restore and events | |
| `MCDecisions` | one evaluation of a pure operator per behaviour | `component`, `input` |

`TaskStateStore` and `TaskWorker` both carry `TaskLifecycle` as a refinement
(`LifecycleSpec`, an `INSTANCE` with a mapping): the first shows that optimistic
transactions compose to indivisible operations, which is what entitles the
second to take one store operation as one step. `TaskWorker` also implements
`EffectOnce`. `RuntimeLease` discharges what `TaskStateStore` and `TaskWorker`
assume of generations: at most one writer, each with a generation of its own.

`MCSystem`, `MCServices` and `MCProgress` put several state machines into one
run. The variable `part` says which one runs and never changes; the others stay
in an initial state. This is not a claim about their interleaving: the machines
meet in files, and a module that models a shared file by itself lets the file's
other writers act at any point (another daemon takes the lease, an operator
edits the configuration, a second bus appends).

Data abstraction. An envelope keeps its attempt limit, timeout, backoff and
replay marker. Owner, attempt number and cancellation token identify one claim
together, and the token is drawn once per claim, so (owner, attempt) stands for
it. Results and cancellation texts are model values, an error is its kind, an
interrupted reason is its class (the prefix that demands an operator, or any
other text). A digest is the content it was taken of, so equal digests mean
equal content. A parsed text is a sequence of the pieces its parser tells apart.
Log lines, trace ids and wording are left out.

Operators whose names end in `Fault` are plausible mistakes of the definition
that follows them. No specification uses them; they are what `PROJECT.json`
substitutes to make sure that every property can fail.

## 3. What is checked with TLC

| Run | Instance | States | Question |
|---|---|---|---|
| `store` | an operator task with two workers and a control thread, or a replay delivery with worker, heartbeat and control thread, two at a time; six versions, two generations, clock 0..2 | 315,684 | do racing transactions, failed alias writes, backoff and restarts look like single steps, with one holder per attempt? |
| `effects` | a non-idempotent task and the replay of its dead letter on one key; two operations on one key; a safe task; a task without a handler; one restart | 256,478 | at most one start per key, letters before summaries, recovery settles every task by the ledger |
| `drain` | a safe task with a deadline and a non-idempotent one, with fairness | 352,590 | does a drain end although handlers need not, and is a clean stop settled? |
| `lease` | two interchangeable processes, three generations, clock 0..2 set forwards and back | 1,394,796 | are generations unique, takeovers justified, writes ordered, and is the root always startable? |
| `system` | seventeen state machines with durable files | 709,249 | tasks, events, start, control, restore, configuration, upgrade, service managers, stores, memory, hardware, discovery |
| `services` | eleven state machines of one process each | 3,057,887 | providers, MCP in both directions, transports, credentials, service host, dispatch |
| `progress` | eight of them, with fairness | 424,574 | do letters, starts, requests, invocations, calls and releases end or wait for somebody else, and do drains end regardless? |
| `decisions` | some ninety operators over bounded inputs | 107,596 | do pure decisions, parsers and formats agree with a reference, a round trip or a tampered copy? |
| `orphan`, `unknown`, `pointer`, `fanout` | expected violations | | findings 1 to 4 |

Bounds of the task runs. Two attempts are the first number at which an old claim
can meet a new one, two generations the first at which recovery meets foreign
records (the code compares generations for equality, so a third adds no new
relation). The clock needs one step for heartbeats and deadlines and a second
one for a persisted backoff. Six versions let a task be created, claimed,
cancelled or failed, retried, claimed again and recovered. One worker thread is
what the daemon starts; `store` has two, which are interchangeable, because the
store's claims are made for any number. For the lease, an owner, its successor and
the successor of that one need three generations, for which two processes that
come and go are enough; the symmetry in the processes is sound, since no property of the run is
a liveness property and no process is named. The casts of `MCTaskStateStore` and
`MCTaskWorker` (`OneCast`) keep a behaviour on one story; tasks of different
stories share nothing but the clock. `OwnResult` lets the handler of an operation
return the result that is named for it or fail, since nothing compares two
results of one operation.

Bounds of the other machines (the `INSTANCE` lines of the MC modules give them
all). Two of every actor that competes (launchers, clients, operators, store
actors, provider sessions, MCP calls, credential sessions, Agents), because the
code's conflicts are between pairs. Two steps per restore plan, so that one is
done when the other fails, and two runs, so that a run meets the log of an
earlier one. Three edits and three starts over four configuration generations:
old, candidate, one refused and one after a restart. Three service operations:
install, something that fails, retry. Two sends per client and two daemon
generations. One failure and one crash at any point where a module has them; a
second crash meets the same files as the first, except in restore and lease,
which have more. Deadlock checking is off: a system without work, and one whose
bounds are used up, may stop. `MCSystem` treats its launchers and the paths of a
restore as interchangeable (no property names one, and none of the run's
properties is a liveness property). Its constraint `Bounded` keeps three rare
events from multiplying each other: the client that asks for the shutdown sends
once, a redrive meets a failure or a crash, and the operator's stop meets a
child's I/O error when at most one of the two daemons has been started.

These bounds are TLC's. The theorems of section 4 need none of them: processes,
clients, launchers, writers, devices, paths, sources, configurations, attempts,
sends, crashes and edits may be as many as they like.

`MCDecisions` enumerates inputs that take every branch of the operator: at least
two layers, sources or documents, absent next to empty, each field of a document
tampered with in turn, and bodies cut at every chunk boundary.

Fairness. `drain`: weak fairness of the worker's own steps and of the drain's
steps; the operating system schedules running threads, and both loops poll with
bounded waits. Nothing is assumed of the handlers and of the drain's budget. `progress`: weak fairness of the clock, of the deadlines that
follow from it and of each thread of a living process, one condition per line of
the table in `MCProgress`, except where the thread is inside somebody else's
code. A step in which an event handler, a tool, a provider or the vault returns
has no fairness, and neither has a start of a dead daemon or a fault. `RequestsAreAnswered` therefore says that a routable
letter is settled or waits in the worker's queue, and owes nothing once the
daemon is dead; `CallsEnd` says that work ends or is with the vault, the provider
or the tool (`WithOthers`), that it goes on when they return, and that drains end
though they never do. Strong fairness is given only to the launcher's start
deadline, which the launcher's polling disables for an instant in each round but
which, once passed, stays passed in the code; the launcher's child may hang.

## 4. What is proved

Thirty-three theorems in eight modules, none of which depends on the bounds of
section 3. They cover the refinements `LifecycleSpec` (twice) and
`EffectOnceSpec`, every property of the runs `store`, `effects`, `lease` and
`system` but `ServiceIsTrue`, and every safety property of `drain`. Each proof
has the shape `Init => IInv`, `IInv /\ [Next]_vars => IInv'` (one lemma per
action, and under it one step per conjunct that the action can disturb) and
`IInv => Inv`, or `IInv /\ [Next]_vars => A` for an action property. The
inductive invariants were run through TLC before they were proved.

**Task records and their lifecycle.** `TaskRecordProofs` states, once per
operator of `TaskRecord`, which fields it sets and that it preserves `Sound`.
`Sound` is the strengthening that makes the lifecycle's invariants inductive:
`Validate` alone is not, because whether a retry is allowed depends on fields
`Validate` relates only for records with an owner. `Sound` adds that a queued
record carries nothing of an attempt, that active records carry a complete
claim, that a cancellation excludes queued and running, and the bounds on
attempts those rely on. `TaskLifecycleProofs` takes `IInv` = `TypeOK` and `Sound`
for every record and concludes `TypeCorrect`, `RecordsStayValid`,
`CancellationBars`, `ClaimsWellShaped`, and the action properties
`CancellationSticks` and `SettledOutcomes`. Assumptions: `None` differs from every
value, envelopes are well formed, bounds are naturals.

**The optimistic store.** `TaskStateStoreProofs` shows that reads without a lock
followed by versioned commits implement `TaskLifecycle`. A commit is explained by
the record that was read, not by the one on disk; the two are the same because of
`TxnsKnow`: as long as the version on disk is the one read, so is the content.
`PledgesCounted` and `PledgesDiffer` are about claims, whether the worker already
knows of them or their transaction is still on its way back: each is counted in
the record's attempts, so two cannot be for the same one. `AliasBehind` and
`LockedTxn` order the alias writes. Theorems: `ImplementsLifecycle`,
`ClaimsExclusive`, `RefusalsAreConflicts` (a candidate is refused only because the
record moved, never because an operation built an inadmissible one) and
`AliasOnlyAdvances`. Assumptions: `RecordAssumption`, `AbsenceAssumption` (absent
is not a value), `ThreadsAssumption`.

**The worker and the ledger.** `TaskWorkerProofs` proves both refinements,
`ImplementsLifecycle` and `ImplementsEffectOnce`, and `LettersPrecedeSummaries`,
`CancellationArrives`, `CleanStop` and `RecoverySettles`, from one invariant:

- `AttemptIsLive`: whoever works on an attempt works on the record's current one,
  which is what makes a late outcome a conflict and not a second write;
- `LedgerCounts` and `AttemptOwnsRecord`: no record, no call; a committed record,
  one call; between `prepared` and the outcome the key's record is the attempt's
  own, and a decision to complete carries the committed result;
- `CancelUnderWay`: a durable cancellation is in the attempt's flag or in the
  hands of a thread that is about to signal it;
- `LettersFollow`, `StopIsClean`, `RecoveredSoFar`: letters before summaries, what
  a clean stop implies, and what the recovery's scan has already settled;
- `RecordOrigin`, `ThreadsAtWork` and the types, on which the others rest.

**The runtime lease.** `RuntimeLeaseProofs`, for every set of processes, time to
live and clock. `NeverFencedOff` alone is not inductive: nothing in it says why
a second process cannot reach the steps that would break it. `IInv` adds, besides
`TypeOK`,

- `LocksHeld`: a process's position determines which of the two locks it has;
- `GenerationHeld`: from the generation's advance on, the generation file is
  the process's own, and from the owner's write on the owner record too;
  before, its generation is the file's successor;
- `LeaseHeld`: a guard's copy of the lease is the record until one of its own
  writes fails, and what an acquisition concluded from the record (`Judged`)
  is still true when it replaces it, because only the anchor's holder writes it;
- `FilesAgree`: `AlwaysRestartable`, no lock on an anchor that does not exist,
  and no store write ahead of the generation file.

From it follow `UniqueGenerations`, `LiveOwnersStay`, `Restartable` and the action
properties `OrderedWrites`, `JustTakeovers` and `SteadyHeartbeats`. Assumption
(`LeaseAssumption`): `None` is no process and no record, a lease lives for at
least one clock unit, bounds are naturals.

**Start and control** (`DaemonProofs`). `StartsStayClean`: any number of
overlapping background starts. `StartInv` says who may touch the project's files:
who acts on them holds the lock (`OneHolder`), the lease record names the holder
(`HolderLeased`), from its first projection to its unwinding the pid and state
file are the child's (`ProjectionsOwn`), and without a claimed frame it has written
none (`ClaimFirst`), which is why a launcher that judges a dead child
(`ChildReaped`) may clean up by what the frames say and leave nothing
(`NothingLeft`). `ControlStaysExact`: any clients, shared ids, sends, generations
and crashes. A send that was executed is past (`ExecutedIsPast`): it is not
written again, not in the loop's hand for execution, and its file, if still there,
is addressed to a dead daemon or about to be removed. Around it, `RequestsOwned`
and `HandOwned` say where files and the request in hand come from, `AnswersEarned`
what a response means, `DrainShown` what the evidence of a drain means.
Assumptions: `StartupAssumption`, `ControlAssumption`.

**Restore and events** (`RecoveryProofs`). `RestoreKeepsItsWord`: any tree, plan,
archive and number of commands. `RestoreInv` follows the two logs on disk
(`LogsFollow`, `Announced`), says that the steps logged as done had their effects
on every path nobody edited since (`EffectsSoFar`), that each changed path can be
traced to an entry (`Traced`, `TracedAfter`), and, for the rollback, that a path is
back or a candidate that brings it back is left (`BackSoFar`, with
`CopiesWereFirst` for paths that did not exist). `RedriveStaysExact`: any letters,
handlers, delays and crashes. Two buses append to one log from copies of it; the
worker's may be behind, but the scheduler's copy never misses a replay
(`ReplaysKnown`), so the one it publishes for a letter is the first
(`Unpublished`, `OneReplay`). What was delivered so far of the replay in hand
(`DeliveredSoFar`) makes its acknowledgement true. Assumptions:
`RestoreAssumption`, `EventsAssumption`.

**The other durable parts** (`SystemProofs`).

- `UpgradesAreGated`: `UpgradeInv` = types, the plan's lock is held by who works on
  it (`LockHeld`), and where a run stands tells whether its pointer has moved
  (`PointerMoves`).
- `DevicesFollow`: a lease is an open session (`DriverInv`); a scan under way
  publishes what is (`ScanIsCurrent`), and a consumer knows the stored state or
  the one an interrupted scan would have stored (`ConsumerKnows`).
- `StoresStayWhole`: a writing open holds the migration lock (`LayoutGuarded`); an
  undisturbed put stays (`PutIsKept`); what a setter verified under the record's
  lock still holds, and a writer past its check is not taken over (`SettersKnow`,
  `WritersOwn`); the audit sink's next number is past every file
  (`NumbersAhead`); the merge of a scan is the scan's as far as it got
  (`MergedSoFar`).
- `ServesTheActive`: the manifest can be read back (`ManifestSound`) and stands
  where the promotion stands (`PromotionInStep`).
- `MemoryStaysKept`: a missing record has expired, is in its writer's hands, or was
  cut between removal and rename; section 5 says more of that window. What is about to be published to the schedule is the next
  generation, and claims past it differ (`NextInHand`, `GenerationsPast`,
  `GenerationsDiffer`); the index lock excludes (`OneInside`), the lock an
  interrupted maintenance left is older than any lock in use
  (`InterruptedIsPast`, `LocksNewer`), so what the maintainer judged is nobody's
  (`JudgeKnows`), and what was read under the lock holds (`ReadsHold`). This needs
  one maintenance at a time, with any number of writers: with two, TLC shows
  that both may judge the same interrupted lock, and that the later one then removes
  the lock the other has just taken. Nothing in `durable.rs` excludes two; the
  daemon runs one.

Assumptions: `RequestsAssumption`, `ConfigAssumption`, `StoresAssumption`,
`DiscoveryAssumption`, `MemoryAssumption`; each says that a marker such as `"none"`
is not one of the values it is told apart from, or that a bound is a natural.

**Only model-checked**, and why:

- liveness (`DrainTerminates`, `RequestsAreAnswered`, `CallsEnd`): it needs
  fairness and `ENABLED`, which the prover does not handle;
- the safety properties of `services` (`McpIsOrderly`, `ProcessesEndClean`,
  `DispatchIsRecorded`, `ProvidersAreBounded`, `SessionsAreReleased`): `MCServices`
  reaches modules whose codecs are recursive operators, and the prover cannot be
  used on such a module;
- `decisions`: what a recursive definition computes for every input needs
  induction over data;
- `ServiceIsTrue`: the managers' parameters are the code's own finite sets, so TLC
  already exhausts the part; a proof would be an assertion for every instruction
  of some twenty-five short programs.

`TypeOK`, `NeverFencedOff` and `HeartbeatNeverRewinds` are established by their
theorems alone; no run repeats them.

## 5. Findings

1. `orphan`. A claim whose record was written and whose alias write failed is
   recognised again only while the record is still `running`
   (`task_state.rs:2159`). If a cancellation commits in between, the call
   returns no claim and the record stays `cancelling` with an owner nobody runs,
   until the next restart. `eva-runtime/README.md:146` says that no running task
   is left outside the registry.
2. `unknown`. A non-idempotent handler that was invoked and failed yields an
   ordinary failure (`task_worker.rs:2487`); when a cancellation commits before
   the outcome is persisted, the task is closed as `cancelled` over a `Prepared`
   record. `eva-runtime/README.md:127` and `:150` say that such a task becomes a
   non-retryable failure or an operator block. The next restart does block it.
3. `pointer`. The runtime is built as generation 1 on every start
   (`builder.rs:195`) while the manifest keeps the number of the last promotion;
   the planning document asks that the restart pointer never drifts. The next
   valid edit after a reload and a restart proposes a candidate that `prepare`
   refuses as not monotonic, and that error ends the control loop.
4. `fanout`. The event log keeps one consumer per record, so the second Agent of
   a fanout rule that handles the event is refused its acknowledgement
   (`basic.rs:234`) and the Agents after it are not run.

Observations made while modelling, not claimed as disagreements with a document:

- An edit between the load of the configuration and the watcher's first
  baseline is never noticed; a restart with an edited configuration is refused
  (`daemon.rs:2881`).
- The upgrade lock is not removed, policies are enforced after it was taken, and
  different plans do not exclude each other. The lock files of a restore stay
  too, and so does the admission lock of a process that died with it
  (`provider_admission.rs:247`), after which admissions time out.
- `uninstall` moves what is at the path when it moves it, ownership having been
  checked before; the retry of a systemd install whose reload failed finds the
  unit unchanged and does not reload.
- The last `sync_directory` of a systemd or launchd uninstall comes after the
  tombstone's removal (`systemd.rs:679-681`, `launchd.rs:1010-1024`): its error is
  reported with neither file nor tombstone left, and with nothing left to
  uninstall, which is how `DefinitionNeverLost` states it.
- A service host goes on when a status report fails (`service_entry.rs:558-569`,
  `:699`), so the manager may believe that a stopped service runs; and the watchdog
  may report a START_PENDING it sampled before RUNNING after it (`:596`), which
  nothing corrects until the stop. `StopOutlivesReady` and `ReadyIsKnown` bound both.
- A memory write removes the old file and then renames the new one
  (`eva-memory/src/durable.rs:644-647`). A crash or a failing rename between the two
  loses an unexpired record; the new version is left in the temporary file, which
  nobody reads. The comment at 630-634 admits the window, those at 109 and 227 call
  the replacement atomic. `KeptUntilExpired` allows this one case and no other.
- The session id in the head of an initialize response whose body is cut is
  dropped with the error (`json_rpc.rs:1410-1423`, before `remember_initialize`), so
  no DELETE is sent for it, against the comment at 1138-1140. `CallLeavesNothing`
  excludes exactly this case and a response that was lost altogether.
- Kills are best effort. The stdio client's shutdown may end as
  `termination_failed`, a provider that survives `terminate_process`
  (`transports/stdio.rs:695-704`) is reported nowhere, and the clean-up of an orphan
  reports a group that survived SIGKILL. A clean-up may signal a stranger when the
  number is taken between its check and its signal, or by a group whose leader has
  left (`process_backend.rs:1178`); `StrangersAreFenced` excludes every other case.
- The loader picks the layers by the base file's environment (`eva-config/src/lib.rs:98-113`),
  the generation digest by the environment after the merge (`generation.rs:82-105`,
  whose comment says the same as the loader). A layer that renames the environment,
  which `layering.rs:245-260` tests, gives a digest of a configuration that was not
  loaded; `DigestCoversLoaded` says of which. Fields whose name contains a secret
  word are left out of the digest by substring, so an edit of `max_tokens` is one
  the digest does not see.
- Paths that a backup takes (`backup_service.rs:119-136`) and a restore refuses
  (`restore_apply.rs:1298-1336`) make an archive that cannot be read back; a newline
  in `--reason` (`backup_cmd.rs:127`) becomes a line of the archive's metadata; and the
  `encrypted` field of a sealed manifest is neither signed nor checked.
  `ArchiveReadsBack` and `BackupIsSealed` name these exceptions.
- A provider's time limit is first looked at once its input has been written
  (`transports/stdio.rs:289`), which is why `CallsEnd` speaks of runs whose input is
  written. HTTP limits hold per read.
- A provider probe is counted before later gates may refuse the call
  (`supervisor.rs:2544`); a restart of a completed slot has no reservation
  (`supervisor.rs:2274`).
- A hotplug crash followed by a reverted manifest loses the transition;
  discovery entries expire only when the cache is opened.
- Request ids the command line fills in are shared by calls of one operation;
  `ControlIsExact` is about clients that keep an id of their own.
- The artifact keys `a` and `a.artifact/x` want one path to be a file and a
  directory.

## 6. What is left out

Of the modelled components: the migration of older task records (the current
format's codec is one of the decisions), the legacy `recovering` status (read, never written by the current code), replay deliveries
without an original key (refused before any state changes), and metrics, traces
and logs. In `RuntimeLease`, the polling for the anchor and its settle timeout
are the choice between waiting and giving up, and an I/O error while acquiring
is the step before or after the write followed by `Ends`. Of text, full Unicode,
number and YAML syntax, the rendering of units, reports and listings; of
platforms, what `systemctl`, `launchctl`, the Windows manager, process groups
and pipes do beyond the outcomes the code tells apart; of the Lua host, the VM;
of SQLite, its internals. In MCP, `session.rs`, `http_transport.rs`
(configuration types, sockets and TLS) and the `McpSessionRegistry` of
`lifecycle.rs` (464-694), which nothing outside tests calls; in
`McpHttpRegistry`, an open or post that fails leaves the registry as it was; in
`TaskWorker` the worker thread dies only in the steps that propagate an error
(finish, evidence, checkpoint). Not modelled at all: observability output, which is
best effort, test fixtures, and code paths that only print. The share of a
command's lines that print is large in `eva-cli`, which is why its files are
mapped in part.

## 7. What could come next

1. Split the recursive codecs of `McpServer`, `McpStream` and `ProviderTransports`
   from their state machines, so that the safety properties of `services` can be
   proved as those of `system` are: `ProviderSupervisor` (`BudgetBoundsStarts`) and
   `CredentialSessions` (`CountersAreTrue`) first, whose invariants are close to
   inductive.
2. A proof for `ServiceManagers` once its programs share more of their assertions.
3. The parts of the command line and of the adapters' platform back ends that the
   map covers least.
