------------------------------- MODULE MCSystem -------------------------------
(* Small instances of the state machines of the daemon and of the commands   *)
(* around it that keep durable state, one at a time: part says which one     *)
(* runs, the others stay where they start.  They meet in files only, and the *)
(* modules that model a file by themselves let its other writers act at any  *)
(* point.  The atomic task lifecycle is part "tasks".                        *)
EXTENDS TaskLifecycle, Sequences, TLC

CONSTANTS Parts, operatorTask, replayTask, p

\* Those of the state machines, with a prefix where two of them share a name.
CONSTANTS
  FailureEvents, EvPlan, EvDelay, EvRoutable,                \* EventRedrive
  EvMaxTime, EvMaxCount, EvMaxFailures, EvMaxCrashes,
  Launchers, SuMaxFailures, SuMaxCrashes,                    \* DaemonStartup
  Clients, CtId, CtOp, MaxSends, CtMaxGen, CtMaxErrors,      \* DaemonControl
  Paths, MaxSteps, RsMaxEdits, MaxRuns,                      \* RestoreApply
  Operators, PlanIds,                                        \* UpgradeHandoff
  Configs, Broken, CfMaxGen, CfMaxEdits, MaxStarts,          \* ConfigGenerations
  Actors, Payloads, MaxWrites,                               \* DurableStores
  Devices, Requests, HwMaxEdits, HwMaxCrashes,               \* HardwareLifecycle
  Sources, CandidateIds, Rank(_), Ttl,                       \* Discovery
  DiMaxClock, DiMaxEdits, DiMaxCrashes,
  Writers, maintainer, StaleAfter, Callers, OwnerOf(_),      \* MemoryStores
  MmMaxClock, MmMaxCrashes, MaxVersion, MaxGeneration

MCTasks == {operatorTask, replayTask}
MCEnv ==
  (operatorTask :> [max |-> 2, timeout |-> 1, backoff |-> 0, replay |-> FALSE]) @@
  (replayTask :> [max |-> 3, timeout |-> None, backoff |-> 1, replay |-> TRUE])

\* Launchers are alike, and so are the paths of a restore.
Alike == Permutations(Launchers) \cup Permutations(Paths)

\* "none" is the absence of a request or a configuration, "torn" no content that is put.
ASSUME RequestsAssumption == "none" \notin Requests
\* A letter has handlers and a delay, and None is no letter.
ASSUME EventsAssumption ==
  /\ EvPlan \in [FailureEvents -> Nat] /\ EvDelay \in [FailureEvents -> Nat]
  /\ EvMaxTime \in Nat /\ EvMaxCount \in Nat /\ None \notin [count : Nat, due : Nat]
\* A lock is stale after some time, and maintenance is no writer.
ASSUME MemoryAssumption == StaleAfter \in Nat \ {0} /\ maintainer \notin Writers
\* A process, an identity and a lease record are there; None is none of them.
ASSUME StartupAssumption ==
  /\ None \notin Nat
  /\ \A l \in Launchers : None \notin {<<"child", l>>, <<"launcher", l>>}
  /\ None # <<"operator", None>>
  /\ \A who \in {"child", "launcher", "operator"}, l \in Launchers \cup {None} :
       /\ None \notin [proc : {<<who, l>>}, gen : Nat, state : {"active", "released"}]
       /\ None \notin [proc : {<<who, l>>}, status : {"running", "stopped"}]
  /\ SuMaxFailures \in Nat /\ SuMaxCrashes \in Nat
\* A request id is a number, and None is no request and no response.
ASSUME ControlAssumption ==
  /\ CtId \in [Clients -> Nat] /\ CtOp \in [Clients -> {"status", "mutate", "shutdown"}]
  /\ MaxSends \in Nat /\ CtMaxGen \in Nat
  /\ None \notin [client : Clients, n : 1..MaxSends, target : 1..CtMaxGen, op : {"status", "mutate", "shutdown"}]
  /\ None \notin [send : [client : Clients, n : 1..MaxSends], op : {"status", "mutate", "shutdown"}]
\* A restore has a path to restore.
ASSUME RestoreAssumption == p \in Paths /\ RsMaxEdits \in Nat /\ MaxSteps \in Nat \ {0} /\ MaxRuns \in Nat
ASSUME ConfigAssumption == "none" \notin Configs /\ CfMaxGen \in Nat
ASSUME StoresAssumption == "torn" \notin Payloads /\ MaxWrites \in Nat
\* The sources are a sequence.
ASSUME DiscoveryAssumption ==
  Sources \in Seq({Sources[i] : i \in DOMAIN Sources}) /\ Ttl \in Nat /\ DiMaxClock \in Nat

VARIABLE part

\* EventRedrive
VARIABLES
  log, letters, task, summaries, wbus, wpc, wjob, sbus, spc, todo, evCur, at,
  evNow, evFailures, evCrashes

\* DaemonStartup
VARIABLES
  suLease, suLock, expired, genFile, suPidFile, stateFile, frames, child,
  suGen, launch, seen, stop, suFailures, suCrashes

\* DaemonControl
VARIABLES
  ctGen, ctLease, live, status, ctPidFile, evidence, requests, responses,
  rejected, ctPc, ctScan, ctCur, token, client, executed, drained, errors

\* RestoreApply
VARIABLES
  rsFiles, before, plan, archive, rsLocks, txn, rb, cmd, rsEdits, runs

\* ConfigGenerations
VARIABLES
  cfDisk, store, rt, loaded, watcher, cfPc, cfEdits, starts

\* UpgradeHandoff
VARIABLES
  upLocks, upFiles, run, pointed, gated

\* ServiceManagers
VARIABLES
  kind, smFile, tomb, load, smActive, mode, op, last, ops

\* DurableStores
VARIABLES
  backend, opener, artifact, putter, state, setter, audit

\* MemoryStores
VARIABLES
  mmClock, mmLock, checkpoint, mmFile, left, actor, mmCrashes, mmNow, schedule,
  anchor, job

\* HardwareLifecycle
VARIABLES
  registry, hwActive, told, manifest, stored, events, hwScan, hwEdits,
  hwCrashes, excused

\* Discovery
VARIABLES
  world, diDisk, cache, build, diClock, diEdits, diCrashes

-----------------------------------------------------------------------------
\* Two of the three callers of the memory maintenance schedule share a name.
MemoryOwner(c) == IF c = "c3" THEN "y" ELSE "x"
\* The rank of a discovery source: the project's before the path's.
SourceRank(s) == IF s = "path" THEN 1 ELSE 2
MCSources == <<"project", "path">>
\* One letter has two bindings and a delay; the other no route.
MCPlan == [e \in FailureEvents |-> IF e = "e1" THEN 2 ELSE 1]
MCDelay == [e \in FailureEvents |-> IF e = "e1" THEN 1 ELSE 0]
\* One client asks for a mutation, the other for a shutdown.
MCId == [c \in Clients |-> IF c = "c1" THEN 1 ELSE 2]
MCOp == [c \in Clients |-> IF c = "c1" THEN "mutate" ELSE "shutdown"]

Events == INSTANCE EventRedrive WITH
  Events <- FailureEvents, Plan <- EvPlan, Delay <- EvDelay, Routable <- EvRoutable,
  MaxTime <- EvMaxTime, MaxCount <- EvMaxCount, MaxFailures <- EvMaxFailures,
  MaxCrashes <- EvMaxCrashes, cur <- evCur, now <- evNow, failures <- evFailures,
  crashes <- evCrashes

Startup == INSTANCE DaemonStartup WITH
  MaxFailures <- SuMaxFailures, MaxCrashes <- SuMaxCrashes,
  lease <- suLease, lock <- suLock, pidFile <- suPidFile, gen <- suGen,
  failures <- suFailures, crashes <- suCrashes

Control == INSTANCE DaemonControl WITH
  Id <- CtId, Op <- CtOp, MaxGen <- CtMaxGen, MaxErrors <- CtMaxErrors, gen <- ctGen, lease <- ctLease,
  pidFile <- ctPidFile, pc <- ctPc, scan <- ctScan, cur <- ctCur

Restore == INSTANCE RestoreApply WITH
  MaxEdits <- RsMaxEdits, files <- rsFiles, locks <- rsLocks, edits <- rsEdits

Config == INSTANCE ConfigGenerations WITH
  MaxGen <- CfMaxGen, MaxEdits <- CfMaxEdits, disk <- cfDisk, pc <- cfPc, edits <- cfEdits

Upgrade == INSTANCE UpgradeHandoff WITH
  locks <- upLocks, files <- upFiles

Service == INSTANCE ServiceManagers WITH
  StartOnBoot <- TRUE, MaxOps <- 3, file <- smFile, active <- smActive

Stores == INSTANCE DurableStores WITH Contents <- Payloads

Memory == INSTANCE MemoryStores WITH
  Maintainers <- {maintainer}, MaxClock <- MmMaxClock, MaxCrashes <- MmMaxCrashes,
  clock <- mmClock, lock <- mmLock, file <- mmFile, crashes <- mmCrashes,
  now <- mmNow

Hardware == INSTANCE HardwareLifecycle WITH
  MaxEdits <- HwMaxEdits, MaxCrashes <- HwMaxCrashes, active <- hwActive, scan <- hwScan, edits <- hwEdits,
  crashes <- hwCrashes

Finder == INSTANCE Discovery WITH
  Ids <- CandidateIds,
  MaxClock <- DiMaxClock, MaxEdits <- DiMaxEdits, MaxCrashes <- DiMaxCrashes,
  disk <- diDisk, clock <- diClock, edits <- diEdits, crashes <- diCrashes

-----------------------------------------------------------------------------
eventsVars ==
  <<log, letters, task, summaries, wbus, wpc, wjob, sbus, spc, todo, evCur,
    at, evNow, evFailures, evCrashes>>
startupVars ==
  <<suLease, suLock, expired, genFile, suPidFile, stateFile, frames, child,
    suGen, launch, seen, stop, suFailures, suCrashes>>
controlVars ==
  <<ctGen, ctLease, live, status, ctPidFile, evidence, requests, responses,
    rejected, ctPc, ctScan, ctCur, token, client, executed, drained,
    errors>>
restoreVars ==
  <<rsFiles, before, plan, archive, rsLocks, txn, rb, cmd, rsEdits, runs>>
configVars == <<cfDisk, store, rt, loaded, watcher, cfPc, cfEdits, starts>>
upgradeVars == <<upLocks, upFiles, run, pointed, gated>>
serviceVars == <<kind, smFile, tomb, load, smActive, mode, op, last, ops>>
backendVars == <<backend, opener>>
artifactVars == <<artifact, putter>>
versionsVars == <<state, setter>>
auditVars == <<audit>>
indexVars == <<mmClock, mmLock, checkpoint, mmFile, left, actor, mmCrashes>>
scheduleVars == <<mmNow, schedule, anchor, job>>
driversVars == <<registry, hwActive, told>>
hotplugVars ==
  <<manifest, stored, events, hwScan, hwEdits, hwCrashes, excused>>
discoveryVars == <<world, diDisk, cache, build, diClock, diEdits, diCrashes>>

all ==
  <<part, vars, eventsVars, startupVars, controlVars, restoreVars,
    configVars, upgradeVars, serviceVars, backendVars, artifactVars,
    versionsVars, auditVars, indexVars, scheduleVars, driversVars,
    hotplugVars, discoveryVars>>

SystemInit ==
  /\ part \in Parts
  /\ Init
  /\ Events!Init
  /\ Startup!Init
  /\ Control!Init
  /\ Restore!Init
  /\ part # "restore" => rsFiles = [path \in Paths |-> "none"] /\ archive = {}
       /\ plan = <<[op |-> "copy", path |-> p]>>
  /\ Config!Init
  /\ part # "config" => cfDisk = CHOOSE c \in Configs : TRUE
  /\ Upgrade!Init
  /\ Service!Init
  /\ part # "service" => kind = "fake" /\ mode = "off" /\ smFile = "none"
  /\ Stores!BackendInit
  /\ Stores!ArtifactInit
  /\ Stores!StateInit
  /\ Stores!AuditInit
  /\ Memory!IndexInit
  /\ Memory!ScheduleInit
  /\ Hardware!DriverInit
  /\ part # "drivers" => \A d \in Devices : registry[d].registered
  /\ Hardware!HotplugInit
  /\ part # "hotplug" => manifest = [d \in Devices |-> "absent"]
  /\ Finder!DiscoveryInit
  /\ part # "discovery" => world = [s \in Finder!SourceSet |-> {}]

\* The client that asks for the shutdown sends once; an event redrive meets a
\* failure or a crash; a stop meets a child's I/O error when one daemon starts.
Bounded ==
  /\ \A c \in Clients : CtOp[c] = "shutdown" => client[c].n <= 1
  /\ evFailures + evCrashes <= 1
  /\ suFailures = 0 \/ stop = "off" \/ \E l \in Launchers : launch[l] = "start"

\* The operations of the store concern one task each: one is stored at a time.
OneTask == \E t \in Tasks : \A u \in Tasks \ {t} : rec[u] = None

Step ==
  \/ part = "tasks" /\ Next /\ OneTask'
  \/ part = "events" /\ Events!Next
  \/ part = "startup" /\ Startup!Next
  \/ part = "control" /\ Control!Next
  \/ part = "restore" /\ Restore!Next
  \/ part = "config" /\ Config!Next
  \/ part = "upgrade" /\ Upgrade!Next
  \/ part = "service" /\ Service!Next
  \/ part = "backend" /\ Stores!BackendNext
  \/ part = "artifact" /\ Stores!ArtifactNext
  \/ part = "versions" /\ Stores!StateNext
  \/ part = "audit" /\ Stores!AuditNext
  \/ part = "index" /\ Memory!IndexNext
  \/ part = "schedule" /\ Memory!ScheduleNext
  \/ part = "drivers" /\ Hardware!DriverNext
  \/ part = "hotplug" /\ Hardware!HotplugNext
  \/ part = "discovery" /\ Finder!DiscoveryNext

Idle ==
  /\ part # "tasks" => UNCHANGED vars
  /\ part # "events" => UNCHANGED eventsVars
  /\ part # "startup" => UNCHANGED startupVars
  /\ part # "control" => UNCHANGED controlVars
  /\ part # "restore" => UNCHANGED restoreVars
  /\ part # "config" => UNCHANGED configVars
  /\ part # "upgrade" => UNCHANGED upgradeVars
  /\ part # "service" => UNCHANGED serviceVars
  /\ part # "backend" => UNCHANGED backendVars
  /\ part # "artifact" => UNCHANGED artifactVars
  /\ part # "versions" => UNCHANGED versionsVars
  /\ part # "audit" => UNCHANGED auditVars
  /\ part # "index" => UNCHANGED indexVars
  /\ part # "schedule" => UNCHANGED scheduleVars
  /\ part # "drivers" => UNCHANGED driversVars
  /\ part # "hotplug" => UNCHANGED hotplugVars
  /\ part # "discovery" => UNCHANGED discoveryVars

SystemNext == Step /\ Idle /\ UNCHANGED part

SystemSpec == SystemInit /\ [][SystemNext]_all

-----------------------------------------------------------------------------
(* Properties of TaskLifecycle: RecordsValid, CancelBarsExecution,           *)
(* ClaimShape, CancelIsSticky and SettledStaysSettled.  Those of the other   *)
(* state machines:                                                           *)

\* A dead letter gets one replay for good and only bindings of that replay become
\* tasks; the replay is acknowledged only when all of them have completed; and
\* the evidence is written event first, letter second, summary last, wherever the
\* daemon stopped.  The event log only grows and an acknowledged record is final,
\* although two buses append to it from copies of their own.
EventsAreExact ==
  /\ [](part = "events" =>
          /\ Events!TypeOK /\ Events!ReplayedOnce
          /\ Events!AckedMeansDelivered /\ Events!EvidenceInOrder)
  /\ Events!LogKeepsHistory

\* A serving daemon's lease, lock, pid and state files are its own while other
\* launchers start, fail and clean up; a start that reports a complete cleanup
\* left no process and no record of its child.
StartsAreClean ==
  part = "startup" =>
    Startup!TypeOK /\ Startup!ServingIsUntouched /\ Startup!FailedStartLeavesNothing

\* A control request is executed at most once, a client that keeps its id takes
\* no answer but its own, and a released lease means that the drain was done,
\* over restarts, stale files and failing writes.
ControlIsExact ==
  part = "control" =>
    /\ Control!TypeOK /\ Control!ExecutedOnce /\ Control!AnswerIsOwn
    /\ Control!ReleasedMeansDrained

\* No file of a restore changes before its log says so, the reported status is
\* what is on disk, and content the plan does not know is never overwritten.
RestoreIsHonest ==
  /\ [](part = "restore" =>
          Restore!TypeOK /\ Restore!MutationIsLogged /\ Restore!StatusIsTrue)
  /\ Restore!ForeignKept

\* The configuration served is the one the manifest calls active and its number
\* never goes back, wherever a promotion was cut off.
ConfigIsServed ==
  /\ [](part = "config" => Config!TypeOK /\ Config!ServedIsDurable)
  /\ Config!ActiveNeverRewinds

\* An upgrade plan moves the pointer at most once and only behind its gates,
\* and its records follow the pointer.
UpgradeIsGated ==
  part = "upgrade" =>
    /\ Upgrade!PlanPointsOnce /\ Upgrade!RecordsFollowPointer
    /\ Upgrade!PointerNeedsGates

\* What a service manager reports as done is true of the platform, a failed
\* install is undone, a failed uninstall keeps the definition unless the service
\* is gone altogether, and a definition of somebody else is never touched.
ServiceIsTrue ==
  /\ [](part = "service" =>
          /\ Service!TypeOK /\ Service!SuccessIsTrue
          /\ Service!DefinitionNeverLost /\ Service!FailedInstallUndone)
  /\ Service!ForeignKept

\* A backend with a manifest has its directories, an artifact that is read is one
\* that was put, versioned writes form a chain of generations, an audit record
\* never replaces another, and a discovery generation that passed its preflight
\* holds what its own scan saw, not what the cache kept.
StoresAreWhole ==
  /\ part = "backend" => Stores!ManifestMeansLayout
  /\ part = "artifact" => Stores!ReadsAreWhole
  /\ part = "versions" => Stores!SetsFormAChain
  /\ part = "audit" => Stores!AuditNeverOverwrites
  /\ part = "discovery" => Finder!TypeOK /\ Finder!AcceptedIsScanned

\* Of the callers of a maintenance schedule one has a live claim, and a memory
\* record is missing only if it has expired, is being replaced by its next
\* version, or lost that replacement to an interruption before the rename.
MemoryIsKept ==
  [](part = "schedule" => Memory!OneLiveClaim) /\ Memory!KeptUntilExpired

\* A device's lease is a driver's open session, and the hotplug events published
\* explain the stored state of every device.
DevicesFollowSessions ==
  /\ part = "drivers" => Hardware!LeaseIsSession
  /\ part = "hotplug" => Hardware!EventsExplainState

\* The planning document's acceptance of W6-L06, "restart pointer never drifts":
\* the runtime's generation is the manifest's active generation.
PointerNeverDrifts == Config!PointerNeverDrifts

=============================================================================
