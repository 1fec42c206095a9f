CONSTANTS
  None = None
  operatorTask = operatorTask
  replayTask = replayTask
  p = p
  Tasks <- MCTasks
  Env <- MCEnv
  Owners = {w1}
  Results = {r1, r2}
  Reasons = {operator, shutdown}
  MaxTime = 2
  MaxGen = 3
  Parts = {"tasks", "events", "startup", "control", "restore", "config", "upgrade",
           "service", "backend", "artifact", "versions", "audit", "index", "schedule",
           "drivers", "hotplug", "discovery"}
  FailureEvents = {"e1", "e2"}
  EvPlan <- MCPlan
  EvDelay <- MCDelay
  EvRoutable = {"e1"}
  EvMaxTime = 1
  EvMaxCount = 2
  EvMaxFailures = 1
  EvMaxCrashes = 1
  Launchers = {l1, l2}
  SuMaxFailures = 1
  SuMaxCrashes = 0
  Clients = {"c1", "c2"}
  CtId <- MCId
  CtOp <- MCOp
  MaxSends = 2
  CtMaxGen = 2
  CtMaxErrors = 1
  Paths = {p, q}
  MaxSteps = 2
  RsMaxEdits = 1
  MaxRuns = 2
  Operators = {"o1", "o2"}
  PlanIds = {"p1", "p2"}
  Configs = {"old", "new", "newer"}
  Broken = {"broken"}
  CfMaxGen = 4
  CfMaxEdits = 3
  MaxStarts = 3
  Actors = {"a", "b"}
  Payloads = {"x", "y"}
  MaxWrites = 2
  Devices = {"a", "b"}
  Requests = {"r", "s"}
  HwMaxEdits = 2
  HwMaxCrashes = 1
  Sources <- MCSources
  CandidateIds = {"i"}
  Rank <- SourceRank
  Ttl = 2
  DiMaxClock = 2
  DiMaxEdits = 1
  DiMaxCrashes = 1
  Writers = {"w"}
  maintainer = "m"
  StaleAfter = 1
  Callers = {"c1", "c2", "c3"}
  OwnerOf <- MemoryOwner
  MmMaxClock = 2
  MmMaxCrashes = 1
  MaxVersion = 2
  MaxGeneration = 6
SPECIFICATION SystemSpec
SYMMETRY Alike
CONSTRAINT Bounded
INVARIANTS
  RecordsValid CancelBarsExecution ClaimShape StartsAreClean ControlIsExact
  UpgradeIsGated StoresAreWhole DevicesFollowSessions
PROPERTIES
  CancelIsSticky SettledStaysSettled EventsAreExact RestoreIsHonest ConfigIsServed
  ServiceIsTrue 
CHECK_DEADLOCK FALSE
