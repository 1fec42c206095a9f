CONSTANTS
  None = None
  task = task
  replay = replay
  w1 = w1
  w2 = w2
  hb = hb
  ctl = ctl
  Tasks = {task, replay}
  Env <- StoreEnv
  Owners = {w1, w2}
  Threads = {w1, w2, hb, ctl}
  Results = {r1}
  Reasons = {operator}
  MaxTime = 2
  MaxGen = 2
  MaxVersion = 6
SPECIFICATION CastSpec
SYMMETRY Symmetry
INVARIANTS OnlyConflictsRefuse ClaimsAreExact
PROPERTIES LifecycleSpec LatestNeverRewinds
CHECK_DEADLOCK FALSE
