CONSTANTS
  None = None
  task = task
  replay = replay
  w1 = w1
  w2 = w2
  hb = hb
  ctl = ctl
  Tasks = {task, replay}
  Env <- StoreEnv
  Owners = {w1, w2}
  Threads = {w1, w2, hb, ctl}
  Results = {r1}
  Reasons = {operator}
  MaxTime = 1
  MaxGen = 2
  MaxVersion = 5
SPECIFICATION CastSpec
SYMMETRY Symmetry
INVARIANT ActiveHasHolder
CHECK_DEADLOCK FALSE
