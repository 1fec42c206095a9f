CONSTANTS
  None = None
  pay = pay
  replay = replay
  refund = refund
  safe = safe
  ghost = ghost
  k1 = k1
  k2 = k2
  r1 = r1
  r2 = r2
  Owner = w
  Tasks = {pay, safe}
  Known = {pay, safe}
  Effectful = {pay}
  Keys = {k1, k2}
  Env <- DrainEnv
  KeyOf <- DrainKey
  OpOf <- DrainOp
  Origin <- DrainOrigin
  Results = {r1}
  MaxTime = 1
  MaxGen = 1
SPECIFICATION FairSpec
INVARIANTS CancelReachesAttempt StoppedIsSettled
PROPERTIES DrainTerminates
CHECK_DEADLOCK FALSE
