CONSTANTS
  None = None
  pay = pay
  replay = replay
  refund = refund
  safe = safe
  ghost = ghost
  k1 = k1
  k2 = k2
  r1 = r1
  r2 = r2
  Owner = w
  Tasks = {pay, replay, refund, safe, ghost}
  Known = {pay, replay, refund, safe}
  Effectful = {pay, replay, refund}
  Keys = {k1, k2}
  Env <- EffectEnv
  KeyOf <- EffectKey
  OpOf <- EffectOp
  Origin <- EffectOrigin
  Results = {r1, r2}
  MaxTime = 1
  MaxGen = 2
SPECIFICATION Spec
CONSTRAINTS OneCast OwnResult
INVARIANT LettersAreExact
PROPERTIES LifecycleSpec EffectOnceSpec RecoverySettlesEffects
CHECK_DEADLOCK FALSE
