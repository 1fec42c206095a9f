----------------------------- MODULE MCTaskWorker -----------------------------
(* Small instances of TaskWorker.                                            *)
(*   effects: a non-idempotent task and the replay delivery of its failure,  *)
(*            both on one key; or two operations that reuse one key; or a    *)
(*            safe task; or a task without a registered handler.             *)
(*   drain:   a safe task with a deadline and a non-idempotent one.          *)
EXTENDS TaskWorker, TLC

CONSTANTS pay, replay, refund, safe, ghost, k1, k2, r1, r2

Env2(max, timeout, backoff, isReplay) ==
  [max |-> max, timeout |-> timeout, backoff |-> backoff, replay |-> isReplay]

EffectEnv ==
  (pay :> Env2(1, 1, 0, FALSE)) @@ (replay :> Env2(2, None, 0, TRUE)) @@
  (refund :> Env2(1, None, 0, FALSE)) @@
  (safe :> Env2(2, 1, 0, FALSE)) @@ (ghost :> Env2(1, None, 0, FALSE))
EffectKey == [t \in Tasks |-> IF t = ghost THEN k2 ELSE k1]
EffectOp ==
  (pay :> "charge") @@ (replay :> "charge") @@ (refund :> "refund") @@
  (safe :> "read") @@ (ghost :> "unknown")
EffectOrigin == [t \in Tasks |-> IF t = replay THEN pay ELSE None]

\* Only tasks that have something to do with each other are stored.  The second
\* process is not drained, and the daemon is not drained nor does time pass over
\* the clashing pair.
OneCast ==
  LET stored == {t \in Tasks : rec[t] # None}
      draining == phase = "serving" /\ ~gate
  IN  /\ \/ stored \subseteq {pay, replay}
         \/ stored \subseteq {pay, refund} /\ now = 0 /\ ~draining
         \/ stored = {safe} \/ stored = {ghost}
      /\ gen > 1 => ~draining

\* Every operation has a result of its own when its handler returns.
OwnResult ==
  (wk.out # None /\ (wk.pc = "returned" \/ wk.task = safe)) =>
     wk.out.result \in {None, IF wk.task = refund THEN r2 ELSE r1}

DrainEnv == (safe :> Env2(2, 1, 0, FALSE)) @@ (pay :> Env2(2, None, 0, FALSE))
DrainKey == (safe :> k2) @@ (pay :> k1)
DrainOp  == (safe :> "read") @@ (pay :> "charge")
DrainOrigin == (safe :> None) @@ (pay :> None)
=============================================================================
