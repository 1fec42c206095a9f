------------------------------ MODULE EffectOnce ------------------------------
(***************************************************************************)
(* What the effect ledger promises to whoever submits a non-idempotent     *)
(* task: an idempotency key belongs to one operation, that operation is    *)
(* started at most once, its result is learnt at most once, and a task is  *)
(* reported completed only with the result of its own operation.           *)
(***************************************************************************)
CONSTANTS Keys, Effects, KeyOf, OpOf, Results, Nothing

VARIABLES
  effect,     \* progress of the operation behind each key
  bound,      \* the operation the key belongs to
  value,      \* its learnt result
  reported    \* the result each effectful task was completed with

vars == <<effect, bound, value, reported>>

Init ==
  /\ effect = [k \in Keys |-> "absent"]
  /\ bound = [k \in Keys |-> Nothing]
  /\ value = [k \in Keys |-> Nothing]
  /\ reported = [t \in Effects |-> Nothing]

\* The intent is durable before the operation starts.
Reserve(t) ==
  /\ effect[KeyOf[t]] = "absent"
  /\ effect' = [effect EXCEPT ![KeyOf[t]] = "reserved"]
  /\ bound' = [bound EXCEPT ![KeyOf[t]] = OpOf[t]]
  /\ UNCHANGED <<value, reported>>

Start(k) ==
  /\ effect[k] = "reserved" /\ effect' = [effect EXCEPT ![k] = "started"]
  /\ UNCHANGED <<bound, value, reported>>

Learn(k, r) ==
  /\ effect[k] = "started"
  /\ effect' = [effect EXCEPT ![k] = "known"]
  /\ value' = [value EXCEPT ![k] = r]
  /\ UNCHANGED <<bound, reported>>

Report(t) ==
  /\ effect[KeyOf[t]] = "known" /\ bound[KeyOf[t]] = OpOf[t] /\ reported[t] = Nothing
  /\ reported' = [reported EXCEPT ![t] = value[KeyOf[t]]]
  /\ UNCHANGED <<effect, bound, value>>

Next ==
  \/ \E k \in Keys : Start(k) \/ \E r \in Results : Learn(k, r)
  \/ \E t \in Effects : Reserve(t) \/ Report(t)

Spec == Init /\ [][Next]_vars
=============================================================================
