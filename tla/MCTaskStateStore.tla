-------------------------- MODULE MCTaskStateStore --------------------------
(* A small instance of TaskStateStore with two casts.  Two workers and the  *)
(* control thread race on an operator task; or a worker, its heartbeat      *)
(* thread and the control thread, two at a time, share a replay delivery    *)
(* that retries with a persisted backoff.  A behaviour follows one cast:    *)
(* the tasks do not interact but through the alias, and the store never     *)
(* looks at two of them.  The workers are interchangeable.                  *)
EXTENDS TaskStateStore, TLC

CONSTANTS task, replay, w1, w2, hb, ctl

StoreEnv ==
  (task   :> [max |-> 2, timeout |-> 1, backoff |-> 0, replay |-> FALSE]) @@
  (replay :> [max |-> 2, timeout |-> None, backoff |-> 1, replay |-> TRUE])

\* The tasks some file or transaction is about, and the threads at work.
Touched == {t \in Tasks : file[t] # None} \cup
           {t \in Tasks : \E c \in Threads : txn[c] # None /\ txn[c].task = t}
Busy == {c \in Threads : txn[c] # None}

\* The workers that are at work, hold a claim or are named in the record.
Employed ==
  {w \in Owners : w \in Busy \/ held[w] # None \/
                  \E t \in Tasks : file[t] # None /\ file[t].snap.owner = w}

Cast ==
  \/ Touched \subseteq {task} /\ hb \notin Busy /\ (Touched # {} => now <= 1)
  \/ Touched \subseteq {replay} /\ Cardinality(Employed) <= 1 /\ Cardinality(Busy) <= 2

CastNext == Next /\ Cast'

CastSpec == Init /\ [][CastNext]_vars

Symmetry == Permutations({w1, w2})
=============================================================================
