---------------------------- MODULE RecoveryProofs ---------------------------
(***************************************************************************)
(* Proofs about what MCSystem does again after a failure: the destructive  *)
(* restore, for every tree, plan and pre-restore archive and any number of *)
(* commands, and the redrive of dead letters, for every set of failure     *)
(* events.  The invariant of the restore says how far the step in hand has *)
(* got: what the log already names, which steps have had their effects, and*)
(* which paths a rollback still has a candidate for.  That of the redrive  *)
(* says what the copies of a bus may miss: the scheduler's own never misses*)
(* a replay, so that the one it publishes is the first.                    *)
(***************************************************************************)
EXTENDS MCSystem, WellFoundedInduction, TLAPS

\* A bounded set of naturals has a largest element: the newest candidate.
LEMMA NewestExists ==
  ASSUME NEW S, NEW k \in Nat, S \subseteq 0..k, S # {}
  PROVE  \E n \in S : \A m \in S : m <= n
<1> DEFINE R == OpToRel(<, Nat)
           T == {k - n : n \in S}
<1>1. IsWellFoundedOn(R, Nat)
  BY NatLessThanWellFounded
<1>2. T \subseteq Nat /\ T # {}
  <2>1. \A n \in S : k - n \in Nat
    OBVIOUS
  <2>2. PICK n \in S : TRUE
    OBVIOUS
  <2>3. k - n \in T
    OBVIOUS
  <2> QED BY <2>1, <2>3
<1>3. PICK x \in T : \A y \in T : ~(<<y, x>> \in R)
  <2> HIDE DEF R, T
  <2> QED BY <1>1, <1>2, WFMin
<1>4. \A y \in T : ~(y < x)
  BY <1>2, <1>3 DEF OpToRel
<1>5. PICK n \in S : x = k - n
  OBVIOUS
<1>6. ASSUME NEW m \in S PROVE m <= n
  <2>1. ~(k - m < k - n)
    BY <1>4, <1>5
  <2> QED BY <2>1
<1> QED BY <1>6

Marks == {"started", "committed", "failed"}
LogEntries == [seq : 1..Len(plan), status : Marks]
Phases == {"open", "start", "mutate", "removed", "committed", "failed", "stopped"}
Commands == [kind : {"apply", "rollback"}, phase : Phases, at : Nat, executed : BOOLEAN]
Logs(S) == [entries : Seq(S), status : {"absent", "open", "applied", "rollback_required", "rolled_back", "rollback_failed"},
            executed : BOOLEAN]

RestoreTyped ==
  /\ rsFiles \in [Paths -> Restore!Contents] /\ before \in [Paths -> Restore!Contents]
  /\ plan \in Seq(Restore!Step) /\ archive \subseteq Paths /\ rsLocks \subseteq {"apply", "rollback"}
  /\ txn \in Logs(LogEntries) /\ rb \in Logs([seq : Nat, status : Marks])
  /\ cmd \in Commands \cup {Restore!NoCmd}
  /\ rsEdits \in 0..RsMaxEdits /\ runs \in 0..MaxRuns

PathOf(i) == plan[txn.entries[i].seq].path

\* One apply and one rollback: what is on disk of their logs.
LogsFollow ==
  /\ "apply" \notin rsLocks => txn = Restore!NoLog
  /\ txn.status \in {"absent", "open", "applied", "rollback_required"}
  /\ rb.status \in {"absent", "open", "rolled_back", "rollback_failed"}
  /\ rb.status # "absent" => txn.status = "rollback_required" /\ "rollback" \in rsLocks
  /\ cmd.kind = "apply" =>
       /\ "apply" \in rsLocks /\ cmd.at \in 1..(Len(plan) + 1)
       /\ cmd.phase \in {"mutate", "removed", "committed", "failed", "stopped"} => cmd.at =< Len(plan)
       /\ IF cmd.phase = "open" THEN txn = Restore!NoLog /\ cmd.at = 1 ELSE txn.status = "open"
  /\ cmd.kind = "rollback" =>
       /\ rb.status = "open" /\ cmd.at \in 1..(Len(txn.entries) + 1)
       /\ cmd.phase \in {"start", "mutate", "committed", "failed", "stopped"}
       /\ cmd.phase = "mutate" => cmd.at \in Restore!Candidates
  /\ cmd.kind = "rollback" \/ rb.status # "open" \/ cmd = Restore!NoCmd

\* The step in hand is announced.
Announced ==
  cmd.kind = "apply" /\ cmd.phase \in {"mutate", "removed"} =>
    \E i \in DOMAIN txn.entries : txn.entries[i].seq = cmd.at

\* The first k steps have had their effects, on paths outside X.
Result(i) == IF plan[i].op = "delete" THEN "none" ELSE "new"
DoneTo(k, X) ==
  \A i \in 1..k : plan[i].path \notin X /\ (\A j \in 1..k : j > i => plan[j].path # plan[i].path) =>
    rsFiles[plan[i].path] = Result(i)

EffectsSoFar ==
  /\ cmd.kind = "apply" =>
       /\ cmd.phase \in {"start", "mutate"} => DoneTo(cmd.at - 1, {})
       /\ cmd.phase = "committed" => DoneTo(cmd.at, {})
       /\ cmd.phase = "removed" => DoneTo(cmd.at - 1, {plan[cmd.at].path}) /\ rsFiles[plan[cmd.at].path] = "none"
                                   /\ plan[cmd.at].op = "replace"
  /\ txn.status = "applied" /\ rsEdits = 0 => DoneTo(Len(plan), {})

\* Undoing the copy that was the first step of its path empties the path.
Committed(i) == txn.entries[i].status = "committed"
FirstOnPath(i, x) == \A j \in DOMAIN txn.entries : j < i /\ Committed(j) => PathOf(j) # x
CopiesWereFirst ==
  \A i \in DOMAIN txn.entries :
    Committed(i) /\ plan[txn.entries[i].seq].op = "copy" /\ FirstOnPath(i, PathOf(i)) => before[PathOf(i)] = "none"

\* What the restore changed it can name.
CommittedOn(x) == \E i \in DOMAIN txn.entries : Committed(i) /\ PathOf(i) = x
FailedOn(x) == \E i \in DOMAIN txn.entries : /\ txn.entries[i].status = "failed" /\ PathOf(i) = x
                                             /\ plan[txn.entries[i].seq].op = "replace"
Traced ==
  cmd.kind = "apply" /\ cmd.phase # "open" =>
    /\ \A x \in Paths : rsFiles[x] # before[x] =>
         \/ CommittedOn(x)
         \/ cmd.phase \in {"removed", "committed"} /\ plan[cmd.at].path = x
         \/ cmd.phase = "failed" /\ cmd.executed /\ plan[cmd.at].op = "replace" /\ plan[cmd.at].path = x
         \/ cmd.phase = "stopped" /\ cmd.executed /\ FailedOn(x)
    /\ cmd.phase = "committed" /\ plan[cmd.at].op = "copy" /\ ~CommittedOn(plan[cmd.at].path) =>
         before[plan[cmd.at].path] = "none"
TracedAfter ==
  txn.status = "rollback_required" /\ rb.status = "absent" /\ rsEdits = 0 =>
    \A x \in Paths : rsFiles[x] # before[x] => \E i \in Restore!Candidates : PathOf(i) = x

\* A path is back, or a candidate for it is left.
Back(x) == rsFiles[x] = before[x] \/ (rsFiles[x] = "old" /\ x \in archive)
BackSoFar ==
  rsEdits = 0 =>
    /\ cmd.kind = "rollback" /\ cmd.phase \in {"start", "committed"} =>
         \A x \in Paths : Back(x) \/ \E i \in Restore!Remaining : PathOf(i) = x
    /\ cmd.kind = "rollback" /\ cmd.phase = "mutate" =>
         \A x \in Paths : Back(x) \/ PathOf(cmd.at) = x \/ \E i \in Restore!Remaining : PathOf(i) = x
    /\ rb.status = "rolled_back" => \A x \in Paths : Back(x)

RestoreInv ==
  /\ RestoreTyped /\ LogsFollow /\ Announced /\ EffectsSoFar /\ CopiesWereFirst /\ Traced /\ TracedAfter /\ BackSoFar
  /\ Restore!MutationIsLogged

LEMMA CmdFacts ==
  ASSUME RestoreTyped
  PROVE  /\ cmd = Restore!NoCmd \/ cmd \in Commands
         /\ cmd \in Commands => /\ cmd.kind \in {"apply", "rollback"} /\ cmd.phase \in Phases /\ cmd.at \in Nat
                                /\ cmd.executed \in BOOLEAN /\ cmd # Restore!NoCmd
         /\ Restore!NoCmd.kind = "none" /\ Restore!NoCmd.phase = "idle" /\ Restore!NoCmd.at = 1
BY DEF RestoreTyped, Commands, Restore!NoCmd

LEMMA CmdPhase ==
  ASSUME NEW c \in Commands, NEW ph \in Phases, NEW d, d = [c EXCEPT !.phase = ph]
  PROVE  d \in Commands /\ d.kind = c.kind /\ d.phase = ph /\ d.at = c.at /\ d.executed = c.executed
BY DEF Commands

LEMMA CmdExecuted ==
  ASSUME NEW c \in Commands, NEW ph \in Phases, NEW d, d = [c EXCEPT !.phase = ph, !.executed = TRUE]
  PROVE  d \in Commands /\ d.kind = c.kind /\ d.phase = ph /\ d.at = c.at /\ d.executed
<1>1. PICK m \in Commands : m = [c EXCEPT !.phase = ph]
  BY CmdPhase
<1>2. m.kind = c.kind /\ m.phase = ph /\ m.at = c.at
  BY <1>1, CmdPhase
<1>3. d = [m EXCEPT !.executed = TRUE]
  BY <1>1
<1> QED BY <1>2, <1>3 DEF Commands

LEMMA LogAppends ==
  ASSUME NEW S, NEW l \in Logs(S), NEW e \in S, NEW m, m = [l EXCEPT !.entries = Append(@, e)]
  PROVE  /\ m \in Logs(S) /\ m.status = l.status /\ m.executed = l.executed
         /\ Len(m.entries) = Len(l.entries) + 1 /\ Len(l.entries) \in Nat
         /\ DOMAIN l.entries = 1..Len(l.entries) /\ DOMAIN m.entries = 1..(Len(l.entries) + 1)
         /\ m.entries[Len(l.entries) + 1] = e
         /\ \A i \in 1..Len(l.entries) : m.entries[i] = l.entries[i]
<1>1. l.entries \in Seq(S) /\ m.entries = Append(l.entries, e)
  BY DEF Logs
<1>2. m \in Logs(S) /\ m.status = l.status /\ m.executed = l.executed
  BY <1>1 DEF Logs
<1> QED BY <1>1, <1>2

LEMMA EmptyLog ==
  ASSUME NEW o, o = [Restore!NoLog EXCEPT !.status = "open"]
  PROVE  /\ Restore!NoLog.entries = << >> /\ Restore!NoLog.status = "absent"
         /\ o.entries = << >> /\ o.status = "open"
         /\ \A S : Restore!NoLog \in Logs(S) /\ o \in Logs(S)
<1>1. FALSE \in BOOLEAN
  BY Zenon
<1>2. \A S : << >> \in Seq(S)
  OBVIOUS
<1>3. PICK l : l = Restore!NoLog
  OBVIOUS
<1>4. l.entries = << >> /\ l.status = "absent"
  BY <1>3 DEF Restore!NoLog
<1>5. ASSUME NEW S PROVE l \in Logs(S)
  BY <1>1, <1>2, <1>3 DEF Restore!NoLog, Logs
<1>6. ASSUME NEW S PROVE o \in Logs(S) /\ o.entries = << >> /\ o.status = "open"
  <2>1. l \in Logs(S) /\ o = [l EXCEPT !.status = "open"]
    BY <1>3, <1>5
  <2> QED BY <1>4, <2>1 DEF Logs
<1> QED BY <1>3, <1>4, <1>5, <1>6

\* What is fixed while a plan is carried out, and where the log's entries point.
LEMMA PlanFacts ==
  ASSUME RestoreTyped
  PROVE  /\ Len(plan) \in Nat /\ DOMAIN plan = 1..Len(plan)
         /\ \A i \in 1..Len(plan) : plan[i].path \in Paths /\ plan[i].op \in {"copy", "delete", "replace"}
         /\ Len(txn.entries) \in Nat /\ DOMAIN txn.entries = 1..Len(txn.entries)
         /\ \A i \in DOMAIN txn.entries : /\ txn.entries[i].seq \in 1..Len(plan) /\ txn.entries[i].status \in Marks
                                          /\ PathOf(i) \in Paths
<1>1. Len(plan) \in Nat /\ DOMAIN plan = 1..Len(plan) /\ \A i \in 1..Len(plan) : plan[i] \in Restore!Step
  BY DEF RestoreTyped
<1>2. txn.entries \in Seq(LogEntries)
  BY DEF RestoreTyped, Logs
<1>3. Len(txn.entries) \in Nat /\ DOMAIN txn.entries = 1..Len(txn.entries)
      /\ \A i \in DOMAIN txn.entries : txn.entries[i] \in LogEntries
  BY <1>2
<1>4. \A i \in 1..Len(plan) : plan[i].path \in Paths /\ plan[i].op \in {"copy", "delete", "replace"}
  BY <1>1 DEF Restore!Step
<1>5. \A i \in DOMAIN txn.entries : txn.entries[i].seq \in 1..Len(plan) /\ txn.entries[i].status \in Marks
  BY <1>3 DEF LogEntries
<1> QED BY <1>1, <1>3, <1>4, <1>5 DEF PathOf

LEMMA RestoreStarts == Restore!Init => RestoreInv
<1> SUFFICES ASSUME Restore!Init PROVE RestoreInv
  OBVIOUS
<1>1. plan \in Seq(Restore!Step)
  <2>1. PICK n \in 1..MaxSteps : plan \in [1..n -> Restore!Step]
    BY DEF Restore!Init
  <2> QED BY <2>1, RestoreAssumption
<1>2. txn = Restore!NoLog /\ rb = Restore!NoLog /\ cmd = Restore!NoCmd /\ rsFiles = before
  BY DEF Restore!Init
<1>3. RestoreTyped
  <2>1. txn \in Logs(LogEntries) /\ rb \in Logs([seq : Nat, status : Marks])
    BY <1>2, EmptyLog
  <2>2. rsEdits \in 0..RsMaxEdits /\ runs \in 0..MaxRuns
    BY RestoreAssumption DEF Restore!Init
  <2>3. rsFiles \in [Paths -> Restore!Contents]
    BY DEF Restore!Init, Restore!Contents
  <2> QED BY <1>1, <1>2, <2>1, <2>2, <2>3 DEF RestoreTyped, Restore!Init
<1>4. txn.status = "absent" /\ rb.status = "absent" /\ txn.entries = << >> /\ cmd.kind = "none"
  BY <1>2, <1>3, EmptyLog, CmdFacts
<1>5. LogsFollow /\ Announced
  BY <1>2, <1>4 DEF LogsFollow, Announced
<1>6. EffectsSoFar /\ CopiesWereFirst /\ Traced /\ TracedAfter /\ BackSoFar
  BY <1>4 DEF EffectsSoFar, CopiesWereFirst, Traced, TracedAfter, BackSoFar
<1>7. Restore!MutationIsLogged
  BY <1>2 DEF Restore!MutationIsLogged
<1> QED BY <1>3, <1>5, <1>6, <1>7 DEF RestoreInv

\* What one more entry changes in the questions asked of a log.
LEMMA EntriesGrow ==
  ASSUME RestoreTyped, NEW e \in LogEntries, txn' = [txn EXCEPT !.entries = Append(@, e)], plan' = plan
  PROVE  /\ txn' \in Logs(LogEntries) /\ txn'.status = txn.status /\ txn'.executed = txn.executed
         /\ DOMAIN txn'.entries = 1..(Len(txn.entries) + 1) /\ txn'.entries[Len(txn.entries) + 1] = e
         /\ \A i \in DOMAIN txn.entries : i \in DOMAIN txn'.entries /\ txn'.entries[i] = txn.entries[i]
         /\ \A x : CommittedOn(x) => CommittedOn(x)'
         /\ \A x : CommittedOn(x)' => CommittedOn(x) \/ (e.status = "committed" /\ plan[e.seq].path = x)
<1>1. txn \in Logs(LogEntries)
  BY DEF RestoreTyped
<1>2. PICK m : m = txn'
  OBVIOUS
<1>3. /\ m \in Logs(LogEntries) /\ m.status = txn.status /\ m.executed = txn.executed
      /\ Len(m.entries) = Len(txn.entries) + 1 /\ Len(txn.entries) \in Nat
      /\ DOMAIN txn.entries = 1..Len(txn.entries) /\ DOMAIN m.entries = 1..(Len(txn.entries) + 1)
      /\ m.entries[Len(txn.entries) + 1] = e
      /\ \A i \in 1..Len(txn.entries) : m.entries[i] = txn.entries[i]
  BY <1>1, <1>2, LogAppends
<1>4. \A i \in DOMAIN txn.entries : i \in DOMAIN txn'.entries /\ txn'.entries[i] = txn.entries[i]
  BY <1>2, <1>3
<1>5. ASSUME NEW x, CommittedOn(x) PROVE CommittedOn(x)'
  BY <1>4, <1>5 DEF CommittedOn, Committed, PathOf
<1>6. ASSUME NEW x, CommittedOn(x)' PROVE CommittedOn(x) \/ (e.status = "committed" /\ plan[e.seq].path = x)
  <2>1. PICK i \in 1..(Len(txn.entries) + 1) : m.entries[i].status = "committed" /\ plan[m.entries[i].seq].path = x
    BY <1>2, <1>3, <1>6 DEF CommittedOn, Committed, PathOf
  <2>2. CASE i = Len(txn.entries) + 1
    BY <1>3, <2>1, <2>2
  <2>3. CASE i # Len(txn.entries) + 1
    <3>1. i \in DOMAIN txn.entries
      BY <1>3, <2>3
    <3> QED BY <1>2, <1>4, <2>1, <3>1 DEF CommittedOn, Committed, PathOf
  <2> QED BY <2>2, <2>3
<1> QED BY <1>2, <1>3, <1>4, <1>5, <1>6

LEMMA CopiesStayFirst ==
  ASSUME RestoreTyped, CopiesWereFirst, NEW e \in LogEntries, txn' = [txn EXCEPT !.entries = Append(@, e)],
         plan' = plan, before' = before,
         /\ e.status = "committed" /\ plan[e.seq].op = "copy" /\ ~CommittedOn(plan[e.seq].path)
            => before[plan[e.seq].path] = "none"
  PROVE  CopiesWereFirst'
<1>g. /\ DOMAIN txn'.entries = 1..(Len(txn.entries) + 1) /\ txn'.entries[Len(txn.entries) + 1] = e
      /\ \A i \in DOMAIN txn.entries : i \in DOMAIN txn'.entries /\ txn'.entries[i] = txn.entries[i]
  BY EntriesGrow
<1>p. Len(txn.entries) \in Nat /\ DOMAIN txn.entries = 1..Len(txn.entries)
  BY PlanFacts
<1> SUFFICES ASSUME NEW i \in DOMAIN txn'.entries, Committed(i)', plan[txn'.entries[i].seq].op = "copy",
                    FirstOnPath(i, PathOf(i))'
             PROVE  before[plan[txn'.entries[i].seq].path] = "none"
  BY DEF CopiesWereFirst, PathOf
<1>0. PICK m : m = txn'
  OBVIOUS
<1>f. \A j \in DOMAIN m.entries : j < i /\ m.entries[j].status = "committed" =>
        plan[m.entries[j].seq].path # plan[m.entries[i].seq].path
  BY <1>0 DEF FirstOnPath, Committed, PathOf
<1>1. CASE i = Len(txn.entries) + 1
  <2>1. m.entries[i] = e /\ e.status = "committed" /\ plan[e.seq].op = "copy"
    BY <1>0, <1>g, <1>1 DEF Committed
  <2>2. ASSUME CommittedOn(plan[e.seq].path) PROVE FALSE
    <3>1. PICK j \in DOMAIN txn.entries : Committed(j) /\ PathOf(j) = plan[e.seq].path
      BY <2>2 DEF CommittedOn
    <3>2. j < i /\ j \in DOMAIN m.entries /\ m.entries[j] = txn.entries[j]
      BY <1>0, <1>g, <1>p, <1>1
    <3> QED BY <1>f, <2>1, <3>1, <3>2 DEF Committed, PathOf
  <2> QED BY <1>0, <2>1, <2>2
<1>2. CASE i # Len(txn.entries) + 1
  <2>1. i \in DOMAIN txn.entries /\ m.entries[i] = txn.entries[i]
    BY <1>0, <1>g, <1>p, <1>2
  <2>2. Committed(i) /\ plan[txn.entries[i].seq].op = "copy"
    BY <1>0, <2>1 DEF Committed
  <2>3. FirstOnPath(i, PathOf(i))
    BY <1>0, <1>f, <1>g, <2>1 DEF FirstOnPath, Committed, PathOf
  <2> QED BY <1>0, <2>1, <2>2, <2>3 DEF CopiesWereFirst, PathOf
<1> QED BY <1>1, <1>2

ForeignStep == \A x \in Paths : rsFiles[x] = "other" => rsFiles'[x] = "other" \/ rsEdits' # rsEdits

LEMMA ApplyCommand ==
  ASSUME RestoreInv, NEW v, NEW h, Restore!create_restore_apply(v, h)
  PROVE  RestoreInv' /\ ForeignStep
<1>i. RestoreTyped /\ LogsFollow /\ EffectsSoFar /\ CopiesWereFirst /\ TracedAfter /\ BackSoFar /\ Restore!MutationIsLogged
  BY DEF RestoreInv
<1>1. /\ cmd = Restore!NoCmd /\ runs < MaxRuns /\ runs' = runs + 1
      /\ UNCHANGED <<rsFiles, before, plan, archive, txn, rb, rsEdits>>
  BY DEF Restore!create_restore_apply
<1>2. PICK c : c = [Restore!NoCmd EXCEPT !.kind = "apply", !.phase = "open"]
  OBVIOUS
<1>3. \/ UNCHANGED <<rsLocks, cmd>>
      \/ /\ "apply" \notin rsLocks /\ rsLocks' = rsLocks \cup {"apply"} /\ (cmd' = c \/ cmd' = cmd)
  BY <1>2 DEF Restore!create_restore_apply
<1>4. c \in Commands /\ c.kind = "apply" /\ c.phase = "open" /\ c.at = 1
  <2>1. FALSE \in BOOLEAN
    BY Zenon
  <2>2. c = [kind |-> "apply", phase |-> "open", at |-> 1, executed |-> FALSE]
    BY <1>2 DEF Restore!NoCmd
  <2> QED BY <2>1, <2>2 DEF Commands, Phases
<1>5. Restore!NoCmd.kind = "none"
  BY <1>i, CmdFacts
<1>6. RestoreTyped'
  <2>1. runs' \in 0..MaxRuns
    BY <1>i, <1>1, RestoreAssumption DEF RestoreTyped
  <2>2. rsLocks' \subseteq {"apply", "rollback"} /\ cmd' \in Commands \cup {Restore!NoCmd}
    BY <1>i, <1>1, <1>3, <1>4 DEF RestoreTyped
  <2> QED BY <1>i, <1>1, <2>1, <2>2 DEF RestoreTyped, LogEntries
<1>7. cmd'.kind # "rollback" /\ (cmd'.kind = "apply" => cmd' = c)
  BY <1>1, <1>3, <1>4, <1>5
<1>8. LogsFollow'
  <2>1. CASE UNCHANGED <<rsLocks, cmd>>
    BY <1>i, <1>1, <2>1 DEF LogsFollow, Restore!Candidates, Restore!Undone
  <2>2. CASE "apply" \notin rsLocks /\ rsLocks' = rsLocks \cup {"apply"} /\ (cmd' = c \/ cmd' = cmd)
    <3>1. txn = Restore!NoLog /\ txn.status = "absent" /\ rb.status = "absent"
      BY <1>i, <2>2, EmptyLog DEF LogsFollow
    <3>2. Len(plan) \in Nat
      BY <1>i, PlanFacts
    <3>3. c.at \in 1..(Len(plan) + 1)
      BY <1>4, <3>2
    <3> QED BY <1>1, <1>4, <1>7, <2>2, <3>1, <3>3 DEF LogsFollow
  <2> QED BY <1>3, <2>1, <2>2
<1>9. Announced' /\ Traced'
  BY <1>4, <1>7 DEF Announced, Traced
<1>10. EffectsSoFar'
  BY <1>i, <1>1, <1>4, <1>7 DEF EffectsSoFar, DoneTo, Result
<1>11. CopiesWereFirst'
  BY <1>i, <1>1 DEF CopiesWereFirst, Committed, FirstOnPath, PathOf
<1>12. TracedAfter'
  BY <1>i, <1>1 DEF TracedAfter, PathOf, Restore!Candidates, Restore!Undone
<1>13. BackSoFar'
  BY <1>i, <1>1, <1>7 DEF BackSoFar, Back
<1>14. Restore!MutationIsLogged' /\ ForeignStep
  BY <1>i, <1>1 DEF Restore!MutationIsLogged, ForeignStep
<1> QED BY <1>6, <1>8, <1>9, <1>10, <1>11, <1>12, <1>13, <1>14 DEF RestoreInv

\* What an apply at work may rely on.
LEMMA ApplyFacts ==
  ASSUME RestoreInv, cmd.kind = "apply"
  PROVE  /\ RestoreTyped /\ LogsFollow /\ Announced /\ EffectsSoFar /\ CopiesWereFirst /\ Traced
         /\ Restore!MutationIsLogged
         /\ cmd \in Commands /\ cmd # Restore!NoCmd /\ cmd.phase \in Phases /\ cmd.at \in Nat /\ cmd.at \in 1..(Len(plan) + 1)
         /\ cmd.executed \in BOOLEAN /\ "apply" \in rsLocks /\ rb.status = "absent"
         /\ cmd.phase # "open" => txn.status = "open"
         /\ cmd.phase \in {"mutate", "removed", "committed", "failed", "stopped"} =>
              cmd.at \in 1..Len(plan) /\ plan[cmd.at].path \in Paths
<1>1. RestoreTyped /\ LogsFollow /\ Announced /\ EffectsSoFar /\ CopiesWereFirst /\ Traced /\ Restore!MutationIsLogged
  BY DEF RestoreInv
<1>2. cmd \in Commands /\ cmd # Restore!NoCmd /\ cmd.phase \in Phases /\ cmd.at \in Nat /\ cmd.executed \in BOOLEAN
  BY <1>1, CmdFacts
<1>3. Restore!NoLog.status = "absent"
  BY EmptyLog
<1>4. /\ cmd.at \in 1..(Len(plan) + 1) /\ "apply" \in rsLocks /\ rb.status = "absent"
      /\ cmd.phase # "open" => txn.status = "open"
      /\ cmd.phase \in {"mutate", "removed", "committed", "failed", "stopped"} => cmd.at =< Len(plan)
  BY <1>1, <1>3 DEF LogsFollow
<1>5. Len(plan) \in Nat /\ \A i \in 1..Len(plan) : plan[i].path \in Paths
  BY <1>1, PlanFacts
<1>6. ASSUME cmd.at =< Len(plan) PROVE cmd.at \in 1..Len(plan)
  BY <1>4, <1>5, <1>6
<1> QED BY <1>1, <1>2, <1>4, <1>5, <1>6

\* While a log is open nothing is claimed of a rollback.
LEMMA OpenClaimsNothing ==
  ASSUME cmd'.kind = "apply", txn'.status = "open", rb'.status = "absent"
  PROVE  TracedAfter' /\ BackSoFar' /\ ~(txn'.status = "applied")
BY DEF TracedAfter, BackSoFar

LEMMA TransactionOpens ==
  ASSUME RestoreInv, Restore!OpenTransaction
  PROVE  RestoreInv' /\ ForeignStep
<1>1. /\ cmd.kind = "apply" /\ cmd.phase = "open" /\ txn' = [Restore!NoLog EXCEPT !.status = "open"]
      /\ before' = rsFiles /\ cmd' = [cmd EXCEPT !.phase = "start"]
      /\ UNCHANGED <<rsFiles, plan, archive, rsLocks, rb, rsEdits, runs>>
  BY DEF Restore!OpenTransaction
<1>f. /\ RestoreTyped /\ LogsFollow /\ cmd \in Commands /\ "apply" \in rsLocks /\ rb.status = "absent"
      /\ cmd.at \in 1..(Len(plan) + 1)
  BY <1>1, ApplyFacts
<1>2. cmd' \in Commands /\ cmd'.kind = "apply" /\ cmd'.phase = "start" /\ cmd'.at = cmd.at
  <2>1. "start" \in Phases
    BY DEF Phases
  <2> QED BY <1>1, <1>f, <2>1, CmdPhase
<1>3. txn'.entries = << >> /\ txn'.status = "open" /\ txn' \in Logs(LogEntries)
  BY <1>1, EmptyLog
<1>4. cmd.at = 1
  BY <1>1, <1>f DEF LogsFollow
<1>5. RestoreTyped'
  <2>1. LogEntries' = LogEntries
    BY <1>1 DEF LogEntries
  <2> QED BY <1>1, <1>2, <1>3, <1>f, <2>1 DEF RestoreTyped
<1>6. LogsFollow'
  BY <1>1, <1>2, <1>3, <1>f DEF LogsFollow
<1>7. Announced' /\ Traced' /\ Restore!MutationIsLogged' /\ ForeignStep
  BY <1>1, <1>2 DEF Announced, Traced, Restore!MutationIsLogged, ForeignStep
<1>8. EffectsSoFar'
  <2>1. cmd'.at - 1 = 0 /\ 1..0 = {}
    BY <1>2, <1>4
  <2>2. DoneTo(cmd.at - 1, {})'
    BY <2>1 DEF DoneTo
  <2> QED BY <1>2, <1>3, <2>2 DEF EffectsSoFar
<1>9. CopiesWereFirst'
  BY <1>3 DEF CopiesWereFirst
<1> QED BY <1>1, <1>2, <1>3, <1>f, <1>5, <1>6, <1>7, <1>8, <1>9, OpenClaimsNothing DEF RestoreInv

LEMMA StartIsLogged ==
  ASSUME RestoreInv, Restore!LogStarted
  PROVE  RestoreInv' /\ ForeignStep
<1> DEFINE e == Restore!Entry(cmd.at, "started")
<1>1. /\ cmd.kind = "apply" /\ cmd.phase = "start" /\ cmd.at =< Len(plan)
      /\ txn' = [txn EXCEPT !.entries = Append(@, e)] /\ cmd' = [cmd EXCEPT !.phase = "mutate"]
      /\ UNCHANGED <<rsFiles, before, plan, archive, rsLocks, rb, rsEdits, runs>>
  BY DEF Restore!LogStarted
<1>f. /\ RestoreTyped /\ LogsFollow /\ EffectsSoFar /\ CopiesWereFirst /\ Traced /\ Restore!MutationIsLogged
      /\ cmd \in Commands /\ "apply" \in rsLocks /\ rb.status = "absent"
      /\ cmd.at \in 1..(Len(plan) + 1) /\ txn.status = "open" /\ cmd.at \in Nat
  BY <1>1, ApplyFacts
<1>2. cmd' \in Commands /\ cmd'.kind = "apply" /\ cmd'.phase = "mutate" /\ cmd'.at = cmd.at
  <2>1. "mutate" \in Phases
    BY DEF Phases
  <2> QED BY <1>1, <1>f, <2>1, CmdPhase
<1>p. Len(plan) \in Nat /\ Len(txn.entries) \in Nat /\ DOMAIN txn.entries = 1..Len(txn.entries)
  BY <1>f, PlanFacts
<1>3. e \in LogEntries /\ e.seq = cmd.at /\ e.status = "started"
  BY <1>1, <1>f, <1>p DEF Restore!Entry, LogEntries, Marks
<1> HIDE DEF e
<1>g. /\ txn' \in Logs(LogEntries) /\ txn'.status = txn.status
      /\ DOMAIN txn'.entries = 1..(Len(txn.entries) + 1) /\ txn'.entries[Len(txn.entries) + 1] = e
      /\ \A i \in DOMAIN txn.entries : i \in DOMAIN txn'.entries /\ txn'.entries[i] = txn.entries[i]
      /\ \A x : CommittedOn(x) => CommittedOn(x)'
  BY <1>1, <1>f, <1>3, EntriesGrow
<1>5. RestoreTyped'
  <2>1. LogEntries' = LogEntries
    BY <1>1 DEF LogEntries
  <2> QED BY <1>1, <1>2, <1>g, <1>f, <2>1 DEF RestoreTyped
<1>6. LogsFollow'
  BY <1>1, <1>2, <1>g, <1>f DEF LogsFollow
<1>7. Announced'
  <2>1. Len(txn.entries) + 1 \in DOMAIN txn'.entries
    BY <1>g, <1>p
  <2> QED BY <1>2, <1>3, <1>g, <2>1 DEF Announced
<1>8. EffectsSoFar'
  BY <1>1, <1>2, <1>f, <1>g DEF EffectsSoFar, DoneTo, Result
<1>9. CopiesWereFirst'
  BY <1>1, <1>3, <1>f, CopiesStayFirst
<1>10. Traced'
  BY <1>1, <1>2, <1>f, <1>g DEF Traced
<1>11. Restore!MutationIsLogged'
  BY <1>1, <1>f, <1>g DEF Restore!MutationIsLogged
<1>12. ForeignStep
  BY <1>1 DEF ForeignStep
<1>13. TracedAfter' /\ BackSoFar'
  BY <1>1, <1>2, <1>f, <1>g, OpenClaimsNothing
<1> QED BY <1>5, <1>6, <1>7, <1>8, <1>9, <1>10, <1>11, <1>12, <1>13 DEF RestoreInv

\* A step in hand that changes its own path only: what the log and the file list
\* then say of the others.
LEMMA MutationKeeps ==
  ASSUME RestoreInv, cmd.kind = "apply", cmd.phase \in {"mutate", "removed"}, NEW c \in Restore!Contents,
         rsFiles' = [rsFiles EXCEPT ![plan[cmd.at].path] = c] \/ rsFiles' = rsFiles,
         cmd' \in Commands, cmd'.kind = "apply", cmd'.at = cmd.at,
         cmd'.phase \in {"removed", "committed", "failed"},
         UNCHANGED <<before, plan, archive, rsLocks, txn, rb, rsEdits, runs>>
  PROVE  /\ RestoreTyped' /\ LogsFollow' /\ Announced' /\ CopiesWereFirst' /\ TracedAfter' /\ BackSoFar'
         /\ Restore!MutationIsLogged'
         /\ txn'.status = "open" /\ \A x : CommittedOn(x)' <=> CommittedOn(x)
         /\ \A x \in Paths : x # plan[cmd.at].path => rsFiles'[x] = rsFiles[x]
<1>f. /\ RestoreTyped /\ LogsFollow /\ Announced /\ CopiesWereFirst /\ Restore!MutationIsLogged
      /\ cmd \in Commands /\ "apply" \in rsLocks /\ rb.status = "absent"
      /\ cmd.at \in 1..Len(plan) /\ txn.status = "open" /\ cmd.at \in Nat /\ plan[cmd.at].path \in Paths
  BY ApplyFacts
<1>p. Len(plan) \in Nat
  BY <1>f, PlanFacts
<1>1. rsFiles' \in [Paths -> Restore!Contents] /\ \A x \in Paths : x # plan[cmd.at].path => rsFiles'[x] = rsFiles[x]
  BY <1>f DEF RestoreTyped
<1>2. RestoreTyped'
  BY <1>1, <1>f DEF RestoreTyped, LogEntries
<1>3. cmd.at =< Len(plan) /\ cmd.at \in 1..(Len(plan) + 1)
  BY <1>f, <1>p
<1>4. LogsFollow'
  BY <1>3, <1>f DEF LogsFollow
<1>5. Announced'
  BY <1>f DEF Announced
<1>6. CopiesWereFirst' /\ \A x : CommittedOn(x)' <=> CommittedOn(x)
  BY <1>f DEF CopiesWereFirst, Committed, FirstOnPath, PathOf, CommittedOn
<1>7. TracedAfter' /\ BackSoFar'
  BY <1>f, OpenClaimsNothing
<1>8. Restore!MutationIsLogged'
  <2> SUFFICES ASSUME NEW x \in Paths, rsFiles'[x] # before[x], rsEdits = 0, rb.status = "absent"
               PROVE  \E i \in DOMAIN txn.entries : plan[txn.entries[i].seq].path = x
    BY DEF Restore!MutationIsLogged
  <2>1. CASE x = plan[cmd.at].path
    BY <1>f, <2>1 DEF Announced
  <2>2. CASE x # plan[cmd.at].path
    BY <1>1, <1>f, <2>2 DEF Restore!MutationIsLogged
  <2> QED BY <2>1, <2>2
<1> QED BY <1>1, <1>2, <1>4, <1>5, <1>6, <1>7, <1>8, <1>f

\* The step in hand joins the ones that had their effects.
LEMMA OneMoreDone ==
  ASSUME NEW k \in Nat, k \in 1..Len(plan), NEW X, X \subseteq {plan[k].path}, DoneTo(k - 1, X), plan' = plan,
         \A i \in 1..k : plan[i].path # plan[k].path => rsFiles'[plan[i].path] = rsFiles[plan[i].path],
         rsFiles'[plan[k].path] = Result(k)
  PROVE  DoneTo(k, {})'
<1> SUFFICES ASSUME NEW i \in 1..k, \A j \in 1..k : j > i => plan[j].path # plan[i].path
             PROVE  rsFiles'[plan[i].path] = Result(i)
  BY DEF DoneTo, Result
<1>1. CASE i = k
  BY <1>1
<1>2. CASE i # k
  <2>1. i \in 1..(k - 1) /\ k > i /\ k \in 1..k /\ \A j \in 1..(k - 1) : j \in 1..k
    BY <1>2
  <2>2. plan[i].path # plan[k].path /\ plan[i].path \notin X
    BY <2>1
  <2>3. rsFiles[plan[i].path] = Result(i)
    BY <2>1, <2>2 DEF DoneTo
  <2> QED BY <2>2, <2>3
<1> QED BY <1>1, <1>2

LEMMA StepMutates ==
  ASSUME RestoreInv, Restore!apply_restore_mutation_step
  PROVE  RestoreInv' /\ ForeignStep
<1> DEFINE s == plan[cmd.at]
<1>1. /\ cmd.kind = "apply" /\ cmd.phase = "mutate"
      /\ UNCHANGED <<before, plan, archive, rsLocks, txn, rb, rsEdits, runs>>
  BY DEF Restore!apply_restore_mutation_step
<1>f. /\ RestoreTyped /\ EffectsSoFar /\ Traced /\ cmd \in Commands
      /\ cmd.at \in 1..Len(plan) /\ cmd.at \in Nat /\ s.path \in Paths
  BY <1>1, ApplyFacts
<1>d. DoneTo(cmd.at - 1, {}) /\ \A x \in Paths : rsFiles[x] # before[x] => CommittedOn(x)
  BY <1>1, <1>f DEF EffectsSoFar, Traced
<1>p. Len(plan) \in Nat /\ (\A i \in 1..Len(plan) : plan[i].path \in Paths) /\ rsFiles \in [Paths -> Restore!Contents]
  BY <1>f, PlanFacts DEF RestoreTyped
<1>r. Phases = {"open", "start", "mutate", "removed", "committed", "failed", "stopped"}
      /\ {"none", "new"} \subseteq Restore!Contents
  BY DEF Phases, Restore!Contents
<1>2. CASE /\ Restore!StepAllowed(s) /\ rsFiles' = [rsFiles EXCEPT ![s.path] = IF s.op = "delete" THEN "none" ELSE "new"]
           /\ cmd' = [cmd EXCEPT !.phase = "committed", !.executed = TRUE]
  <2>1. cmd' \in Commands /\ cmd'.kind = "apply" /\ cmd'.at = cmd.at /\ cmd'.phase = "committed"
    <3>1. "committed" \in Phases
      BY <1>r
    <3>2. cmd' = [cmd EXCEPT !.phase = "committed", !.executed = TRUE]
      BY <1>2
    <3>3. cmd' \in Commands /\ cmd'.kind = cmd.kind /\ cmd'.phase = "committed" /\ cmd'.at = cmd.at
      <4>1. cmd \in Commands /\ \A d : d = [cmd EXCEPT !.phase = "committed", !.executed = TRUE] =>
              d \in Commands /\ d.kind = cmd.kind /\ d.phase = "committed" /\ d.at = cmd.at /\ d.executed
        BY <1>f, <3>1, CmdExecuted, Zenon
      <4> QED BY <3>2, <4>1, Zenon
    <3> QED BY <1>1, <3>3
  <2>2. PICK c \in Restore!Contents : c = Result(cmd.at) /\ rsFiles' = [rsFiles EXCEPT ![s.path] = c]
    BY <1>2, <1>r DEF Result
  <2>3. /\ RestoreTyped' /\ LogsFollow' /\ Announced' /\ CopiesWereFirst' /\ TracedAfter' /\ BackSoFar'
        /\ Restore!MutationIsLogged'
        /\ txn'.status = "open" /\ \A x : CommittedOn(x)' <=> CommittedOn(x)
        /\ \A x \in Paths : x # s.path => rsFiles'[x] = rsFiles[x]
    BY <1>1, <2>1, <2>2, MutationKeeps
  <2>4. rsFiles'[s.path] = c
    BY <1>f, <1>p, <2>2
  <2>5. EffectsSoFar'
    <3>1. \A i \in 1..cmd.at : plan[i].path \in Paths
      BY <1>f, <1>p
    <3>2. DoneTo(cmd.at, {})'
      BY <1>1, <1>d, <1>f, <2>2, <2>3, <2>4, <3>1, <2>1, OneMoreDone
    <3> QED BY <2>1, <2>3, <3>2 DEF EffectsSoFar
  <2>6. Traced'
    <3>1. ASSUME s.op = "copy", ~CommittedOn(s.path) PROVE before[s.path] = "none"
      BY <1>2, <1>d, <1>f, <3>1 DEF Restore!StepAllowed
    <3>2. ASSUME NEW x \in Paths, rsFiles'[x] # before[x] PROVE CommittedOn(x) \/ s.path = x
      BY <1>d, <2>3, <3>2
    <3> QED BY <1>1, <2>1, <2>3, <3>1, <3>2 DEF Traced
  <2>7. ForeignStep
    <3>1. rsFiles[s.path] # "other"
      BY <1>2 DEF Restore!StepAllowed
    <3> QED BY <2>3, <3>1 DEF ForeignStep
  <2> QED BY <2>3, <2>5, <2>6, <2>7 DEF RestoreInv
<1>3. CASE /\ s.op = "replace" /\ Restore!StepAllowed(s) /\ rsFiles' = [rsFiles EXCEPT ![s.path] = "none"]
           /\ cmd' = [cmd EXCEPT !.phase = "removed"]
  <2>1. cmd' \in Commands /\ cmd'.kind = "apply" /\ cmd'.at = cmd.at /\ cmd'.phase = "removed"
    BY <1>1, <1>3, <1>f, <1>r, CmdPhase
  <2>3. /\ RestoreTyped' /\ LogsFollow' /\ Announced' /\ CopiesWereFirst' /\ TracedAfter' /\ BackSoFar'
        /\ Restore!MutationIsLogged'
        /\ txn'.status = "open" /\ \A x : CommittedOn(x)' <=> CommittedOn(x)
        /\ \A x \in Paths : x # s.path => rsFiles'[x] = rsFiles[x]
    BY <1>1, <1>3, <1>r, <2>1, MutationKeeps
  <2>4. rsFiles'[s.path] = "none"
    BY <1>3, <1>f, <1>p
  <2>5. EffectsSoFar'
    <3>1. \A i \in 1..(cmd.at - 1) : plan[i].path \in Paths
      BY <1>f, <1>p
    <3>2. DoneTo(cmd.at - 1, {s.path})'
      BY <1>1, <1>d, <2>1, <2>3, <3>1 DEF DoneTo, Result
    <3> QED BY <1>1, <1>3, <2>1, <2>3, <2>4, <3>2 DEF EffectsSoFar
  <2>6. Traced'
    <3>2. ASSUME NEW x \in Paths, rsFiles'[x] # before[x] PROVE CommittedOn(x) \/ s.path = x
      BY <1>d, <2>3, <3>2
    <3> QED BY <1>1, <2>1, <2>3, <3>2 DEF Traced
  <2>7. ForeignStep
    <3>1. rsFiles[s.path] # "other"
      BY <1>3 DEF Restore!StepAllowed
    <3> QED BY <2>3, <3>1 DEF ForeignStep
  <2> QED BY <2>3, <2>5, <2>6, <2>7 DEF RestoreInv
<1>4. CASE cmd' = [cmd EXCEPT !.phase = "failed"] /\ UNCHANGED rsFiles
  <2>1. cmd' \in Commands /\ cmd'.kind = "apply" /\ cmd'.at = cmd.at /\ cmd'.phase = "failed"
    BY <1>1, <1>4, <1>f, <1>r, CmdPhase
  <2>3. /\ RestoreTyped' /\ LogsFollow' /\ Announced' /\ CopiesWereFirst' /\ TracedAfter' /\ BackSoFar'
        /\ Restore!MutationIsLogged'
        /\ txn'.status = "open" /\ \A x : CommittedOn(x)' <=> CommittedOn(x)
    BY <1>1, <1>4, <1>r, <2>1, MutationKeeps
  <2>5. EffectsSoFar' /\ Traced' /\ ForeignStep
    BY <1>1, <1>4, <1>d, <2>1, <2>3 DEF EffectsSoFar, Traced, ForeignStep
  <2> QED BY <2>3, <2>5 DEF RestoreInv
<1> QED BY <1>2, <1>3, <1>4 DEF Restore!apply_restore_mutation_step

LEMMA ReplacementRenamed ==
  ASSUME RestoreInv, Restore!RenameReplacement
  PROVE  RestoreInv' /\ ForeignStep
<1> DEFINE s == plan[cmd.at]
<1>1. /\ cmd.kind = "apply" /\ cmd.phase = "removed"
      /\ \/ /\ rsFiles' = [rsFiles EXCEPT ![s.path] = "new"]
            /\ cmd' = [cmd EXCEPT !.phase = "committed", !.executed = TRUE]
         \/ /\ cmd' = [cmd EXCEPT !.phase = "failed", !.executed = TRUE] /\ UNCHANGED rsFiles
      /\ UNCHANGED <<before, plan, archive, rsLocks, txn, rb, rsEdits, runs>>
  BY DEF Restore!RenameReplacement
<1>f. /\ RestoreTyped /\ EffectsSoFar /\ Traced /\ cmd \in Commands
      /\ cmd.at \in 1..Len(plan) /\ cmd.at \in Nat /\ s.path \in Paths
  BY <1>1, ApplyFacts
<1>d. /\ DoneTo(cmd.at - 1, {s.path}) /\ rsFiles[s.path] = "none" /\ s.op = "replace"
      /\ \A x \in Paths : rsFiles[x] # before[x] => CommittedOn(x) \/ s.path = x
  BY <1>1, <1>f DEF EffectsSoFar, Traced
<1>p. Len(plan) \in Nat /\ (\A i \in 1..Len(plan) : plan[i].path \in Paths) /\ rsFiles \in [Paths -> Restore!Contents]
  BY <1>f, PlanFacts DEF RestoreTyped
<1>r. Phases = {"open", "start", "mutate", "removed", "committed", "failed", "stopped"}
      /\ "new" \in Restore!Contents
  BY DEF Phases, Restore!Contents
<1>2. cmd' \in Commands /\ cmd'.kind = "apply" /\ cmd'.at = cmd.at /\ cmd'.phase \in {"committed", "failed"} /\ cmd'.executed
  <2>1. ASSUME NEW ph \in {"committed", "failed"}, cmd' = [cmd EXCEPT !.phase = ph, !.executed = TRUE]
        PROVE  cmd' \in Commands /\ cmd'.kind = cmd.kind /\ cmd'.phase = ph /\ cmd'.at = cmd.at /\ cmd'.executed
    <3>1. ph \in Phases
      BY <1>r
    <3>2. cmd \in Commands /\ \A d : d = [cmd EXCEPT !.phase = ph, !.executed = TRUE] =>
            d \in Commands /\ d.kind = cmd.kind /\ d.phase = ph /\ d.at = cmd.at /\ d.executed
      BY <1>f, <3>1, CmdExecuted, Zenon
    <3> QED BY <2>1, <3>2, Zenon
  <2>2. \E ph \in {"committed", "failed"} : cmd' = [cmd EXCEPT !.phase = ph, !.executed = TRUE]
    BY <1>1
  <2> QED BY <1>1, <2>1, <2>2
<1>3. /\ RestoreTyped' /\ LogsFollow' /\ Announced' /\ CopiesWereFirst' /\ TracedAfter' /\ BackSoFar'
      /\ Restore!MutationIsLogged'
      /\ txn'.status = "open" /\ \A x : CommittedOn(x)' <=> CommittedOn(x)
      /\ \A x \in Paths : x # s.path => rsFiles'[x] = rsFiles[x]
  BY <1>1, <1>r, <1>2, MutationKeeps
<1>4. EffectsSoFar'
  <2>1. CASE cmd'.phase = "failed"
    BY <1>3, <2>1 DEF EffectsSoFar
  <2>2. CASE cmd'.phase = "committed"
    <3>1. rsFiles' = [rsFiles EXCEPT ![s.path] = "new"]
      <4>1. cmd' = [cmd EXCEPT !.phase = "failed", !.executed = TRUE] => cmd'.phase = "failed"
        <5>1. "failed" \in Phases
          BY <1>r
        <5> QED BY <1>f, <5>1, CmdExecuted, Zenon
      <4> QED BY <1>1, <2>2, <4>1
    <3>2. rsFiles'[s.path] = Result(cmd.at)
      BY <1>d, <1>f, <1>p, <3>1 DEF Result
    <3>3. \A i \in 1..cmd.at : plan[i].path \in Paths
      BY <1>f, <1>p
    <3>4. DoneTo(cmd.at, {})'
      BY <1>1, <1>2, <1>3, <1>d, <1>f, <3>2, <3>3, OneMoreDone
    <3> QED BY <1>2, <1>3, <2>2, <3>4 DEF EffectsSoFar
  <2> QED BY <1>2, <2>1, <2>2
<1>5. Traced'
  <2>1. ASSUME NEW x \in Paths, rsFiles'[x] # before[x] PROVE CommittedOn(x) \/ s.path = x
    BY <1>d, <1>3, <2>1
  <2> QED BY <1>1, <1>2, <1>3, <1>d, <2>1 DEF Traced
<1>6. ForeignStep
  BY <1>3, <1>d DEF ForeignStep
<1> QED BY <1>3, <1>4, <1>5, <1>6 DEF RestoreInv

LEMMA OutcomeIsLogged ==
  ASSUME RestoreInv, Restore!LogOutcome
  PROVE  RestoreInv' /\ ForeignStep
<1> DEFINE e == Restore!Entry(cmd.at, cmd.phase)
           s == plan[cmd.at]
<1>1. /\ cmd.kind = "apply" /\ cmd.phase \in {"committed", "failed"}
      /\ txn' = [txn EXCEPT !.entries = Append(@, e)]
      /\ cmd' = IF cmd.phase = "committed" THEN [cmd EXCEPT !.phase = "start", !.at = @ + 1]
                                           ELSE [cmd EXCEPT !.phase = "stopped"]
      /\ UNCHANGED <<rsFiles, before, plan, archive, rsLocks, rb, rsEdits, runs>>
  BY DEF Restore!LogOutcome
<1>f. /\ RestoreTyped /\ LogsFollow /\ EffectsSoFar /\ CopiesWereFirst /\ Traced /\ Restore!MutationIsLogged
      /\ cmd \in Commands /\ "apply" \in rsLocks /\ rb.status = "absent"
      /\ cmd.at \in 1..Len(plan) /\ txn.status = "open" /\ cmd.at \in Nat /\ s.path \in Paths
  BY <1>1, ApplyFacts
<1>p. Len(plan) \in Nat /\ Len(txn.entries) \in Nat /\ DOMAIN txn.entries = 1..Len(txn.entries)
  BY <1>f, PlanFacts
<1>3. e \in LogEntries /\ e.seq = cmd.at /\ e.status = cmd.phase
  BY <1>1, <1>f DEF Restore!Entry, LogEntries, Marks
<1> HIDE DEF e
<1>g. /\ txn' \in Logs(LogEntries) /\ txn'.status = txn.status
      /\ DOMAIN txn'.entries = 1..(Len(txn.entries) + 1) /\ txn'.entries[Len(txn.entries) + 1] = e
      /\ \A i \in DOMAIN txn.entries : i \in DOMAIN txn'.entries /\ txn'.entries[i] = txn.entries[i]
      /\ \A x : CommittedOn(x) => CommittedOn(x)'
  BY <1>1, <1>f, <1>3, EntriesGrow
<1>n. Len(txn.entries) + 1 \in DOMAIN txn'.entries
  BY <1>g, <1>p
<1>r. {"start", "stopped"} \subseteq Phases
  BY DEF Phases
<1>2. /\ cmd' \in Commands /\ cmd'.kind = "apply"
      /\ cmd.phase = "committed" => cmd'.phase = "start" /\ cmd'.at = cmd.at + 1
      /\ cmd.phase = "failed" => cmd'.phase = "stopped" /\ cmd'.at = cmd.at /\ cmd'.executed = cmd.executed
  <2>1. CASE cmd.phase = "committed"
    <3>1. cmd' = [cmd EXCEPT !.phase = "start", !.at = cmd.at + 1] /\ cmd.at + 1 \in Nat
      BY <1>1, <1>f, <2>1
    <3>2. PICK c : c = [cmd EXCEPT !.phase = "start"]
      OBVIOUS
    <3>3. c \in Commands /\ c.kind = cmd.kind /\ c.phase = "start"
      BY <1>f, <1>r, <3>2, CmdPhase
    <3>4. cmd' = [c EXCEPT !.at = cmd.at + 1]
      BY <3>1, <3>2
    <3>5. cmd' \in Commands /\ cmd'.kind = c.kind /\ cmd'.phase = c.phase /\ cmd'.at = cmd.at + 1
      BY <3>1, <3>3, <3>4 DEF Commands
    <3> QED BY <1>1, <2>1, <3>3, <3>5
  <2>2. CASE cmd.phase = "failed"
    <3>1. cmd' = [cmd EXCEPT !.phase = "stopped"]
      BY <1>1, <2>2
    <3> QED BY <1>1, <1>f, <1>r, <2>2, <3>1, CmdPhase
  <2> QED BY <1>1, <2>1, <2>2
<1>5. RestoreTyped'
  <2>1. LogEntries' = LogEntries
    BY <1>1 DEF LogEntries
  <2> QED BY <1>1, <1>2, <1>g, <1>f, <2>1 DEF RestoreTyped
<1>6. LogsFollow'
  <2>1. cmd'.at \in 1..(Len(plan) + 1) /\ (cmd'.phase = "stopped" => cmd'.at =< Len(plan)) /\ cmd'.phase \in {"start", "stopped"}
    BY <1>1, <1>2, <1>f, <1>p
  <2> QED BY <1>1, <1>2, <1>g, <1>f, <2>1 DEF LogsFollow
<1>7. Announced'
  BY <1>1, <1>2 DEF Announced
<1>8. EffectsSoFar'
  <2>1. CASE cmd.phase = "committed"
    <3>1. DoneTo(cmd.at, {}) /\ cmd'.at - 1 = cmd.at
      BY <1>1, <1>2, <1>f, <2>1 DEF EffectsSoFar
    <3>2. DoneTo(cmd.at - 1, {})'
      BY <1>1, <3>1 DEF DoneTo, Result
    <3> QED BY <1>2, <1>f, <1>g, <2>1, <3>2 DEF EffectsSoFar
  <2>2. CASE cmd.phase = "failed"
    BY <1>2, <1>f, <1>g, <2>2 DEF EffectsSoFar
  <2> QED BY <1>1, <2>1, <2>2
<1>9. CopiesWereFirst'
  <2>1. e.status = "committed" /\ plan[e.seq].op = "copy" /\ ~CommittedOn(plan[e.seq].path)
            => before[plan[e.seq].path] = "none"
    BY <1>1, <1>3, <1>f DEF Traced
  <2> QED BY <1>1, <1>3, <1>f, <2>1, CopiesStayFirst
<1>10. Traced'
  <2>1. CASE cmd.phase = "committed"
    <3>0. PICK x : x = s.path
      OBVIOUS
    <3>1. CommittedOn(x)'
      BY <1>1, <1>3, <1>g, <1>n, <2>1, <3>0 DEF CommittedOn, Committed, PathOf
    <3> QED BY <3>0, <1>1, <1>2, <1>f, <1>g, <2>1, <3>1 DEF Traced
  <2>2. CASE cmd.phase = "failed"
    <3>1. s.op = "replace" => FailedOn(s.path)'
      BY <1>1, <1>3, <1>g, <1>n, <2>2, SMTT(30) DEF FailedOn, PathOf
    <3> QED BY <1>1, <1>2, <1>f, <1>g, <2>2, <3>1 DEF Traced
  <2> QED BY <1>1, <2>1, <2>2
<1>11. Restore!MutationIsLogged'
  BY <1>1, <1>f, <1>g DEF Restore!MutationIsLogged
<1>12. ForeignStep
  BY <1>1 DEF ForeignStep
<1>13. TracedAfter' /\ BackSoFar'
  BY <1>1, <1>2, <1>f, <1>g, OpenClaimsNothing
<1> QED BY <1>5, <1>6, <1>7, <1>8, <1>9, <1>10, <1>11, <1>12, <1>13 DEF RestoreInv

\* With no command, only what the closed logs claim is left to show.
LEMMA CommandEnds ==
  ASSUME RestoreInv, cmd' = Restore!NoCmd, txn' \in Logs(LogEntries), rb' \in Logs([seq : Nat, status : Marks]),
         txn'.entries = txn.entries, "apply" \notin rsLocks => txn' = txn,
         txn'.status \in {"absent", "open", "applied", "rollback_required"},
         rb'.status \in {"absent", "open", "rolled_back", "rollback_failed"},
         rb'.status # "absent" => txn'.status = "rollback_required" /\ "rollback" \in rsLocks,
         (rsEdits = 0 /\ rb'.status = "absent") => rb.status = "absent",
         UNCHANGED <<rsFiles, before, plan, archive, rsLocks, rsEdits, runs>>
  PROVE  /\ RestoreTyped' /\ LogsFollow' /\ Announced' /\ CopiesWereFirst' /\ Traced'
         /\ Restore!MutationIsLogged' /\ ForeignStep /\ cmd'.kind = "none"
<1>f. RestoreTyped /\ LogsFollow /\ CopiesWereFirst /\ Restore!MutationIsLogged
  BY DEF RestoreInv
<1>1. cmd'.kind = "none"
  BY <1>f, CmdFacts
<1>2. RestoreTyped'
  <2>1. LogEntries' = LogEntries
    BY DEF LogEntries
  <2> QED BY <1>f, <2>1 DEF RestoreTyped
<1>3. LogsFollow'
  BY <1>1, <1>f DEF LogsFollow
<1>4. Announced' /\ Traced'
  BY <1>1 DEF Announced, Traced
<1>5. CopiesWereFirst'
  BY <1>f DEF CopiesWereFirst, Committed, FirstOnPath, PathOf
<1>6. Restore!MutationIsLogged' /\ ForeignStep
  BY <1>f DEF Restore!MutationIsLogged, ForeignStep
<1> QED BY <1>1, <1>2, <1>3, <1>4, <1>5, <1>6

LEMMA TransactionCloses ==
  ASSUME RestoreInv, Restore!CloseTransaction
  PROVE  RestoreInv' /\ ForeignStep
<1>1. /\ cmd.kind = "apply"
      /\ \/ cmd.phase = "stopped" /\ txn' = [txn EXCEPT !.status = "rollback_required", !.executed = cmd.executed]
         \/ /\ cmd.phase = "start" /\ cmd.at > Len(plan)
            /\ txn' = [txn EXCEPT !.status = "applied", !.executed = cmd.executed]
      /\ cmd' = Restore!NoCmd
      /\ UNCHANGED <<rsFiles, before, plan, archive, rsLocks, rb, rsEdits, runs>>
  BY DEF Restore!CloseTransaction
<1>f. /\ RestoreTyped /\ LogsFollow /\ EffectsSoFar /\ Traced
      /\ cmd.executed \in BOOLEAN /\ "apply" \in rsLocks /\ rb.status = "absent"
      /\ cmd.at \in 1..(Len(plan) + 1) /\ txn.status = "open" /\ cmd.at \in Nat
  BY <1>1, ApplyFacts
<1>p. /\ Len(plan) \in Nat /\ DOMAIN txn.entries = 1..Len(txn.entries)
      /\ txn \in Logs(LogEntries) /\ rb \in Logs([seq : Nat, status : Marks])
  BY <1>f, PlanFacts DEF RestoreTyped
<1>c. /\ txn' \in Logs(LogEntries) /\ txn'.executed = cmd.executed /\ txn'.entries = txn.entries
      /\ \/ cmd.phase = "stopped" /\ txn'.status = "rollback_required"
         \/ cmd.phase = "start" /\ cmd.at > Len(plan) /\ txn'.status = "applied"
  <2>1. ASSUME NEW st \in {"applied", "rollback_required"}, txn' = [txn EXCEPT !.status = st, !.executed = cmd.executed]
        PROVE  txn' \in Logs(LogEntries) /\ txn'.status = st /\ txn'.executed = cmd.executed /\ txn'.entries = txn.entries
    <3>1. PICK b \in BOOLEAN : b = cmd.executed
      BY <1>f
    <3>2. st \in {"applied", "rollback_required", "rolled_back", "rollback_failed"} /\ txn \in Logs(LogEntries)
      BY <1>p
    <3>3. PICK o : o = [txn EXCEPT !.status = st]
      OBVIOUS
    <3>4. txn' = [o EXCEPT !.executed = b]
      BY <2>1, <3>1, <3>3
    <3>5. o \in Logs(LogEntries) /\ o.status = st /\ o.entries = txn.entries
      BY <3>2, <3>3 DEF Logs
    <3>6. txn' \in Logs(LogEntries) /\ txn'.status = st /\ txn'.executed = b /\ txn'.entries = txn.entries
      BY <3>1, <3>4, <3>5 DEF Logs
    <3> QED BY <3>1, <3>6
  <2> QED BY <1>1, <2>1
<1>2. /\ RestoreTyped' /\ LogsFollow' /\ Announced' /\ CopiesWereFirst' /\ Traced'
      /\ Restore!MutationIsLogged' /\ ForeignStep /\ cmd'.kind = "none"
  BY <1>1, <1>c, <1>f, <1>p, CommandEnds
<1>3. EffectsSoFar'
  <2>1. CASE txn'.status = "applied"
    <3>1. DoneTo(cmd.at - 1, {}) /\ cmd.at - 1 = Len(plan)
      BY <1>1, <1>c, <1>f, <1>p, <2>1 DEF EffectsSoFar
    <3>2. DoneTo(Len(plan), {})'
      BY <1>1, <3>1 DEF DoneTo, Result
    <3> QED BY <1>2, <3>2 DEF EffectsSoFar
  <2>2. CASE txn'.status # "applied"
    BY <1>2, <2>2 DEF EffectsSoFar
  <2> QED BY <2>1, <2>2
<1>4. TracedAfter'
  <2> SUFFICES ASSUME txn'.status = "rollback_required", NEW x \in Paths, rsFiles[x] # before[x]
               PROVE  \E i \in Restore!Candidates' : PathOf(i)' = x
    BY <1>1 DEF TracedAfter
  <2>1. cmd.phase = "stopped"
    BY <1>c
  <2>2. CommittedOn(x) \/ (cmd.executed /\ FailedOn(x))
    BY <1>1, <1>f, <2>1 DEF Traced
  <2>3. CASE CommittedOn(x)
    BY <1>1, <1>c, <2>3 DEF CommittedOn, Committed, PathOf, Restore!Candidates, Restore!Undone
  <2>4. CASE cmd.executed /\ FailedOn(x)
    BY <1>1, <1>c, <2>4 DEF FailedOn, PathOf, Restore!Candidates, Restore!Undone
  <2> QED BY <2>2, <2>3, <2>4
<1>5. BackSoFar'
  BY <1>1, <1>2, <1>f DEF BackSoFar
<1> QED BY <1>2, <1>3, <1>4, <1>5 DEF RestoreInv

LEMMA RestoreCrashes ==
  ASSUME RestoreInv, Restore!Crash
  PROVE  RestoreInv' /\ ForeignStep
<1>1. cmd' = Restore!NoCmd /\ UNCHANGED <<rsFiles, before, plan, archive, rsLocks, txn, rb, rsEdits, runs>>
  BY DEF Restore!Crash
<1>f. RestoreTyped /\ LogsFollow /\ EffectsSoFar /\ TracedAfter /\ BackSoFar
  BY DEF RestoreInv
<1>2. /\ RestoreTyped' /\ LogsFollow' /\ Announced' /\ CopiesWereFirst' /\ Traced'
      /\ Restore!MutationIsLogged' /\ ForeignStep /\ cmd'.kind = "none"
  <2>1. txn \in Logs(LogEntries) /\ rb \in Logs([seq : Nat, status : Marks])
    BY <1>f DEF RestoreTyped
  <2>2. /\ txn.status \in {"absent", "open", "applied", "rollback_required"}
        /\ rb.status \in {"absent", "open", "rolled_back", "rollback_failed"}
        /\ rb.status # "absent" => txn.status = "rollback_required" /\ "rollback" \in rsLocks
    BY <1>f DEF LogsFollow
  <2> QED BY <1>1, <2>1, <2>2, CommandEnds
<1>3. EffectsSoFar'
  BY <1>1, <1>2, <1>f DEF EffectsSoFar, DoneTo, Result
<1>4. TracedAfter'
  BY <1>1, <1>f DEF TracedAfter, PathOf, Restore!Candidates, Restore!Undone
<1>5. BackSoFar'
  BY <1>1, <1>2, <1>f DEF BackSoFar, Back
<1> QED BY <1>2, <1>3, <1>4, <1>5 DEF RestoreInv

LEMMA TreeEdited ==
  ASSUME RestoreInv, NEW y \in Paths, Restore!Edit(y)
  PROVE  RestoreInv' /\ ForeignStep
<1>1. /\ cmd = Restore!NoCmd /\ rsEdits < RsMaxEdits /\ rsEdits' = rsEdits + 1
      /\ \E c \in {"none", "other"} : rsFiles' = [rsFiles EXCEPT ![y] = c]
      /\ UNCHANGED <<before, plan, archive, rsLocks, txn, rb, cmd, runs>>
  BY DEF Restore!Edit
<1>f. RestoreTyped /\ LogsFollow /\ CopiesWereFirst
  BY DEF RestoreInv
<1>2. rsEdits' \in 0..RsMaxEdits /\ rsEdits' # 0 /\ rsEdits' # rsEdits
  BY <1>1, <1>f, RestoreAssumption DEF RestoreTyped
<1>3. rsFiles' \in [Paths -> Restore!Contents]
  BY <1>1, <1>f DEF RestoreTyped, Restore!Contents
<1>4. RestoreTyped'
  BY <1>1, <1>2, <1>3, <1>f DEF RestoreTyped, LogEntries
<1>5. cmd'.kind = "none"
  BY <1>1, <1>f, CmdFacts
<1>6. LogsFollow'
  BY <1>1, <1>5, <1>f DEF LogsFollow
<1>7. Announced' /\ Traced' /\ EffectsSoFar' /\ TracedAfter' /\ BackSoFar' /\ Restore!MutationIsLogged' /\ ForeignStep
  BY <1>2, <1>5 DEF Announced, Traced, EffectsSoFar, TracedAfter, BackSoFar, Restore!MutationIsLogged, ForeignStep
<1>8. CopiesWereFirst'
  BY <1>1, <1>f DEF CopiesWereFirst, Committed, FirstOnPath, PathOf
<1> QED BY <1>4, <1>6, <1>7, <1>8 DEF RestoreInv

LEMMA RollbackCommand ==
  ASSUME RestoreInv, NEW v, Restore!create_restore_rollback(v)
  PROVE  RestoreInv' /\ ForeignStep
<1> DEFINE n == Len(txn.entries) + 1
<1>1. /\ cmd = Restore!NoCmd /\ runs < MaxRuns /\ runs' = runs + 1
      /\ UNCHANGED <<rsFiles, before, plan, archive, txn, rsEdits>>
  BY DEF Restore!create_restore_rollback
<1>2. PICK c : c = [kind |-> "rollback", phase |-> "start", at |-> n, executed |-> FALSE]
  OBVIOUS
<1>3. PICK o : o = [Restore!NoLog EXCEPT !.status = "open"]
  OBVIOUS
<1>4. \/ UNCHANGED <<rsLocks, rb, cmd>>
      \/ "rollback" \notin rsLocks /\ rsLocks' = rsLocks \cup {"rollback"} /\ UNCHANGED <<rb, cmd>>
      \/ /\ "rollback" \notin rsLocks /\ rsLocks' = rsLocks \cup {"rollback"} /\ rb' = o
         /\ txn.status = "rollback_required" /\ (cmd' = c \/ cmd' = cmd)
  BY <1>2, <1>3 DEF Restore!create_restore_rollback
<1>i. RestoreTyped /\ LogsFollow /\ EffectsSoFar /\ CopiesWereFirst /\ TracedAfter /\ BackSoFar /\ Restore!MutationIsLogged
  BY DEF RestoreInv
<1>p. Len(txn.entries) \in Nat /\ DOMAIN txn.entries = 1..Len(txn.entries)
  BY <1>i, PlanFacts
<1>5. c \in Commands /\ c.kind = "rollback" /\ c.phase = "start" /\ c.at = n
  <2>1. FALSE \in BOOLEAN
    BY Zenon
  <2> QED BY <1>2, <1>p, <2>1 DEF Commands, Phases
<1>6. o.status = "open" /\ o \in Logs([seq : Nat, status : Marks]) /\ Restore!NoCmd.kind = "none"
  BY <1>3, <1>i, EmptyLog, CmdFacts
<1>t. RestoreTyped'
  <2>1. runs' \in 0..MaxRuns
    BY <1>i, <1>1, RestoreAssumption DEF RestoreTyped
  <2>2. /\ rsLocks' \subseteq {"apply", "rollback"} /\ cmd' \in Commands \cup {Restore!NoCmd}
        /\ rb' \in Logs([seq : Nat, status : Marks])
    BY <1>i, <1>1, <1>4, <1>5, <1>6 DEF RestoreTyped
  <2> QED BY <1>i, <1>1, <2>1, <2>2 DEF RestoreTyped, LogEntries
<1>k. cmd'.kind # "apply" /\ (cmd'.kind = "rollback" => cmd' = c /\ rb' = o /\ "rollback" \notin rsLocks)
  BY <1>1, <1>4, <1>5, <1>6
<1>l. LogsFollow'
  <2>1. c.at \in 1..(Len(txn.entries) + 1)
    BY <1>5, <1>p
  <2> QED BY <1>1, <1>4, <1>5, <1>6, <1>i, <1>k, <2>1 DEF LogsFollow
<1>7. Announced' /\ Traced'
  BY <1>k DEF Announced, Traced
<1>8. EffectsSoFar'
  BY <1>i, <1>1, <1>k DEF EffectsSoFar, DoneTo, Result
<1>9. CopiesWereFirst'
  BY <1>i, <1>1 DEF CopiesWereFirst, Committed, FirstOnPath, PathOf
<1>10. TracedAfter'
  BY <1>i, <1>1, <1>4, <1>6 DEF TracedAfter, PathOf, Restore!Candidates, Restore!Undone
<1>11. BackSoFar'
  <2>1. CASE cmd'.kind # "rollback"
    BY <1>i, <1>1, <1>4, <1>6, <2>1 DEF BackSoFar, Back
  <2>2. CASE cmd'.kind = "rollback"
    <3>1. cmd' = c /\ rb'.status = "open" /\ rb.status = "absent" /\ txn.status = "rollback_required"
      BY <1>1, <1>4, <1>5, <1>6, <1>i, <1>k, <2>2 DEF LogsFollow
    <3>2. Restore!Remaining' = Restore!Candidates
      <4>1. \A i \in DOMAIN txn.entries : i < n
        BY <1>p
      <4> QED BY <1>1, <1>5, <3>1, <4>1 DEF Restore!Remaining, Restore!Candidates, Restore!Undone
    <3>3. ASSUME rsEdits = 0, NEW x \in Paths PROVE rsFiles[x] = before[x] \/ \E i \in Restore!Candidates : PathOf(i) = x
      BY <1>i, <3>1, <3>3 DEF TracedAfter
    <3> QED BY <1>1, <1>5, <3>1, <3>2, <3>3 DEF BackSoFar, Back, PathOf
  <2> QED BY <2>1, <2>2
<1>12. Restore!MutationIsLogged' /\ ForeignStep
  BY <1>i, <1>1, <1>4, <1>6 DEF Restore!MutationIsLogged, ForeignStep
<1> QED BY <1>t, <1>l, <1>7, <1>8, <1>9, <1>10, <1>11, <1>12 DEF RestoreInv

\* What a rollback at work may rely on.
LEMMA RollbackFacts ==
  ASSUME RestoreInv, cmd.kind = "rollback"
  PROVE  /\ RestoreTyped /\ LogsFollow /\ CopiesWereFirst /\ BackSoFar
         /\ cmd \in Commands /\ cmd # Restore!NoCmd /\ cmd.at \in Nat /\ cmd.at \in 1..(Len(txn.entries) + 1)
         /\ cmd.executed \in BOOLEAN /\ rb.status = "open" /\ txn.status = "rollback_required" /\ "rollback" \in rsLocks
         /\ Len(txn.entries) \in Nat /\ DOMAIN txn.entries = 1..Len(txn.entries)
<1>1. RestoreTyped /\ LogsFollow /\ CopiesWereFirst /\ BackSoFar
  BY DEF RestoreInv
<1>2. cmd \in Commands /\ cmd # Restore!NoCmd /\ cmd.at \in Nat /\ cmd.executed \in BOOLEAN
  BY <1>1, CmdFacts
<1>3. rb.status = "open" /\ cmd.at \in 1..(Len(txn.entries) + 1) /\ txn.status = "rollback_required" /\ "rollback" \in rsLocks
  BY <1>1 DEF LogsFollow
<1> QED BY <1>1, <1>2, <1>3, PlanFacts

\* While a rollback is at work the rest of the invariant is about its log only.
LEMMA RollbackKeeps ==
  ASSUME RestoreInv, cmd.kind = "rollback", cmd' \in Commands, cmd'.kind = "rollback",
         cmd'.at \in 1..(Len(txn.entries) + 1), cmd'.phase \in {"start", "mutate", "committed", "failed", "stopped"},
         cmd'.phase = "mutate" => cmd'.at \in Restore!Candidates,
         rb' \in Logs([seq : Nat, status : Marks]), rb'.status = rb.status,
         rsFiles' \in [Paths -> Restore!Contents],
         UNCHANGED <<before, plan, archive, rsLocks, txn, rsEdits, runs>>
  PROVE  /\ RestoreTyped' /\ LogsFollow' /\ Announced' /\ EffectsSoFar' /\ CopiesWereFirst' /\ Traced' /\ TracedAfter'
         /\ Restore!MutationIsLogged'
<1>f. /\ RestoreTyped /\ LogsFollow /\ CopiesWereFirst /\ rb.status = "open" /\ txn.status = "rollback_required"
      /\ "rollback" \in rsLocks
  BY RollbackFacts
<1>1. RestoreTyped'
  BY <1>f DEF RestoreTyped, LogEntries
<1>2. LogsFollow'
  BY <1>f DEF LogsFollow, Restore!Candidates, Restore!Undone
<1>3. Announced' /\ EffectsSoFar' /\ Traced' /\ TracedAfter' /\ Restore!MutationIsLogged'
  BY <1>f DEF Announced, EffectsSoFar, Traced, TracedAfter, Restore!MutationIsLogged
<1>4. CopiesWereFirst'
  BY <1>f DEF CopiesWereFirst, Committed, FirstOnPath, PathOf
<1> QED BY <1>1, <1>2, <1>3, <1>4

LEMMA RollbackEntry ==
  ASSUME RestoreTyped, NEW i \in Nat, NEW m \in Marks, rb' = [rb EXCEPT !.entries = Append(@, Restore!Entry(i, m))]
  PROVE  rb' \in Logs([seq : Nat, status : Marks]) /\ rb'.status = rb.status
<1>1. PICK S : S = [seq : Nat, status : Marks]
  OBVIOUS
<1>2. PICK e \in S : e = Restore!Entry(i, m)
  BY <1>1 DEF Restore!Entry
<1>3. rb \in Logs(S) /\ rb' = [rb EXCEPT !.entries = Append(@, e)]
  BY <1>1, <1>2 DEF RestoreTyped
<1>4. rb.entries \in Seq(S) /\ Append(rb.entries, e) \in Seq(S)
  BY <1>2, <1>3 DEF Logs
<1> QED BY <1>1, <1>3, <1>4 DEF Logs

LEMMA RollbackStepStarts ==
  ASSUME RestoreInv, Restore!RollbackStarted
  PROVE  RestoreInv' /\ ForeignStep
<1> DEFINE i == Restore!Max(Restore!Remaining)
<1>1. /\ cmd.kind = "rollback" /\ cmd.phase = "start" /\ Restore!Remaining # {}
      /\ rb' = [rb EXCEPT !.entries = Append(@, Restore!Entry(i, "started"))]
      /\ cmd' = [cmd EXCEPT !.phase = "mutate", !.at = i]
      /\ UNCHANGED <<rsFiles, before, plan, archive, rsLocks, txn, rsEdits, runs>>
  BY DEF Restore!RollbackStarted
<1>f. /\ RestoreTyped /\ BackSoFar /\ cmd \in Commands /\ cmd.at \in Nat /\ cmd.at \in 1..(Len(txn.entries) + 1)
      /\ rb.status = "open" /\ Len(txn.entries) \in Nat /\ DOMAIN txn.entries = 1..Len(txn.entries)
  BY <1>1, RollbackFacts
<1>2. i \in Restore!Remaining /\ \A j \in Restore!Remaining : j =< i
  <2>1. Restore!Remaining \subseteq 0..cmd.at
    BY <1>f DEF Restore!Remaining, Restore!Candidates
  <2>2. \E n \in Restore!Remaining : \A j \in Restore!Remaining : j =< n
    BY <1>1, <1>f, <2>1, NewestExists
  <2>3. \A n \in Restore!Remaining : n \in Nat
    BY <1>f, <2>1
  <2>4. \E n \in Restore!Remaining : \A j \in Restore!Remaining : n >= j
    BY <2>2, <2>3
  <2>5. i \in Restore!Remaining /\ \A j \in Restore!Remaining : i >= j
    BY <2>4 DEF Restore!Max
  <2> QED BY <2>3, <2>5
<1>3. i \in Restore!Candidates /\ i \in Nat /\ i \in 1..(Len(txn.entries) + 1) /\ i < cmd.at
  <2>1. \A j \in Restore!Remaining : /\ j \in Restore!Candidates /\ j \in Nat /\ j \in 1..(Len(txn.entries) + 1)
                                     /\ j < cmd.at
    BY <1>f DEF Restore!Remaining, Restore!Candidates
  <2> HIDE DEF i
  <2> QED BY <1>2, <2>1
<1> HIDE DEF i
<1>4. cmd' \in Commands /\ cmd'.kind = "rollback" /\ cmd'.phase = "mutate" /\ cmd'.at = i
  <2>1. PICK c : c = [cmd EXCEPT !.phase = "mutate"]
    OBVIOUS
  <2>2. "mutate" \in Phases
    BY DEF Phases
  <2>3. c \in Commands /\ c.kind = cmd.kind /\ c.phase = "mutate"
    BY <1>f, <2>1, <2>2, CmdPhase
  <2>4. cmd' = [c EXCEPT !.at = i]
    BY <1>1, <2>1
  <2> QED BY <1>1, <1>3, <2>3, <2>4 DEF Commands
<1>5. rb' \in Logs([seq : Nat, status : Marks]) /\ rb'.status = rb.status
  <2>1. "started" \in Marks
    BY DEF Marks
  <2> QED BY <1>1, <1>3, <1>f, <2>1, RollbackEntry
<1>6. /\ RestoreTyped' /\ LogsFollow' /\ Announced' /\ EffectsSoFar' /\ CopiesWereFirst' /\ Traced' /\ TracedAfter'
      /\ Restore!MutationIsLogged'
  <2>1. rsFiles' \in [Paths -> Restore!Contents]
    BY <1>1, <1>f DEF RestoreTyped
  <2> QED BY <1>1, <1>3, <1>4, <1>5, <2>1, RollbackKeeps
<1>7. BackSoFar'
  <2>1. \A j \in Restore!Remaining : j = i \/ j \in Restore!Remaining'
    <3>1. \A j \in Restore!Remaining : j \in Restore!Candidates /\ j \in Nat /\ j =< i
      BY <1>2, <1>f DEF Restore!Remaining, Restore!Candidates
    <3>2. \A j \in Restore!Remaining : j = i \/ j < i
      BY <1>3, <3>1
    <3>3. Restore!Candidates' = Restore!Candidates
      BY <1>1 DEF Restore!Candidates, Restore!Undone
    <3> QED BY <1>4, <3>1, <3>2, <3>3 DEF Restore!Remaining
  <2>2. ASSUME rsEdits = 0, NEW x \in Paths
        PROVE  Back(x) \/ plan[txn.entries[i].seq].path = x \/ \E j \in Restore!Remaining' : PathOf(j) = x
    <3>1. Back(x) \/ \E j \in Restore!Remaining : PathOf(j) = x
      BY <1>1, <1>f, <2>2 DEF BackSoFar
    <3> QED BY <2>1, <3>1 DEF PathOf
  <2>3. rb'.status = "open"
    BY <1>5, <1>f
  <2> QED BY <1>1, <1>4, <2>2, <2>3 DEF BackSoFar, Back, PathOf
<1>8. ForeignStep
  BY <1>1 DEF ForeignStep
<1> QED BY <1>6, <1>7, <1>8 DEF RestoreInv

\* Undoing a copy that was not the first step of its path leaves an earlier one to
\* be undone; every other undone step leaves its path as the restore found it, or
\* with the content of the pre-restore archive.
LEMMA StepUndone ==
  ASSUME RestoreInv, Restore!apply_restore_rollback_step
  PROVE  RestoreInv' /\ ForeignStep
<1> DEFINE e == txn.entries[cmd.at]
           s == plan[e.seq]
<1>1. /\ cmd.kind = "rollback" /\ cmd.phase = "mutate"
      /\ UNCHANGED <<before, plan, archive, rsLocks, txn, rb, rsEdits, runs>>
  BY DEF Restore!apply_restore_rollback_step
<1>f. /\ RestoreTyped /\ LogsFollow /\ CopiesWereFirst /\ BackSoFar /\ cmd \in Commands /\ cmd.at \in Nat
      /\ cmd.at \in 1..(Len(txn.entries) + 1)
      /\ rb.status = "open" /\ Len(txn.entries) \in Nat /\ DOMAIN txn.entries = 1..Len(txn.entries)
  BY <1>1, RollbackFacts
<1>c. cmd.at \in Restore!Candidates /\ cmd.at \in DOMAIN txn.entries /\ Restore!Undone(e)
  BY <1>1, <1>f DEF LogsFollow, Restore!Candidates
<1>p. /\ s.path \in Paths /\ s.op \in {"copy", "delete", "replace"} /\ e.seq \in 1..Len(plan) /\ PathOf(cmd.at) = s.path
      /\ rsFiles \in [Paths -> Restore!Contents] /\ rb \in Logs([seq : Nat, status : Marks])
  BY <1>c, <1>f, PlanFacts DEF PathOf, RestoreTyped
<1>r. {"committed", "failed"} \subseteq Phases /\ {"none", "old"} \subseteq Restore!Contents
  BY DEF Phases, Restore!Contents
<1>b. rsEdits = 0 => \A x \in Paths : Back(x) \/ s.path = x \/ \E i \in Restore!Remaining : PathOf(i) = x
  BY <1>1, <1>f, <1>p DEF BackSoFar
<1>2. CASE /\ Restore!MayUndo(e)
           /\ rsFiles' = [rsFiles EXCEPT ![s.path] = IF s.op = "copy" THEN "none" ELSE "old"]
           /\ cmd' = [cmd EXCEPT !.phase = "committed", !.executed = TRUE]
  <2>1. cmd' \in Commands /\ cmd'.kind = "rollback" /\ cmd'.at = cmd.at /\ cmd'.phase = "committed"
    <3>1. "committed" \in Phases
      BY <1>r
    <3>2. cmd' = [cmd EXCEPT !.phase = "committed", !.executed = TRUE]
      BY <1>2
    <3>3. cmd \in Commands /\ \A d : d = [cmd EXCEPT !.phase = "committed", !.executed = TRUE] =>
            d \in Commands /\ d.kind = cmd.kind /\ d.phase = "committed" /\ d.at = cmd.at /\ d.executed
      BY <1>f, <3>1, CmdExecuted, ZenonT(60)
    <3>4. cmd' \in Commands /\ cmd'.kind = cmd.kind /\ cmd'.phase = "committed" /\ cmd'.at = cmd.at
      BY <3>2, <3>3, Zenon
    <3> QED BY <1>1, <3>4
  <2>2. /\ rsFiles' \in [Paths -> Restore!Contents] /\ \A x \in Paths : x # s.path => rsFiles'[x] = rsFiles[x]
        /\ rsFiles'[s.path] = IF s.op = "copy" THEN "none" ELSE "old"
    BY <1>2, <1>p, <1>r, SMTT(30)
  <2>3. /\ RestoreTyped' /\ LogsFollow' /\ Announced' /\ EffectsSoFar' /\ CopiesWereFirst' /\ Traced' /\ TracedAfter'
        /\ Restore!MutationIsLogged'
    BY <1>1, <1>f, <1>p, <2>1, <2>2, RollbackKeeps
  <2>4. Restore!Remaining' = Restore!Remaining
    BY <1>1, <2>1 DEF Restore!Remaining, Restore!Candidates, Restore!Undone
  <2>5. Back(s.path)' \/ \E i \in Restore!Remaining : PathOf(i) = s.path
    <3>1. CASE s.op # "copy"
      <4>1. s.path \in archive
        BY <1>2, <1>p, <3>1 DEF Restore!MayUndo
      <4> QED BY <1>1, <2>1, <2>2, <3>1, <4>1 DEF Back
    <3>2. CASE s.op = "copy"
      <4>1. Committed(cmd.at)
        BY <1>c, <3>2 DEF Restore!Undone, Committed
      <4>2. CASE FirstOnPath(cmd.at, PathOf(cmd.at))
        <5>1. before[s.path] = "none"
          BY <1>c, <1>f, <1>p, <3>2, <4>1, <4>2 DEF CopiesWereFirst
        <5> QED BY <1>1, <2>1, <2>2, <3>2, <5>1 DEF Back
      <4>3. CASE ~FirstOnPath(cmd.at, PathOf(cmd.at))
        <5>1. PICK j \in DOMAIN txn.entries : j < cmd.at /\ Committed(j) /\ PathOf(j) = s.path
          BY <1>p, <4>3 DEF FirstOnPath
        <5>2. j \in Restore!Remaining
          BY <5>1 DEF Restore!Remaining, Restore!Candidates, Restore!Undone, Committed
        <5> QED BY <5>1, <5>2, SMTT(30)
      <4> QED BY <4>2, <4>3
    <3> QED BY <3>1, <3>2, SMTT(30)
  <2>6. ASSUME rsEdits = 0, NEW x \in Paths PROVE Back(x)' \/ \E i \in Restore!Remaining' : PathOf(i)' = x
    <3>0. \A i : PathOf(i)' = PathOf(i)
      BY <1>1 DEF PathOf
    <3>1. CASE x = s.path
      BY <1>1, <2>1, <2>4, <2>5, <3>0, <3>1, ZenonT(60) DEF Back
    <3>2. CASE x # s.path
      BY <1>1, <1>b, <2>2, <2>4, <2>6, <3>0, <3>2 DEF Back
    <3> QED BY <3>1, <3>2
  <2>7. BackSoFar'
    BY <1>1, <1>f, <2>1, <2>6 DEF BackSoFar
  <2>8. ForeignStep
    <3>1. rsFiles[s.path] # "other"
      BY <1>2, <1>p, ZenonT(60) DEF Restore!MayUndo
    <3> QED BY <2>2, <3>1 DEF ForeignStep
  <2> QED BY <2>3, <2>7, <2>8 DEF RestoreInv
<1>3. CASE cmd' = [cmd EXCEPT !.phase = "failed"] /\ UNCHANGED rsFiles
  <2>1. cmd' \in Commands /\ cmd'.kind = "rollback" /\ cmd'.at = cmd.at /\ cmd'.phase = "failed"
    BY <1>1, <1>3, <1>f, <1>r, CmdPhase
  <2>2. /\ RestoreTyped' /\ LogsFollow' /\ Announced' /\ EffectsSoFar' /\ CopiesWereFirst' /\ Traced' /\ TracedAfter'
        /\ Restore!MutationIsLogged'
    BY <1>1, <1>3, <1>f, <1>p, <2>1, RollbackKeeps
  <2>3. BackSoFar' /\ ForeignStep
    BY <1>1, <1>3, <1>f, <2>1 DEF BackSoFar, ForeignStep
  <2> QED BY <2>2, <2>3 DEF RestoreInv
<1> QED BY <1>2, <1>3, ZenonT(60) DEF Restore!apply_restore_rollback_step

LEMMA RollbackOutcomeLogged ==
  ASSUME RestoreInv, Restore!RollbackOutcome
  PROVE  RestoreInv' /\ ForeignStep
<1> DEFINE ph == IF cmd.phase = "committed" THEN "start" ELSE "stopped"
<1>1. /\ cmd.kind = "rollback" /\ cmd.phase \in {"committed", "failed"}
      /\ rb' = [rb EXCEPT !.entries = Append(@, Restore!Entry(cmd.at, cmd.phase))]
      /\ cmd' = [cmd EXCEPT !.phase = ph]
      /\ UNCHANGED <<rsFiles, before, plan, archive, rsLocks, txn, rsEdits, runs>>
  BY DEF Restore!RollbackOutcome
<1>f. /\ RestoreTyped /\ BackSoFar /\ cmd \in Commands /\ cmd.at \in Nat /\ cmd.at \in 1..(Len(txn.entries) + 1)
      /\ rb.status = "open"
  BY <1>1, RollbackFacts
<1>2. ph \in Phases /\ ph \in {"start", "stopped"} /\ (ph = "start" => cmd.phase = "committed") /\ cmd.phase \in Marks
  BY <1>1 DEF Phases, Marks
<1> HIDE DEF ph
<1>3. cmd' \in Commands /\ cmd'.kind = "rollback" /\ cmd'.phase = ph /\ cmd'.at = cmd.at
  BY <1>1, <1>2, <1>f, CmdPhase
<1>4. rb' \in Logs([seq : Nat, status : Marks]) /\ rb'.status = rb.status
  BY <1>1, <1>2, <1>f, RollbackEntry
<1>5. /\ RestoreTyped' /\ LogsFollow' /\ Announced' /\ EffectsSoFar' /\ CopiesWereFirst' /\ Traced' /\ TracedAfter'
      /\ Restore!MutationIsLogged'
  <2>1. rsFiles' \in [Paths -> Restore!Contents]
    BY <1>1, <1>f DEF RestoreTyped
  <2> QED BY <1>1, <1>2, <1>3, <1>4, <1>f, <2>1, RollbackKeeps
<1>6. BackSoFar'
  <2>1. Restore!Remaining' = Restore!Remaining
    BY <1>1, <1>3 DEF Restore!Remaining, Restore!Candidates, Restore!Undone
  <2>2. rb'.status = "open"
    BY <1>4, <1>f
  <2> QED BY <1>1, <1>2, <1>3, <1>f, <2>1, <2>2 DEF BackSoFar, Back, PathOf
<1>7. ForeignStep
  BY <1>1 DEF ForeignStep
<1> QED BY <1>5, <1>6, <1>7 DEF RestoreInv

LEMMA RollbackCloses ==
  ASSUME RestoreInv, Restore!CloseRollback
  PROVE  RestoreInv' /\ ForeignStep
<1>1. /\ cmd.kind = "rollback"
      /\ \/ cmd.phase = "stopped" /\ rb' = [rb EXCEPT !.status = "rollback_failed", !.executed = cmd.executed]
         \/ /\ cmd.phase = "start" /\ Restore!Remaining = {}
            /\ rb' = [rb EXCEPT !.status = "rolled_back", !.executed = cmd.executed]
      /\ cmd' = Restore!NoCmd
      /\ UNCHANGED <<rsFiles, before, plan, archive, rsLocks, txn, rsEdits, runs>>
  BY DEF Restore!CloseRollback
<1>f. /\ RestoreTyped /\ LogsFollow /\ BackSoFar /\ cmd.executed \in BOOLEAN /\ rb.status = "open"
      /\ txn.status = "rollback_required" /\ "rollback" \in rsLocks
  BY <1>1, RollbackFacts
<1>p. txn \in Logs(LogEntries) /\ rb \in Logs([seq : Nat, status : Marks])
  BY <1>f DEF RestoreTyped
<1>c. /\ rb' \in Logs([seq : Nat, status : Marks])
      /\ \/ cmd.phase = "stopped" /\ rb'.status = "rollback_failed"
         \/ cmd.phase = "start" /\ Restore!Remaining = {} /\ rb'.status = "rolled_back"
  <2>1. ASSUME NEW st \in {"rollback_failed", "rolled_back"}, rb' = [rb EXCEPT !.status = st, !.executed = cmd.executed]
        PROVE  rb' \in Logs([seq : Nat, status : Marks]) /\ rb'.status = st
    <3>1. PICK b \in BOOLEAN : b = cmd.executed
      BY <1>f
    <3>3. PICK o : o = [rb EXCEPT !.status = st]
      OBVIOUS
    <3>4. rb' = [o EXCEPT !.executed = b]
      BY <2>1, <3>1, <3>3
    <3>5. o \in Logs([seq : Nat, status : Marks]) /\ o.status = st
      BY <1>p, <3>3 DEF Logs
    <3> QED BY <3>1, <3>4, <3>5 DEF Logs
  <2> QED BY <1>1, <2>1
<1>2. /\ RestoreTyped' /\ LogsFollow' /\ Announced' /\ CopiesWereFirst' /\ Traced'
      /\ Restore!MutationIsLogged' /\ ForeignStep /\ cmd'.kind = "none"
  BY <1>1, <1>c, <1>f, <1>p, CommandEnds
<1>3. EffectsSoFar' /\ TracedAfter'
  BY <1>1, <1>2, <1>c, <1>f DEF EffectsSoFar, TracedAfter
<1>4. BackSoFar'
  <2>1. ASSUME rb'.status = "rolled_back", rsEdits = 0, NEW x \in Paths PROVE Back(x)
    BY <1>1, <1>c, <1>f, <2>1 DEF BackSoFar
  <2> QED BY <1>1, <1>2, <2>1 DEF BackSoFar, Back
<1> QED BY <1>2, <1>3, <1>4 DEF RestoreInv

LEMMA RestoreSteps ==
  ASSUME RestoreInv, Restore!Next
  PROVE  RestoreInv' /\ ForeignStep
BY ApplyCommand, TransactionOpens, StartIsLogged, StepMutates, ReplacementRenamed, OutcomeIsLogged, TransactionCloses,
   RollbackCommand, RollbackStepStarts, StepUndone, RollbackOutcomeLogged, RollbackCloses, RestoreCrashes, TreeEdited
   DEF Restore!Next

\* For every tree, plan, archive and number of commands: whatever a restore
\* changed is announced in its transaction log; a log that says applied or
\* rolled_back tells the truth about every path; and content that the plan does
\* not know is never overwritten, wherever the command died and whatever others
\* edited between two commands (restore_apply.rs).
THEOREM RestoreKeepsItsWord == SystemSpec => RestoreIsHonest
<1> DEFINE Inv == part = "restore" => RestoreInv
<1>1. SystemInit => Inv
  BY RestoreStarts DEF SystemInit
<1>2. Inv /\ [SystemNext]_all => Inv' /\ (ForeignStep \/ UNCHANGED restoreVars)
  <2> SUFFICES ASSUME Inv, [SystemNext]_all PROVE Inv' /\ (ForeignStep \/ UNCHANGED restoreVars)
    OBVIOUS
  <2>1. CASE SystemNext
    <3>1. CASE part = "restore"
      <4>1. Restore!Next /\ part' = part
        BY <2>1, <3>1 DEF SystemNext, Step
      <4> QED BY <3>1, <4>1, RestoreSteps
    <3>2. CASE part # "restore"
      <4>1. part' = part /\ UNCHANGED restoreVars
        BY <2>1, <3>2 DEF SystemNext, Idle
      <4> QED BY <3>2, <4>1
    <3> QED BY <3>1, <3>2
  <2>2. CASE UNCHANGED all
    <3>1. part' = part /\ UNCHANGED restoreVars
      BY <2>2 DEF all
    <3>2. UNCHANGED <<rsFiles, before, plan, archive, rsLocks, txn, rb, cmd, rsEdits, runs>>
      BY <3>1 DEF restoreVars
    <3>3. RestoreTyped => RestoreTyped'
      BY <3>2 DEF RestoreTyped, LogEntries
    <3>4. LogsFollow /\ Announced => LogsFollow' /\ Announced'
      BY <3>2 DEF LogsFollow, Announced, Restore!Candidates, Restore!Undone
    <3>5. EffectsSoFar => EffectsSoFar'
      BY <3>2 DEF EffectsSoFar, DoneTo, Result
    <3>6. CopiesWereFirst => CopiesWereFirst'
      BY <3>2 DEF CopiesWereFirst, Committed, FirstOnPath, PathOf
    <3>7. Traced => Traced'
      BY <3>2 DEF Traced, CommittedOn, FailedOn, Committed, PathOf
    <3>8. TracedAfter => TracedAfter'
      BY <3>2 DEF TracedAfter, PathOf, Restore!Candidates, Restore!Undone
    <3>9. BackSoFar => BackSoFar'
      BY <3>2 DEF BackSoFar, Back, PathOf, Restore!Remaining, Restore!Candidates, Restore!Undone
    <3>10. Restore!MutationIsLogged => Restore!MutationIsLogged'
      BY <3>2 DEF Restore!MutationIsLogged
    <3> QED BY <3>1, <3>3, <3>4, <3>5, <3>6, <3>7, <3>8, <3>9, <3>10 DEF RestoreInv
  <2> QED BY <2>1, <2>2
<1>3. Inv => (part = "restore" => Restore!TypeOK /\ Restore!MutationIsLogged /\ Restore!StatusIsTrue)
  <2> SUFFICES ASSUME RestoreInv PROVE Restore!TypeOK /\ Restore!MutationIsLogged /\ Restore!StatusIsTrue
    OBVIOUS
  <2>f. RestoreTyped /\ LogsFollow /\ EffectsSoFar /\ BackSoFar /\ Restore!MutationIsLogged
    BY DEF RestoreInv
  <2>p. Len(plan) \in Nat /\ DOMAIN plan = 1..Len(plan)
    BY <2>f, PlanFacts
  <2>1. Restore!TypeOK
    <3>1. cmd.kind \in {"none", "apply", "rollback"}
      BY <2>f, CmdFacts
    <3>2. \A i \in DOMAIN plan : plan[i] \in Restore!Step
      BY <2>f DEF RestoreTyped
    <3> QED BY <2>f, <3>1, <3>2 DEF Restore!TypeOK, RestoreTyped, LogsFollow
  <2>2. ASSUME rsEdits = 0, txn.status = "applied", NEW x \in Paths, NEW i \in DOMAIN plan, plan[i].path = x,
               \A j \in DOMAIN plan : j > i => plan[j].path # x
        PROVE  rsFiles[x] = IF plan[i].op = "delete" THEN "none" ELSE "new"
    <3>1. DoneTo(Len(plan), {})
      BY <2>f, <2>2 DEF EffectsSoFar
    <3> QED BY <2>2, <2>p, <3>1 DEF DoneTo, Result
  <2>3. ASSUME rsEdits = 0, rb.status = "rolled_back", NEW x \in Paths
        PROVE  rsFiles[x] = before[x] \/ (rsFiles[x] = "old" /\ x \in archive)
    BY <2>f, <2>3 DEF BackSoFar, Back
  <2>4. Restore!StatusIsTrue
    BY <2>2, <2>3 DEF Restore!StatusIsTrue
  <2> QED BY <2>f, <2>1, <2>4
<1>4. ForeignStep \/ UNCHANGED restoreVars =>
        [\A x \in Paths : rsFiles[x] = "other" => rsFiles'[x] = "other" \/ rsEdits' # rsEdits
        ]_<<rsFiles, before, plan, archive, rsLocks, txn, rb, cmd, rsEdits, runs>>
  BY DEF ForeignStep, restoreVars
<1> QED
  BY <1>1, <1>2, <1>3, <1>4, PTL DEF SystemSpec, RestoreIsHonest, Restore!ForeignKept, Restore!vars

-----------------------------------------------------------------------------
(* EventRedrive.                                                             *)

EvRecords == [event : FailureEvents, replay : 0..EvMaxCount, status : {"appended", "acked", "failed"}]
EvTasks == [st : {"none", "queued", "completed", "failed", "deferred", "rejected"}, ready : Nat]
EvBuses == [log : Seq(EvRecords), letters : [FailureEvents -> Events!LetterType]]
EvWork == [event : FailureEvents \cup {None}, replay : 0..EvMaxCount, next : Nat, failed : BOOLEAN, pending : BOOLEAN]
InHand == {"publish", "republish", "reconcile", "policy"}

FilesShaped ==
  /\ log \in Seq(EvRecords) /\ letters \in [FailureEvents -> Events!LetterType]
  /\ task \in [Events!Deliveries -> EvTasks] /\ summaries \subseteq FailureEvents
WorkerShaped ==
  /\ wbus \in EvBuses /\ wpc \in {"off", "idle", "event", "letter", "summary", "dead"}
  /\ wpc \in {"event", "letter", "summary"} => wjob \in FailureEvents
TickShaped ==
  /\ sbus \in EvBuses
  /\ spc \in {"off", "recovery", "republish", "idle", "scan", "publish", "reconcile", "policy"}
  /\ todo \subseteq FailureEvents /\ at \in 0..EvMaxTime /\ evNow \in 0..EvMaxTime /\ evCur \in EvWork
  /\ spc \in InHand => evCur.event \in FailureEvents /\ evCur.replay \in 1..EvMaxCount /\ evCur.next > 0
  /\ spc \in {"publish", "republish"} => evCur.next = 1

\* The copies of a bus are behind the files, never beside them; of replays the
\* scheduler's is not even behind.
Copies(l, f) == \A k \in DOMAIN l : k \in DOMAIN f /\ f[k].event = l[k].event /\ f[k].replay = l[k].replay
WorkerBehind == Copies(wbus.log, log) /\ \A e \in FailureEvents : wbus.letters[e] # None => letters[e] # None
TickBehind == Copies(sbus.log, log)
ReplaysKnown ==
  spc \notin {"off", "idle"} => \A k \in DOMAIN log : log[k].replay > 0 => k \in DOMAIN sbus.log

\* The letter in hand and its replay.
LettersInHand == (\A e \in todo : letters[e] # None) /\ (spc \in InHand => letters[evCur.event] # None)
Unpublished ==
  spc \in {"publish", "republish"} => \A k \in DOMAIN log : log[k].event = evCur.event => log[k].replay = 0
Published == spc = "reconcile" => Events!HasEvent(log, evCur.event, evCur.replay)
DeliveredSoFar ==
  spc = "reconcile" /\ ~evCur.failed /\ ~evCur.pending =>
    \A i \in 1..EvPlan[evCur.event] : i < evCur.next => task[<<evCur.event, evCur.replay, i>>].st = "completed"

OneReplay ==
  \A j, k \in DOMAIN log : log[j].event = log[k].event /\ log[j].replay > 0 /\ log[k].replay > 0 => j = k
TasksPublished == \A d \in Events!Deliveries : task[d].st # "none" => Events!HasEvent(log, d[1], d[2])
AckedWasReplay == \A k \in DOMAIN log : log[k].status = "acked" => log[k].replay > 0
EvidenceSoFar ==
  /\ wpc = "letter" => Events!HasEvent(log, wjob, 0)
  /\ wpc = "summary" => letters[wjob] # None

LogSound == OneReplay /\ TasksPublished /\ AckedWasReplay /\ Events!AckedMeansDelivered /\ Events!EvidenceInOrder
FilesPart == FilesShaped /\ LogSound
WorkerPart == WorkerShaped /\ WorkerBehind /\ EvidenceSoFar
TickPart ==
  TickShaped /\ TickBehind /\ ReplaysKnown /\ LettersInHand /\ Unpublished /\ Published /\ DeliveredSoFar
EventsInv == FilesPart /\ WorkerPart /\ TickPart

\* What a step may do to the log: EventRedrive's LogKeepsHistory.
LogGrows ==
  \A k \in DOMAIN log :
    /\ k \in DOMAIN log'
    /\ log'[k].event = log[k].event /\ log'[k].replay = log[k].replay
    /\ log[k].status = "acked" => log'[k] = log[k]

LEMMA LetterFacts ==
  /\ \A e \in FailureEvents : EvPlan[e] \in Nat /\ EvDelay[e] \in Nat
  /\ EvMaxTime \in Nat /\ EvMaxCount \in Nat
  /\ None \notin [count : 0..EvMaxCount, due : 0..EvMaxTime]
  /\ None \in Events!LetterType
  /\ \A x \in Events!LetterType : x # None => x \in [count : 0..EvMaxCount, due : 0..EvMaxTime]
  /\ \A t \in Nat : Events!Saturating(t) \in 0..EvMaxTime
<1>1. /\ \A e \in FailureEvents : EvPlan[e] \in Nat /\ EvDelay[e] \in Nat
      /\ EvMaxTime \in Nat /\ EvMaxCount \in Nat
  BY EventsAssumption
<1>2. ASSUME None \in [count : 0..EvMaxCount, due : 0..EvMaxTime] PROVE FALSE
  <2>1. 0..EvMaxCount \subseteq Nat /\ 0..EvMaxTime \subseteq Nat
    BY <1>1
  <2>2. None \in [count : Nat, due : Nat]
    BY <1>2, <2>1
  <2> QED BY <2>2, EventsAssumption
<1>3. \A t \in Nat : Events!Saturating(t) \in 0..EvMaxTime
  BY <1>1 DEF Events!Saturating
<1> QED BY <1>1, <1>2, <1>3 DEF Events!LetterType

LEMMA DeliveryFacts ==
  /\ \A e \in FailureEvents, n \in 1..EvMaxCount : \A i \in 1..EvPlan[e] : <<e, n, i>> \in Events!Deliveries
  /\ \A d \in Events!Deliveries :
       \E e \in FailureEvents, n \in 1..EvMaxCount : \E i \in 1..EvPlan[e] : d = <<e, n, i>>
BY DEF Events!Deliveries

LEMMA AppendFacts ==
  ASSUME FilesShaped, NEW b, NEW e \in FailureEvents, NEW n \in 0..EvMaxCount, Events!AppendEvent(b, e, n)
  PROVE  /\ log' \in Seq(EvRecords) /\ Len(log) \in Nat /\ DOMAIN log = 1..Len(log) /\ DOMAIN log' = 1..(Len(log) + 1)
         /\ log'[Len(log) + 1] \in EvRecords
         /\ log'[Len(log) + 1].event = e /\ log'[Len(log) + 1].replay = n /\ log'[Len(log) + 1].status = "appended"
         /\ \A k \in DOMAIN log : k \in DOMAIN log' /\ log'[k] = log[k]
         /\ LogGrows
<1>1. log \in Seq(EvRecords) /\ Len(log) \in Nat /\ DOMAIN log = 1..Len(log)
  BY DEF FilesShaped
<1>2. PICK r : r = Events!Appended(e, n)
  OBVIOUS
<1>3. r \in EvRecords /\ r.event = e /\ r.replay = n /\ r.status = "appended"
  BY <1>2 DEF Events!Appended, EvRecords
<1>4. Events!PersistRecord(Len(log) + 1, r)
  BY <1>2 DEF Events!AppendEvent, Events!Reload, Events!Bus
<1>5. ~(Len(log) + 1 <= Len(log))
  BY <1>1
<1>6. log' = Append(log, r)
  BY <1>4, <1>5 DEF Events!PersistRecord
<1>7. /\ log' \in Seq(EvRecords) /\ DOMAIN log' = 1..(Len(log) + 1) /\ log'[Len(log) + 1] = r
      /\ \A k \in DOMAIN log : k \in DOMAIN log' /\ log'[k] = log[k]
  BY <1>1, <1>3, <1>6
<1> QED BY <1>1, <1>3, <1>7 DEF LogGrows

LEMMA StatusFacts ==
  ASSUME FilesShaped, NEW b, NEW e, NEW n, NEW s \in {"acked", "failed"}, Events!SetStatus(b, e, n, s)
  PROVE  /\ log' \in Seq(EvRecords) /\ DOMAIN log' = DOMAIN log /\ LogGrows
         /\ \A k \in DOMAIN log : log'[k].status = "acked" =>
              log[k].status = "acked" \/ (s = "acked" /\ log[k].event = e /\ log[k].replay = n)
<1>1. log \in Seq(EvRecords) /\ Len(log) \in Nat /\ DOMAIN log = 1..Len(log)
  BY DEF FilesShaped
<1>2. PICK k \in Events!Position(log, e, n) :
        IF log[k].status = "acked" THEN UNCHANGED log ELSE Events!PersistRecord(k, [log[k] EXCEPT !.status = s])
  BY DEF Events!SetStatus, Events!Reload, Events!Bus
<1>3. k \in DOMAIN log /\ log[k].event = e /\ log[k].replay = n /\ k <= Len(log)
  BY <1>1, <1>2 DEF Events!Position
<1>4. CASE log[k].status = "acked"
  BY <1>1, <1>2, <1>4 DEF LogGrows
<1>5. CASE log[k].status # "acked"
  <2>1. PICK r : r = [log[k] EXCEPT !.status = s]
    OBVIOUS
  <2>2. log[k] \in EvRecords
    BY <1>1, <1>3
  <2>3. r \in EvRecords /\ r.event = e /\ r.replay = n /\ r.status = s
    BY <1>3, <2>1, <2>2 DEF EvRecords
  <2>4. log' = [log EXCEPT ![k] = r]
    BY <1>2, <1>3, <1>5, <2>1 DEF Events!PersistRecord
  <2>5. log' \in Seq(EvRecords) /\ DOMAIN log' = DOMAIN log
    BY <1>1, <1>3, <2>3, <2>4
  <2>6. \A j \in DOMAIN log : log'[j] = IF j = k THEN r ELSE log[j]
    BY <1>1, <1>3, <2>4
  <2> QED BY <1>3, <1>5, <2>3, <2>5, <2>6 DEF LogGrows
<1> QED BY <1>4, <1>5

LEMMA HasEventStays ==
  ASSUME LogGrows, NEW e, NEW n, Events!HasEvent(log, e, n)
  PROVE  Events!HasEvent(log', e, n)
BY DEF LogGrows, Events!HasEvent, Events!Position

LEMMA CopiesStay ==
  ASSUME LogGrows, NEW l, Copies(l, log)
  PROVE  Copies(l, log')
BY DEF LogGrows, Copies

LEMMA UnchangedGrows == UNCHANGED log => LogGrows
BY DEF LogGrows

\* A new record keeps the log sound: a failure event always, a replay when it is
\* the first of its event.
LEMMA AppendSound ==
  ASSUME FilesShaped, LogSound, NEW b, NEW e \in FailureEvents, NEW n \in 0..EvMaxCount, Events!AppendEvent(b, e, n),
         n > 0 => \A k \in DOMAIN log : log[k].event = e => log[k].replay = 0,
         UNCHANGED <<letters, task, summaries>>
  PROVE  FilesShaped' /\ LogSound'
<1>a. /\ log' \in Seq(EvRecords) /\ Len(log) \in Nat /\ DOMAIN log = 1..Len(log) /\ DOMAIN log' = 1..(Len(log) + 1)
      /\ log'[Len(log) + 1].event = e /\ log'[Len(log) + 1].replay = n /\ log'[Len(log) + 1].status = "appended"
      /\ \A k \in DOMAIN log : k \in DOMAIN log' /\ log'[k] = log[k]
      /\ LogGrows
  BY AppendFacts
<1>m. n \in Nat
  BY LetterFacts
<1>b. \A k \in DOMAIN log' : k = Len(log) + 1 \/ k \in DOMAIN log
  BY <1>a
<1>1. FilesShaped'
  BY <1>a DEF FilesShaped
<1>2. OneReplay'
  <2> SUFFICES ASSUME NEW j \in DOMAIN log', NEW k \in DOMAIN log', log'[j].event = log'[k].event,
                      log'[j].replay > 0, log'[k].replay > 0
               PROVE  j = k
    BY DEF OneReplay
  <2>1. CASE j \in DOMAIN log /\ k \in DOMAIN log
    BY <1>a, <2>1 DEF LogSound, OneReplay
  <2>2. CASE j = Len(log) + 1 /\ k \in DOMAIN log
    BY <1>a, <2>2
  <2>3. CASE k = Len(log) + 1 /\ j \in DOMAIN log
    BY <1>a, <2>3
  <2> QED BY <1>b, <2>1, <2>2, <2>3
<1>3. TasksPublished' /\ Events!EvidenceInOrder'
  <2>1. \A x, m : Events!HasEvent(log, x, m) => Events!HasEvent(log', x, m)
    BY <1>a, HasEventStays
  <2> QED BY <2>1 DEF LogSound, TasksPublished, Events!EvidenceInOrder
<1>4. AckedWasReplay' /\ Events!AckedMeansDelivered'
  BY <1>a, <1>b DEF LogSound, AckedWasReplay, Events!AckedMeansDelivered
<1> QED BY <1>1, <1>2, <1>3, <1>4 DEF LogSound

LEMMA StatusSound ==
  ASSUME FilesShaped, LogSound, NEW b, NEW e, NEW n \in 1..EvMaxCount, NEW s \in {"acked", "failed"},
         Events!SetStatus(b, e, n, s),
         s = "acked" => \A i \in 1..EvPlan[e] : task[<<e, n, i>>].st = "completed",
         UNCHANGED <<letters, task, summaries>>
  PROVE  FilesShaped' /\ LogSound'
<1>a. /\ log' \in Seq(EvRecords) /\ DOMAIN log' = DOMAIN log /\ LogGrows
      /\ \A k \in DOMAIN log : log'[k].status = "acked" =>
           log[k].status = "acked" \/ (s = "acked" /\ log[k].event = e /\ log[k].replay = n)
  BY StatusFacts
<1>b. \A k \in DOMAIN log : log'[k].event = log[k].event /\ log'[k].replay = log[k].replay
  BY <1>a DEF LogGrows
<1>m. n > 0
  BY LetterFacts
<1>1. FilesShaped'
  BY <1>a DEF FilesShaped
<1>2. OneReplay'
  BY <1>a, <1>b DEF LogSound, OneReplay
<1>3. TasksPublished' /\ Events!EvidenceInOrder'
  <2>1. \A x, m : Events!HasEvent(log, x, m) => Events!HasEvent(log', x, m)
    BY <1>a, HasEventStays
  <2> QED BY <2>1 DEF LogSound, TasksPublished, Events!EvidenceInOrder
<1>4. AckedWasReplay' /\ Events!AckedMeansDelivered'
  BY <1>a, <1>b, <1>m DEF LogSound, AckedWasReplay, Events!AckedMeansDelivered
<1> QED BY <1>1, <1>2, <1>3, <1>4 DEF LogSound

LEMMA LetterSound ==
  ASSUME FilesShaped, LogSound, NEW e \in FailureEvents, NEW x \in Events!LetterType, x # None,
         Events!PutLetter(e, x), letters[e] # None \/ Events!HasEvent(log, e, 0),
         UNCHANGED <<log, task, summaries>>
  PROVE  /\ FilesShaped' /\ LogSound' /\ letters'[e] # None
         /\ \A y \in FailureEvents : letters[y] # None => letters'[y] # None
<1>1. letters' = [letters EXCEPT ![e] = x]
  BY DEF Events!PutLetter
<1>2. letters \in [FailureEvents -> Events!LetterType]
  BY DEF FilesShaped
<1>3. letters' \in [FailureEvents -> Events!LetterType] /\ \A y \in FailureEvents : letters'[y] = IF y = e THEN x ELSE letters[y]
  BY <1>1, <1>2
<1>4. FilesShaped'
  BY <1>3 DEF FilesShaped
<1>5. LogSound'
  BY <1>3 DEF LogSound, OneReplay, TasksPublished, AckedWasReplay, Events!AckedMeansDelivered, Events!EvidenceInOrder
<1> QED BY <1>3, <1>4, <1>5

\* A task may move, but not away from its completion.
LEMMA TaskSound ==
  ASSUME FilesShaped, LogSound, NEW d \in Events!Deliveries, NEW t \in EvTasks, task' = [task EXCEPT ![d] = t],
         task[d].st = "none" => Events!HasEvent(log, d[1], d[2]), task[d].st = "completed" => t.st = "completed",
         UNCHANGED <<log, letters, summaries>>
  PROVE  /\ FilesShaped' /\ LogSound'
         /\ \A x \in Events!Deliveries : task[x].st = "completed" => task'[x].st = "completed"
<1>1. task' \in [Events!Deliveries -> EvTasks] /\ \A x \in Events!Deliveries : task'[x] = IF x = d THEN t ELSE task[x]
  BY DEF FilesShaped
<1>2. FilesShaped'
  BY <1>1 DEF FilesShaped
<1>3. OneReplay' /\ AckedWasReplay' /\ Events!EvidenceInOrder'
  BY DEF LogSound, OneReplay, AckedWasReplay, Events!EvidenceInOrder
<1>4. TasksPublished'
  <2>1. ASSUME NEW x \in Events!Deliveries, task'[x].st # "none" PROVE Events!HasEvent(log, x[1], x[2])
    BY <1>1, <2>1 DEF LogSound, TasksPublished
  <2> QED BY <2>1 DEF TasksPublished
<1>5. \A x \in Events!Deliveries : task[x].st = "completed" => task'[x].st = "completed"
  BY <1>1
<1>6. Events!AckedMeansDelivered'
  <2> SUFFICES ASSUME NEW k \in DOMAIN log, log[k].status = "acked", NEW i \in 1..EvPlan[log[k].event]
               PROVE  task'[<<log[k].event, log[k].replay, i>>].st = "completed"
    BY DEF Events!AckedMeansDelivered
  <2>1. log[k] \in EvRecords
    BY DEF FilesShaped
  <2>2. log[k].event \in FailureEvents /\ log[k].replay \in 0..EvMaxCount /\ log[k].replay > 0
    BY <2>1 DEF EvRecords, LogSound, AckedWasReplay
  <2>3. log[k].replay \in 1..EvMaxCount
    BY <2>2, LetterFacts
  <2>4. <<log[k].event, log[k].replay, i>> \in Events!Deliveries
    BY <2>2, <2>3, DeliveryFacts
  <2>5. task[<<log[k].event, log[k].replay, i>>].st = "completed"
    BY DEF LogSound, Events!AckedMeansDelivered
  <2> QED BY <1>5, <2>4, <2>5
<1> QED BY <1>2, <1>3, <1>4, <1>5, <1>6 DEF LogSound

\* What a step of one thread leaves to the other.
LettersGrow == \A e \in FailureEvents : letters[e] # None => letters'[e] # None
DeliveriesStay == \A d \in Events!Deliveries : task[d].st = "completed" => task'[d].st = "completed"
NoNewReplay == \A k \in DOMAIN log' : log'[k].replay > 0 => k \in DOMAIN log

LEMMA FilesStay ==
  ASSUME FilesPart, UNCHANGED <<log, letters, task, summaries>>
  PROVE  FilesPart' /\ LogGrows /\ LettersGrow /\ DeliveriesStay /\ NoNewReplay
<1>1. FilesShaped' /\ LogSound'
  BY DEF FilesPart, FilesShaped, LogSound, OneReplay, TasksPublished, AckedWasReplay, Events!AckedMeansDelivered,
         Events!EvidenceInOrder
<1>2. LogGrows
  BY UnchangedGrows
<1> QED BY <1>1, <1>2 DEF FilesPart, LettersGrow, DeliveriesStay, NoNewReplay

LEMMA TickStays ==
  ASSUME FilesPart, TickPart, FilesPart', LogGrows, LettersGrow, DeliveriesStay, NoNewReplay,
         UNCHANGED <<sbus, spc, todo, evCur, at>>, evNow' \in 0..EvMaxTime
  PROVE  TickPart'
<1>a. TickShaped /\ TickBehind /\ ReplaysKnown /\ LettersInHand /\ Unpublished /\ Published /\ DeliveredSoFar
  BY DEF TickPart
<1>b. FilesShaped /\ FilesShaped'
  BY DEF FilesPart
<1>1. TickShaped'
  BY <1>a DEF TickShaped, InHand
<1>2. TickBehind'
  BY <1>a, CopiesStay DEF TickBehind
<1>3. ReplaysKnown'
  BY <1>a DEF ReplaysKnown, NoNewReplay, LogGrows
<1>4. LettersInHand'
  BY <1>a DEF LettersInHand, LettersGrow, TickShaped, InHand
<1>5. Unpublished'
  <2> SUFFICES ASSUME spc \in {"publish", "republish"}, NEW k \in DOMAIN log', log'[k].event = evCur.event
               PROVE  log'[k].replay = 0
    BY DEF Unpublished
  <2>1. log'[k].replay \in Nat
    <3>1. log'[k] \in EvRecords
      BY <1>b DEF FilesShaped
    <3> QED BY <3>1, LetterFacts DEF EvRecords
  <2>2. CASE k \in DOMAIN log
    BY <1>a, <2>2 DEF Unpublished, LogGrows
  <2>3. CASE k \notin DOMAIN log
    BY <2>1, <2>3 DEF NoNewReplay
  <2> QED BY <2>2, <2>3
<1>6. Published'
  BY <1>a, HasEventStays DEF Published
<1>7. DeliveredSoFar'
  <2> SUFFICES ASSUME spc = "reconcile", ~evCur.failed, ~evCur.pending, NEW i \in 1..EvPlan[evCur.event], i < evCur.next
               PROVE  task'[<<evCur.event, evCur.replay, i>>].st = "completed"
    BY DEF DeliveredSoFar
  <2>1. <<evCur.event, evCur.replay, i>> \in Events!Deliveries
    BY <1>a, DeliveryFacts DEF TickShaped, InHand
  <2>2. task[<<evCur.event, evCur.replay, i>>].st = "completed"
    BY <1>a DEF DeliveredSoFar
  <2> QED BY <2>1, <2>2 DEF DeliveriesStay
<1> QED BY <1>1, <1>2, <1>3, <1>4, <1>5, <1>6, <1>7 DEF TickPart

LEMMA WorkerStays ==
  ASSUME WorkerPart, LogGrows, LettersGrow, UNCHANGED <<wbus, wpc, wjob>>
  PROVE  WorkerPart'
<1>a. WorkerShaped /\ WorkerBehind /\ EvidenceSoFar
  BY DEF WorkerPart
<1>1. WorkerShaped'
  BY <1>a DEF WorkerShaped
<1>2. WorkerBehind'
  BY <1>a, CopiesStay DEF WorkerBehind, LettersGrow
<1>3. EvidenceSoFar'
  <2>1. wpc = "letter" => Events!HasEvent(log', wjob, 0)
    BY <1>a, HasEventStays DEF EvidenceSoFar
  <2>2. wpc = "summary" => letters'[wjob] # None
    BY <1>a DEF EvidenceSoFar, LettersGrow, WorkerShaped
  <2> QED BY <2>1, <2>2 DEF EvidenceSoFar
<1> QED BY <1>1, <1>2, <1>3 DEF WorkerPart

LEMMA BusFacts ==
  /\ \A l \in Seq(EvRecords), d \in [FailureEvents -> Events!LetterType] : Events!Bus(l, d) \in EvBuses
  /\ \A b \in EvBuses : b.log \in Seq(EvRecords) /\ b.letters \in [FailureEvents -> Events!LetterType]
  /\ Events!NoBus \in EvBuses /\ Events!NoBus.log = << >> /\ \A e \in FailureEvents : Events!NoBus.letters[e] = None
  /\ \A l : Copies(<< >>, l)
<1>1. << >> \in Seq(EvRecords) /\ [e \in FailureEvents |-> None] \in [FailureEvents -> Events!LetterType]
  BY LetterFacts
<1>2. \A l \in Seq(EvRecords), d \in [FailureEvents -> Events!LetterType] : Events!Bus(l, d) \in EvBuses
  BY DEF Events!Bus, EvBuses
<1>3. \A b \in EvBuses : b.log \in Seq(EvRecords) /\ b.letters \in [FailureEvents -> Events!LetterType]
  BY DEF EvBuses
<1>4. Events!NoBus \in EvBuses
  BY <1>1, <1>2 DEF Events!NoBus
<1>5. Events!NoBus.log = << >> /\ \A e \in FailureEvents : Events!NoBus.letters[e] = None
  BY DEF Events!NoBus, Events!Bus
<1>6. \A l : Copies(<< >>, l)
  BY DEF Copies
<1> QED BY <1>1, <1>2, <1>3, <1>4, <1>5, <1>6

-----------------------------------------------------------------------------
(* The task worker's steps.                                                  *)

LEMMA TaskFails ==
  ASSUME EventsInv, NEW e \in FailureEvents, Events!FailTask(e)
  PROVE  EventsInv' /\ LogGrows
<1>1. wpc' = "event" /\ wjob' = e /\ UNCHANGED <<log, letters, task, summaries, wbus, sbus, spc, todo, evCur, at, evNow>>
  BY DEF Events!FailTask, Events!tick, Events!bounded
<1>2. FilesPart /\ WorkerPart /\ TickPart
  BY DEF EventsInv
<1>3. FilesPart' /\ LogGrows /\ LettersGrow /\ DeliveriesStay /\ NoNewReplay
  BY <1>1, <1>2, FilesStay
<1>4. TickPart'
  BY <1>1, <1>2, <1>3, TickStays DEF TickPart, TickShaped
<1>5. WorkerPart'
  BY <1>1, <1>2 DEF WorkerPart, WorkerShaped, WorkerBehind, EvidenceSoFar
<1> QED BY <1>3, <1>4, <1>5 DEF EventsInv

LEMMA EventEnsured ==
  ASSUME EventsInv, Events!EnsureEvent
  PROVE  EventsInv' /\ LogGrows
<1>1. /\ wpc = "event" /\ wpc' = "letter" /\ wjob' = wjob
      /\ UNCHANGED <<letters, task, summaries, sbus, spc, todo, evCur, at, evNow>>
  BY DEF Events!EnsureEvent, Events!tick, Events!bounded
<1>2. FilesPart /\ WorkerPart /\ TickPart /\ wjob \in FailureEvents /\ 0 \in 0..EvMaxCount
  BY <1>1, LetterFacts DEF EventsInv, WorkerPart, WorkerShaped
<1>3. CASE Events!HasEvent(wbus.log, wjob, 0) /\ UNCHANGED <<log, wbus>>
  <2>1. FilesPart' /\ LogGrows /\ LettersGrow /\ DeliveriesStay /\ NoNewReplay
    BY <1>1, <1>2, <1>3, FilesStay
  <2>2. TickPart'
    BY <1>1, <1>2, <2>1, TickStays DEF TickPart, TickShaped
  <2>3. Events!HasEvent(log, wjob, 0)
    BY <1>2, <1>3 DEF WorkerPart, WorkerBehind, Copies, Events!HasEvent, Events!Position
  <2>4. WorkerPart'
    BY <1>1, <1>2, <1>3, <2>3 DEF WorkerPart, WorkerShaped, WorkerBehind, EvidenceSoFar
  <2> QED BY <2>1, <2>2, <2>4 DEF EventsInv
<1>4. CASE ~Events!HasEvent(wbus.log, wjob, 0) /\ Events!AppendEvent(wbus, wjob, 0) /\ wbus' = [wbus EXCEPT !.log = log']
  <2>1. FilesPart'
    BY <1>1, <1>2, <1>4, AppendSound DEF FilesPart
  <2>2. /\ log' \in Seq(EvRecords) /\ DOMAIN log = 1..Len(log) /\ DOMAIN log' = 1..(Len(log) + 1) /\ Len(log) \in Nat
        /\ log'[Len(log) + 1].event = wjob /\ log'[Len(log) + 1].replay = 0 /\ LogGrows
    BY <1>2, <1>4, AppendFacts DEF FilesPart
  <2>3. LettersGrow /\ DeliveriesStay
    BY <1>1 DEF LettersGrow, DeliveriesStay
  <2>4. NoNewReplay
    <3>1. ASSUME NEW k \in DOMAIN log', log'[k].replay > 0 PROVE k \in DOMAIN log
      <4>1. k # Len(log) + 1
        BY <2>2, <3>1
      <4> QED BY <2>2, <4>1
    <3> QED BY <3>1 DEF NoNewReplay
  <2>5. TickPart'
    BY <1>1, <1>2, <2>1, <2>2, <2>3, <2>4, TickStays DEF TickPart, TickShaped
  <2>6. Events!HasEvent(log', wjob, 0)
    <3>1. Len(log) + 1 \in DOMAIN log'
      BY <2>2
    <3> QED BY <2>2, <3>1 DEF Events!HasEvent, Events!Position
  <2>7. wbus' \in EvBuses /\ wbus'.log = log' /\ wbus'.letters = wbus.letters
    BY <1>2, <1>4, <2>2 DEF WorkerPart, WorkerShaped, EvBuses
  <2>8. WorkerPart'
    BY <1>1, <1>2, <2>6, <2>7 DEF WorkerPart, WorkerShaped, WorkerBehind, EvidenceSoFar, Copies
  <2> QED BY <2>1, <2>2, <2>5, <2>8 DEF EventsInv
<1> QED BY <1>3, <1>4 DEF Events!EnsureEvent

LEMMA DeadLetterRecorded ==
  ASSUME EventsInv, Events!RecordDeadLetter
  PROVE  EventsInv' /\ LogGrows
<1>1. /\ wpc = "letter" /\ wpc' = "summary" /\ wjob' = wjob
      /\ UNCHANGED <<log, task, summaries, sbus, spc, todo, evCur, at, evNow>>
  BY DEF Events!RecordDeadLetter, Events!tick, Events!bounded
<1>2. FilesPart /\ WorkerPart /\ TickPart /\ wjob \in FailureEvents /\ Events!HasEvent(log, wjob, 0) /\ evNow \in 0..EvMaxTime
  BY <1>1 DEF EventsInv, WorkerPart, WorkerShaped, EvidenceSoFar, TickPart, TickShaped
<1>3. CASE wbus.letters[wjob] # None /\ UNCHANGED <<letters, wbus>>
  <2>1. FilesPart' /\ LogGrows /\ LettersGrow /\ DeliveriesStay /\ NoNewReplay
    BY <1>1, <1>2, <1>3, FilesStay
  <2>2. TickPart'
    BY <1>1, <1>2, <2>1, TickStays
  <2>3. WorkerPart'
    BY <1>1, <1>2, <1>3 DEF WorkerPart, WorkerShaped, WorkerBehind, EvidenceSoFar
  <2> QED BY <2>1, <2>2, <2>3 DEF EventsInv
<1>4. CASE Events!PutLetter(wjob, Events!NewLetter(wjob)) /\ wbus' = [wbus EXCEPT !.letters = letters']
  <2>1. PICK x : x = Events!NewLetter(wjob)
    OBVIOUS
  <2>2. x \in Events!LetterType /\ x # None
    <3>1. evNow + EvDelay[wjob] \in Nat
      BY <1>2, LetterFacts
    <3>2. x \in [count : 0..EvMaxCount, due : 0..EvMaxTime]
      BY <2>1, <3>1, LetterFacts DEF Events!NewLetter
    <3> QED BY <3>2, LetterFacts DEF Events!LetterType
  <2>3. FilesShaped' /\ LogSound' /\ letters'[wjob] # None /\ \A y \in FailureEvents : letters[y] # None => letters'[y] # None
    BY <1>1, <1>2, <1>4, <2>1, <2>2, LetterSound DEF FilesPart
  <2>4. FilesPart' /\ LogGrows /\ LettersGrow /\ DeliveriesStay /\ NoNewReplay
    BY <1>1, <2>3, UnchangedGrows DEF FilesPart, LettersGrow, DeliveriesStay, NoNewReplay
  <2>5. TickPart'
    BY <1>1, <1>2, <2>4, TickStays
  <2>6. wbus' \in EvBuses /\ wbus'.log = wbus.log /\ wbus'.letters = letters'
    BY <1>2, <1>4, <2>3 DEF WorkerPart, WorkerShaped, EvBuses, FilesShaped
  <2>7. WorkerPart'
    BY <1>1, <1>2, <2>3, <2>6 DEF WorkerPart, WorkerShaped, WorkerBehind, EvidenceSoFar
  <2> QED BY <2>4, <2>5, <2>7 DEF EventsInv
<1> QED BY <1>3, <1>4 DEF Events!RecordDeadLetter

LEMMA EvidenceCheckpointed ==
  ASSUME EventsInv, Events!Checkpoint
  PROVE  EventsInv' /\ LogGrows
<1>1. /\ wpc = "summary" /\ wpc' = "idle" /\ summaries' = summaries \cup {wjob}
      /\ UNCHANGED <<log, letters, task, wbus, sbus, spc, todo, evCur, at, evNow>>
  BY DEF Events!Checkpoint, Events!tick, Events!bounded
<1>2. /\ FilesShaped /\ LogSound /\ FilesPart /\ WorkerPart /\ TickPart /\ wjob \in FailureEvents /\ letters[wjob] # None
      /\ evNow \in 0..EvMaxTime
  BY <1>1 DEF EventsInv, FilesPart, WorkerPart, WorkerShaped, EvidenceSoFar, TickPart, TickShaped
<1>3. FilesShaped'
  BY <1>1, <1>2 DEF FilesShaped
<1>4. LogSound'
  BY <1>1, <1>2 DEF LogSound, OneReplay, TasksPublished, AckedWasReplay, Events!AckedMeansDelivered,
                    Events!EvidenceInOrder
<1>5. FilesPart' /\ LogGrows /\ LettersGrow /\ DeliveriesStay /\ NoNewReplay
  BY <1>1, <1>3, <1>4, UnchangedGrows DEF FilesPart, LettersGrow, DeliveriesStay, NoNewReplay
<1>6. TickPart'
  BY <1>1, <1>2, <1>5, TickStays
<1>7. WorkerPart'
  BY <1>1, <1>2 DEF WorkerPart, WorkerShaped, WorkerBehind, EvidenceSoFar
<1> QED BY <1>5, <1>6, <1>7 DEF EventsInv

LEMMA DeliveryRuns ==
  ASSUME EventsInv, NEW d \in Events!Deliveries, Events!RunDelivery(d)
  PROVE  EventsInv' /\ LogGrows
<1>1. /\ task[d].st = "queued" /\ UNCHANGED <<log, letters, summaries, wbus, wpc, wjob, sbus, spc, todo, evCur, at, evNow>>
      /\ \E st \in {"completed", "failed", "rejected"} : task' = [task EXCEPT ![d].st = st]
  BY DEF Events!RunDelivery, Events!worker, Events!tick
<1>2. FilesShaped /\ LogSound /\ FilesPart /\ WorkerPart /\ TickPart /\ evNow \in 0..EvMaxTime
  BY DEF EventsInv, FilesPart, TickPart, TickShaped
<1>3. PICK st \in {"completed", "failed", "rejected"} : task' = [task EXCEPT ![d].st = st]
  BY <1>1
<1>4. task[d] \in EvTasks
  BY <1>2 DEF FilesShaped
<1>5. PICK t : t = [task[d] EXCEPT !.st = st]
  OBVIOUS
<1>6. t \in EvTasks
  BY <1>4, <1>5 DEF EvTasks
<1>7. task' = [task EXCEPT ![d] = t]
  BY <1>3, <1>5
<1>8. FilesShaped' /\ LogSound' /\ \A x \in Events!Deliveries : task[x].st = "completed" => task'[x].st = "completed"
  BY <1>1, <1>2, <1>6, <1>7, TaskSound
<1>9. FilesPart' /\ LogGrows /\ LettersGrow /\ DeliveriesStay /\ NoNewReplay
  BY <1>1, <1>8, UnchangedGrows DEF FilesPart, LettersGrow, DeliveriesStay, NoNewReplay
<1>10. TickPart' /\ WorkerPart'
  BY <1>1, <1>2, <1>9, TickStays, WorkerStays
<1> QED BY <1>9, <1>10 DEF EventsInv

LEMMA WorkerThreadDies ==
  ASSUME EventsInv, Events!WorkerDies
  PROVE  EventsInv' /\ LogGrows
<1>1. /\ wpc' = "dead" /\ wbus' = Events!NoBus
      /\ UNCHANGED <<log, letters, task, summaries, sbus, spc, todo, evCur, at, evNow>>
  BY DEF Events!WorkerDies, Events!tick
<1>2. FilesPart /\ WorkerPart /\ TickPart /\ evNow \in 0..EvMaxTime
  BY DEF EventsInv, TickPart, TickShaped
<1>3. FilesPart' /\ LogGrows /\ LettersGrow /\ DeliveriesStay /\ NoNewReplay
  BY <1>1, <1>2, FilesStay
<1>4. TickPart'
  BY <1>1, <1>2, <1>3, TickStays
<1>5. WorkerPart'
  BY <1>1, BusFacts DEF WorkerPart, WorkerShaped, WorkerBehind, EvidenceSoFar
<1> QED BY <1>3, <1>4, <1>5 DEF EventsInv

-----------------------------------------------------------------------------
(* Recovery and the scheduler's tick.                                        *)

LEMMA NoWorkFacts == Events!NoWork \in EvWork
BY LetterFacts DEF Events!NoWork, EvWork

\* The tick is over, or has nothing in hand.
LEMMA TickAtRest ==
  ASSUME sbus' \in EvBuses, Copies(sbus'.log, log'), spc' \in {"off", "recovery", "idle", "scan"}, todo' \subseteq FailureEvents,
         at' \in 0..EvMaxTime, evNow' \in 0..EvMaxTime, evCur' \in EvWork, \A e \in todo' : letters'[e] # None,
         spc' \notin {"off", "idle"} => \A k \in DOMAIN log' : log'[k].replay > 0 => k \in DOMAIN sbus'.log
  PROVE  TickPart'
<1>1. TickShaped' /\ TickBehind' /\ ReplaysKnown' /\ LettersInHand'
  BY DEF TickShaped, TickBehind, ReplaysKnown, LettersInHand, InHand
<1>2. Unpublished' /\ Published' /\ DeliveredSoFar'
  BY DEF Unpublished, Published, DeliveredSoFar
<1> QED BY <1>1, <1>2 DEF TickPart

LEMMA BusOpens ==
  ASSUME EventsInv, UNCHANGED <<log, letters, task, summaries, wbus, wpc, wjob, evCur, evNow>>, at' = evNow,
         sbus' = Events!Bus(log, letters), spc' \in {"recovery", "scan"}, todo' = {e \in FailureEvents : letters[e] # None}
  PROVE  EventsInv' /\ LogGrows
<1>1. FilesPart /\ WorkerPart /\ TickShaped /\ FilesShaped
  BY DEF EventsInv, TickPart, FilesPart
<1>2. FilesPart' /\ LogGrows /\ LettersGrow
  BY <1>1, FilesStay
<1>3. WorkerPart'
  BY <1>1, <1>2, WorkerStays
<1>4. sbus' \in EvBuses /\ sbus'.log = log
  BY <1>1, BusFacts DEF FilesShaped, Events!Bus
<1>5. Copies(sbus'.log, log')
  BY <1>4 DEF Copies
<1>6. TickPart'
  BY <1>1, <1>4, <1>5, TickAtRest DEF TickShaped
<1> QED BY <1>2, <1>3, <1>6 DEF EventsInv

LEMMA TickOpens ==
  ASSUME EventsInv, Events!OpenTick
  PROVE  EventsInv' /\ LogGrows
BY BusOpens DEF Events!OpenTick, Events!worker, Events!bounded

LEMMA DaemonStarts ==
  ASSUME EventsInv, Events!StartDaemon
  PROVE  EventsInv' /\ LogGrows
BY BusOpens DEF Events!StartDaemon, Events!worker, Events!bounded

LEMMA RecoveryEnds ==
  ASSUME EventsInv, Events!EndRecovery
  PROVE  EventsInv' /\ LogGrows
<1>1. /\ spc' = "idle" /\ sbus' = Events!NoBus /\ wpc' = "idle" /\ wbus' = Events!Bus(log, letters)
      /\ UNCHANGED <<log, letters, task, summaries, wjob, todo, evCur, at, evNow>>
  BY DEF Events!EndRecovery, Events!bounded
<1>2. FilesPart /\ WorkerPart /\ TickShaped /\ FilesShaped /\ LettersInHand
  BY DEF EventsInv, TickPart, FilesPart
<1>3. FilesPart' /\ LogGrows
  BY <1>1, <1>2, FilesStay
<1>4. TickPart'
  BY <1>1, <1>2, BusFacts, TickAtRest DEF TickShaped, LettersInHand
<1>5. wbus' \in EvBuses /\ wbus'.log = log /\ wbus'.letters = letters
  BY <1>1, <1>2, BusFacts DEF FilesShaped, Events!Bus
<1>6. WorkerPart'
  BY <1>1, <1>5 DEF WorkerPart, WorkerShaped, WorkerBehind, EvidenceSoFar, Copies
<1> QED BY <1>3, <1>4, <1>6 DEF EventsInv

LEMMA TickEnds ==
  ASSUME EventsInv, Events!EndTick
  PROVE  EventsInv' /\ LogGrows
<1>1. /\ spc' = "idle" /\ sbus' = Events!NoBus /\ at' = 0
      /\ UNCHANGED <<log, letters, task, summaries, wbus, wpc, wjob, todo, evCur, evNow>>
  BY DEF Events!EndTick, Events!worker, Events!bounded
<1>2. FilesPart /\ WorkerPart /\ TickShaped /\ LettersInHand
  BY DEF EventsInv, TickPart
<1>3. FilesPart' /\ LogGrows /\ LettersGrow
  BY <1>1, <1>2, FilesStay
<1>4. WorkerPart' /\ 0 \in 0..EvMaxTime
  BY <1>1, <1>2, <1>3, WorkerStays, LetterFacts
<1>5. TickPart'
  BY <1>1, <1>2, <1>4, BusFacts, TickAtRest DEF TickShaped, LettersInHand
<1> QED BY <1>3, <1>4, <1>5 DEF EventsInv

LEMMA ProcessDown ==
  ASSUME EventsInv, Events!Down
  PROVE  EventsInv' /\ LogGrows
<1>1. /\ spc' = "off" /\ sbus' = Events!NoBus /\ todo' = {} /\ evCur' = Events!NoWork /\ at' = 0
      /\ wpc' = "off" /\ wbus' = Events!NoBus
      /\ UNCHANGED <<log, letters, task, summaries, evNow>>
  BY DEF Events!Down
<1>2. FilesPart /\ evNow \in 0..EvMaxTime /\ 0 \in 0..EvMaxTime
  BY LetterFacts DEF EventsInv, TickPart, TickShaped
<1>3. FilesPart' /\ LogGrows
  BY <1>1, <1>2, FilesStay
<1>4. TickPart'
  BY <1>1, <1>2, BusFacts, NoWorkFacts, TickAtRest
<1>5. WorkerPart'
  BY <1>1, BusFacts DEF WorkerPart, WorkerShaped, WorkerBehind, EvidenceSoFar
<1> QED BY <1>3, <1>4, <1>5 DEF EventsInv

LEMMA TimePasses ==
  ASSUME EventsInv, Events!Tick
  PROVE  EventsInv' /\ LogGrows
<1>1. /\ evNow < EvMaxTime /\ evNow' = evNow + 1
      /\ UNCHANGED <<log, letters, task, summaries, wbus, wpc, wjob, sbus, spc, todo, evCur, at>>
  BY DEF Events!Tick, Events!worker, Events!tick
<1>2. FilesPart /\ WorkerPart /\ TickPart /\ evNow \in 0..EvMaxTime
  BY DEF EventsInv, TickPart, TickShaped
<1>3. evNow' \in 0..EvMaxTime
  BY <1>1, <1>2, LetterFacts
<1>4. FilesPart' /\ LogGrows /\ LettersGrow /\ DeliveriesStay /\ NoNewReplay
  BY <1>1, <1>2, FilesStay
<1>5. TickPart' /\ WorkerPart'
  BY <1>1, <1>2, <1>3, <1>4, TickStays, WorkerStays
<1> QED BY <1>4, <1>5 DEF EventsInv

-----------------------------------------------------------------------------
(* A letter is visited.                                                      *)

\* The scheduler's copy knows every replay, so that one it does not have was
\* never published, and the latest it has is in the log.
LEMMA NoneKnown ==
  ASSUME EventsInv, spc \in {"recovery", "scan"}, NEW e \in FailureEvents, Events!Replays(sbus.log, e) = {}
  PROVE  \A k \in DOMAIN log : log[k].event = e => log[k].replay = 0
<1> SUFFICES ASSUME NEW k \in DOMAIN log, log[k].event = e, log[k].replay # 0 PROVE FALSE
  OBVIOUS
<1>1. FilesShaped /\ TickBehind /\ ReplaysKnown
  BY DEF EventsInv, FilesPart, TickPart
<1>2. log[k] \in EvRecords
  BY <1>1 DEF FilesShaped
<1>3. log[k].replay \in Nat
  BY <1>2, LetterFacts DEF EvRecords
<1>4. log[k].replay > 0
  BY <1>3
<1>5. k \in DOMAIN sbus.log
  BY <1>1, <1>4 DEF ReplaysKnown
<1>6. sbus.log[k].event = e /\ sbus.log[k].replay > 0
  BY <1>1, <1>4, <1>5 DEF TickBehind, Copies
<1> QED BY <1>5, <1>6 DEF Events!Replays

LEMMA LatestFacts ==
  ASSUME EventsInv, NEW e \in FailureEvents, Events!Replays(sbus.log, e) # {}
  PROVE  /\ Events!LatestReplay(sbus.log, e).replay \in 1..EvMaxCount
         /\ Events!HasEvent(log, e, Events!LatestReplay(sbus.log, e).replay)
<1>1. sbus \in EvBuses /\ TickBehind
  BY DEF EventsInv, TickPart, TickShaped
<1>2. sbus.log \in Seq(EvRecords) /\ Len(sbus.log) \in Nat /\ DOMAIN sbus.log = 1..Len(sbus.log)
  BY <1>1, BusFacts
<1>3. Events!Replays(sbus.log, e) \subseteq 0..Len(sbus.log)
  BY <1>2 DEF Events!Replays
<1>4. \E n \in Events!Replays(sbus.log, e) : \A m \in Events!Replays(sbus.log, e) : m <= n
  BY <1>2, <1>3, NewestExists
<1>5. PICK k : k = CHOOSE n \in Events!Replays(sbus.log, e) : \A j \in Events!Replays(sbus.log, e) : j <= n
  OBVIOUS
<1>6. k \in Events!Replays(sbus.log, e)
  BY <1>4, <1>5, Zenon
<1>7. Events!LatestReplay(sbus.log, e) = sbus.log[k]
  BY <1>5 DEF Events!LatestReplay
<1>8. k \in DOMAIN sbus.log /\ sbus.log[k].event = e /\ sbus.log[k].replay > 0
  BY <1>6 DEF Events!Replays
<1>9. sbus.log[k] \in EvRecords
  BY <1>2, <1>8
<1>10. sbus.log[k].replay \in 1..EvMaxCount
  BY <1>8, <1>9, LetterFacts DEF EvRecords
<1>11. k \in DOMAIN log /\ log[k].event = e /\ log[k].replay = sbus.log[k].replay
  BY <1>1, <1>8 DEF TickBehind, Copies
<1>12. Events!HasEvent(log, e, sbus.log[k].replay)
  BY <1>11 DEF Events!HasEvent, Events!Position
<1> QED BY <1>7, <1>10, <1>12

WorkOn(e, n) == [event |-> e, replay |-> n, next |-> 1, failed |-> FALSE, pending |-> FALSE]

LEMMA WorkFacts ==
  ASSUME NEW e \in FailureEvents, NEW n \in 1..EvMaxCount
  PROVE  WorkOn(e, n) \in EvWork /\ WorkOn(e, n).event = e /\ WorkOn(e, n).replay = n /\ WorkOn(e, n).next = 1
<1>1. n \in 0..EvMaxCount
  BY LetterFacts
<1>2. WorkOn(e, n) \in EvWork
  BY <1>1 DEF EvWork, WorkOn
<1>3. WorkOn(e, n).event = e /\ WorkOn(e, n).replay = n /\ WorkOn(e, n).next = 1
  BY DEF WorkOn
<1> QED BY <1>2, <1>3

\* A letter that has no replay is counted and its replay is next.
LEMMA LetterRedriven ==
  ASSUME EventsInv, spc \in {"recovery", "scan"}, NEW e \in todo, Events!Replays(sbus.log, e) = {},
         NEW due \in 0..EvMaxTime, NEW where \in {"publish", "republish"}, Events!Redrive(e, due, where),
         todo' = todo \ {e}, UNCHANGED <<log, task, summaries, wbus, wpc, wjob, at, evNow>>
  PROVE  EventsInv' /\ LogGrows
<1>1. FilesShaped /\ LogSound /\ WorkerPart /\ TickShaped /\ TickBehind /\ ReplaysKnown /\ LettersInHand
  BY DEF EventsInv, FilesPart, TickPart
<1>2. e \in FailureEvents /\ letters[e] # None /\ letters \in [FailureEvents -> Events!LetterType]
  BY <1>1 DEF TickShaped, LettersInHand, FilesShaped
<1>3. letters[e] \in [count : 0..EvMaxCount, due : 0..EvMaxTime]
  BY <1>2, LetterFacts
<1>4. PICK n : n = letters[e].count + 1
  OBVIOUS
<1>5. /\ letters[e].count < EvMaxCount /\ Events!PutLetter(e, [count |-> n, due |-> due])
      /\ evCur' = [Events!NoWork EXCEPT !.event = e, !.replay = n, !.next = 1]
      /\ sbus' = [sbus EXCEPT !.letters = letters'] /\ spc' = where
  BY <1>4 DEF Events!Redrive, Events!Reload, Events!Bus
<1>6. n \in 1..EvMaxCount /\ n \in 0..EvMaxCount
  <2>1. letters[e].count \in 0..EvMaxCount
    BY <1>3
  <2> QED BY <1>4, <1>5, <2>1, LetterFacts
<1>7. PICK x : x = [count |-> n, due |-> due]
  OBVIOUS
<1>8. x \in [count : 0..EvMaxCount, due : 0..EvMaxTime]
  BY <1>6, <1>7
<1>9. x \in Events!LetterType /\ x # None
  BY <1>8, LetterFacts DEF Events!LetterType
<1>10. FilesShaped' /\ LogSound' /\ letters'[e] # None /\ \A y \in FailureEvents : letters[y] # None => letters'[y] # None
  BY <1>1, <1>2, <1>5, <1>7, <1>9, LetterSound
<1>11. FilesPart' /\ LogGrows /\ LettersGrow
  BY <1>10, UnchangedGrows DEF FilesPart, LettersGrow
<1>12. WorkerPart'
  BY <1>1, <1>11, WorkerStays
<1>20. evCur' = WorkOn(e, n)
  BY <1>5 DEF WorkOn, Events!NoWork
<1>13. evCur' \in EvWork /\ evCur'.event = e /\ evCur'.replay = n /\ evCur'.next = 1
  BY <1>2, <1>6, <1>20, WorkFacts
<1>14. sbus' \in EvBuses /\ sbus'.log = sbus.log
  BY <1>1, <1>5, <1>10 DEF TickShaped, EvBuses, FilesShaped
<1>15. TickShaped'
  BY <1>1, <1>2, <1>5, <1>6, <1>13, <1>14 DEF TickShaped
<1>16. TickBehind' /\ ReplaysKnown'
  BY <1>1, <1>14 DEF TickBehind, ReplaysKnown
<1>17. LettersInHand'
  BY <1>1, <1>10, <1>13 DEF LettersInHand, TickShaped
<1>18. Unpublished'
  BY <1>2, <1>13, NoneKnown DEF Unpublished
<1>19. Published' /\ DeliveredSoFar'
  BY <1>5 DEF Published, DeliveredSoFar
<1> QED BY <1>11, <1>12, <1>15, <1>16, <1>17, <1>18, <1>19 DEF EventsInv, TickPart

LEMMA LetterSkipped ==
  ASSUME EventsInv, spc \in {"recovery", "scan"}, NEW e, todo' = todo \ {e},
         UNCHANGED <<log, letters, task, summaries, wbus, wpc, wjob, sbus, spc, evCur, at, evNow>>
  PROVE  EventsInv' /\ LogGrows
<1>1. FilesPart /\ WorkerPart /\ TickShaped /\ TickBehind /\ ReplaysKnown /\ LettersInHand
  BY DEF EventsInv, TickPart
<1>2. FilesPart' /\ LogGrows /\ LettersGrow
  BY <1>1, FilesStay
<1>3. WorkerPart'
  BY <1>1, <1>2, WorkerStays
<1>4. TickPart'
  BY <1>1, TickAtRest DEF TickShaped, TickBehind, ReplaysKnown, LettersInHand
<1> QED BY <1>2, <1>3, <1>4 DEF EventsInv

LEMMA EventRecovered ==
  ASSUME EventsInv, NEW e \in FailureEvents, Events!RecoverEvent(e)
  PROVE  EventsInv' /\ LogGrows
<1>1. /\ spc = "recovery" /\ e \in todo /\ todo' = todo \ {e}
      /\ UNCHANGED <<log, task, summaries, wbus, wpc, wjob, at, evNow>>
  BY DEF Events!RecoverEvent, Events!worker, Events!bounded
<1>2. CASE UNCHANGED <<letters, sbus, spc, evCur>>
  BY <1>1, <1>2, LetterSkipped
<1>3. CASE /\ Events!RecoveryRedrives(e)
           /\ Events!Redrive(e, Events!Saturating(EvDelay[e] * (Events!Reload(sbus).letters[e].count + 1)), "republish")
  <2>1. PICK t : t = EvDelay[e] * (letters[e].count + 1)
    OBVIOUS
  <2>2. t \in Nat
    <3>1. FilesShaped /\ letters[e] # None
      BY <1>1 DEF EventsInv, FilesPart, TickPart, LettersInHand
    <3>2. letters[e] \in [count : 0..EvMaxCount, due : 0..EvMaxTime]
      BY <3>1, LetterFacts DEF FilesShaped
    <3>3. letters[e].count + 1 \in Nat /\ EvDelay[e] \in Nat
      BY <3>2, LetterFacts
    <3> QED BY <2>1, <3>3
  <2>3. PICK due \in 0..EvMaxTime : due = Events!Saturating(t)
    BY <2>2, LetterFacts
  <2>4. Events!Redrive(e, due, "republish")
    BY <1>3, <2>1, <2>3 DEF Events!Reload, Events!Bus
  <2>5. Events!Replays(sbus.log, e) = {}
    BY <1>3 DEF Events!RecoveryRedrives
  <2> QED BY <1>1, <2>4, <2>5, LetterRedriven
<1> QED BY <1>2, <1>3 DEF Events!RecoverEvent

LEMMA LetterVisited ==
  ASSUME EventsInv, NEW e \in FailureEvents, Events!Visit(e)
  PROVE  EventsInv' /\ LogGrows
<1>1. /\ spc = "scan" /\ e \in todo /\ todo' = todo \ {e}
      /\ UNCHANGED <<log, task, summaries, wbus, wpc, wjob, at, evNow>>
  BY DEF Events!Visit, Events!worker, Events!bounded
<1>2. CASE UNCHANGED <<letters, sbus, spc, evCur>>
  BY <1>1, <1>2, LetterSkipped
<1>3. CASE ~Events!Resumes(e) /\ Events!Redrive(e, at, "publish")
  <2>1. PICK due \in 0..EvMaxTime : due = at
    BY DEF EventsInv, TickPart, TickShaped
  <2>2. Events!Redrive(e, due, "publish") /\ Events!Replays(sbus.log, e) = {}
    BY <1>3, <2>1 DEF Events!Resumes
  <2> QED BY <1>1, <2>2, LetterRedriven
<1>4. CASE /\ Events!Resumes(e) /\ spc' = "reconcile" /\ UNCHANGED <<letters, sbus>>
           /\ evCur' = [Events!NoWork EXCEPT !.event = e, !.next = 1, !.replay = Events!LatestReplay(sbus.log, e).replay]
  <2>1. PICK n : n = Events!LatestReplay(sbus.log, e).replay
    OBVIOUS
  <2>2. n \in 1..EvMaxCount /\ Events!HasEvent(log, e, n)
    BY <1>4, <2>1, LatestFacts DEF Events!Resumes
  <2>3. evCur' = WorkOn(e, n)
    BY <1>4, <2>1 DEF Events!NoWork, WorkOn
  <2>4. evCur' \in EvWork /\ evCur'.event = e /\ evCur'.replay = n /\ evCur'.next = 1
    BY <2>2, <2>3, WorkFacts
  <2>5. FilesPart /\ WorkerPart /\ TickShaped /\ TickBehind /\ ReplaysKnown /\ LettersInHand
    BY DEF EventsInv, TickPart
  <2>6. FilesPart' /\ LogGrows /\ LettersGrow
    BY <1>1, <1>4, <2>5, FilesStay
  <2>7. WorkerPart'
    BY <1>1, <2>5, <2>6, WorkerStays
  <2>8. TickShaped' /\ TickBehind' /\ ReplaysKnown' /\ LettersInHand'
    BY <1>1, <1>4, <2>2, <2>4, <2>5 DEF TickShaped, TickBehind, ReplaysKnown, LettersInHand
  <2>9. Unpublished' /\ Published'
    BY <1>1, <1>4, <2>2, <2>4 DEF Unpublished, Published
  <2>10. DeliveredSoFar'
    <3>1. \A i \in 1..EvPlan[e] : ~(i < 1)
      BY LetterFacts
    <3> QED BY <2>4, <3>1 DEF DeliveredSoFar
  <2> QED BY <2>6, <2>7, <2>8, <2>9, <2>10 DEF EventsInv, TickPart
<1> QED BY <1>2, <1>3, <1>4 DEF Events!Visit

-----------------------------------------------------------------------------
(* The replay in hand.                                                       *)

LEMMA ReplayPublished ==
  ASSUME EventsInv, Events!PublishReplay
  PROVE  EventsInv' /\ LogGrows
<1>1. /\ spc \in {"publish", "republish"} /\ Events!AppendEvent(sbus, evCur.event, evCur.replay)
      /\ sbus' = [sbus EXCEPT !.log = log']
      /\ \/ spc = "publish" /\ spc' = "reconcile" /\ evCur' = evCur
         \/ spc' = "recovery" /\ evCur' = Events!NoWork
      /\ UNCHANGED <<letters, task, summaries, wbus, wpc, wjob, todo, at, evNow>>
  BY DEF Events!PublishReplay, Events!worker, Events!bounded
<1>2. FilesShaped /\ LogSound /\ WorkerPart /\ TickShaped /\ LettersInHand /\ Unpublished
  BY DEF EventsInv, FilesPart, TickPart
<1>3. /\ evCur.event \in FailureEvents /\ evCur.replay \in 1..EvMaxCount /\ evCur.replay \in 0..EvMaxCount
      /\ evCur.next = 1 /\ evCur \in EvWork
      /\ letters[evCur.event] # None /\ \A k \in DOMAIN log : log[k].event = evCur.event => log[k].replay = 0
  BY <1>1, <1>2, LetterFacts DEF TickShaped, LettersInHand, InHand, Unpublished
<1>4. FilesPart'
  BY <1>1, <1>2, <1>3, AppendSound DEF FilesPart
<1>5. /\ log' \in Seq(EvRecords) /\ Len(log) \in Nat /\ DOMAIN log' = 1..(Len(log) + 1)
      /\ log'[Len(log) + 1].event = evCur.event /\ log'[Len(log) + 1].replay = evCur.replay /\ LogGrows
  BY <1>1, <1>2, <1>3, AppendFacts
<1>6. WorkerPart'
  BY <1>1, <1>2, <1>5, WorkerStays DEF LettersGrow
<1>7. sbus' \in EvBuses /\ sbus'.log = log'
  BY <1>1, <1>2, <1>5 DEF TickShaped, EvBuses
<1>8. Copies(sbus'.log, log')
  BY <1>7 DEF Copies
<1>9. CASE spc' = "recovery" /\ evCur' = Events!NoWork
  <2>1. TickPart'
    BY <1>1, <1>2, <1>7, <1>8, <1>9, NoWorkFacts, TickAtRest DEF TickShaped, LettersInHand
  <2> QED BY <1>4, <1>5, <1>6, <2>1 DEF EventsInv
<1>10. CASE spc' = "reconcile" /\ evCur' = evCur /\ spc = "publish"
  <2>1. TickShaped' /\ TickBehind' /\ ReplaysKnown' /\ LettersInHand'
    BY <1>1, <1>2, <1>3, <1>7, <1>8, <1>10 DEF TickShaped, TickBehind, ReplaysKnown, LettersInHand
  <2>2. Unpublished'
    BY <1>10 DEF Unpublished
  <2>3. Events!HasEvent(log', evCur.event, evCur.replay)
    <3>1. Len(log) + 1 \in DOMAIN log'
      BY <1>5
    <3> QED BY <1>5, <3>1 DEF Events!HasEvent, Events!Position
  <2>4. Published'
    BY <1>10, <2>3 DEF Published
  <2>5. DeliveredSoFar'
    <3>1. \A i \in 1..EvPlan[evCur.event] : ~(i < 1)
      BY <1>3, LetterFacts
    <3> QED BY <1>3, <1>10, <3>1 DEF DeliveredSoFar
  <2> QED BY <1>4, <1>5, <1>6, <2>1, <2>2, <2>4, <2>5 DEF EventsInv, TickPart
<1> QED BY <1>1, <1>9, <1>10

\* What the delivery of a binding does to its task.
LEMMA DeliveredFacts ==
  ASSUME NEW s \in EvTasks, NEW t, t = Events!Delivered(s), evCur.event \in FailureEvents, at \in 0..EvMaxTime
  PROVE  /\ t \in EvTasks /\ (s.st = "completed" => t.st = "completed")
         /\ s.st = "deferred" => t.st \in {"deferred", "queued"}
<1>1. EvDelay[evCur.event] \in Nat /\ at + EvDelay[evCur.event] \in Nat
  BY LetterFacts
<1>2. PICK r \in Nat : r = Events!Saturating(at + EvDelay[evCur.event])
  BY <1>1, LetterFacts
<1>3. s.st \in {"none", "queued", "completed", "failed", "deferred", "rejected"} /\ s.ready \in Nat
  BY DEF EvTasks
<1>4. \/ s.st \in {"none", "failed"} /\ t = [s EXCEPT !.st = "queued"]
      \/ s.st = "failed" /\ t = [st |-> "deferred", ready |-> r]
      \/ s.st = "deferred" /\ t = [st |-> "queued", ready |-> 0]
      \/ t = s
  BY <1>1, <1>2, <1>3 DEF Events!Delivered
<1> QED BY <1>2, <1>3, <1>4 DEF EvTasks

LEMMA BindingReconciled ==
  ASSUME EventsInv, Events!Reconcile
  PROVE  EventsInv' /\ LogGrows
<1>1. PICK d : d = <<evCur.event, evCur.replay, evCur.next>>
  OBVIOUS
<1>2. PICK t : t = Events!Delivered(task[d])
  OBVIOUS
<1>3. /\ spc = "reconcile" /\ evCur.next <= EvPlan[evCur.event] /\ task' = [task EXCEPT ![d] = t]
      /\ evCur' = [evCur EXCEPT
           !.next = @ + 1,
           !.pending = @ \/ task[d].st \in {"none", "queued"} \/ (task[d].st = "deferred" /\ task'[d].st = "queued"),
           !.failed = @ \/ task[d].st \in {"failed", "rejected"} \/ task'[d].st = "deferred"]
      /\ UNCHANGED <<log, letters, summaries, wbus, wpc, wjob, sbus, spc, todo, at, evNow>>
  BY <1>1, <1>2 DEF Events!Reconcile, Events!worker, Events!bounded
<1>4. /\ FilesShaped /\ LogSound /\ WorkerPart /\ TickShaped /\ TickBehind /\ ReplaysKnown /\ LettersInHand
      /\ Published /\ DeliveredSoFar
  BY DEF EventsInv, FilesPart, TickPart
<1>5. /\ evCur.event \in FailureEvents /\ evCur.replay \in 1..EvMaxCount /\ evCur.next > 0 /\ evCur \in EvWork
      /\ evCur.next \in Nat /\ at \in 0..EvMaxTime /\ evCur.failed \in BOOLEAN /\ evCur.pending \in BOOLEAN
  BY <1>3, <1>4 DEF TickShaped, InHand, EvWork
<1>6. evCur.next \in 1..EvPlan[evCur.event]
  BY <1>3, <1>5, LetterFacts
<1>7. d \in Events!Deliveries /\ d[1] = evCur.event /\ d[2] = evCur.replay
  BY <1>1, <1>5, <1>6, DeliveryFacts
<1>8. task[d] \in EvTasks /\ task'[d] = t
  BY <1>3, <1>4, <1>7 DEF FilesShaped
<1>9. /\ t \in EvTasks /\ (task[d].st = "completed" => t.st = "completed")
      /\ task[d].st = "deferred" => t.st \in {"deferred", "queued"}
  BY <1>2, <1>5, <1>8, DeliveredFacts
<1>10. /\ FilesShaped' /\ LogSound'
       /\ \A x \in Events!Deliveries : task[x].st = "completed" => task'[x].st = "completed"
  <2>1. Events!HasEvent(log, d[1], d[2])
    BY <1>3, <1>4, <1>7 DEF Published
  <2> QED BY <1>3, <1>4, <1>7, <1>9, <2>1, TaskSound
<1>11. FilesPart' /\ LogGrows /\ LettersGrow
  BY <1>3, <1>10, UnchangedGrows DEF FilesPart, LettersGrow
<1>12. WorkerPart'
  BY <1>3, <1>4, <1>11, WorkerStays
<1>13. PICK m \in Nat : m = evCur.next + 1
  BY <1>5
<1>14. PICK p1 \in BOOLEAN : p1 = (evCur.pending \/ task[d].st \in {"none", "queued"} \/ (task[d].st = "deferred" /\ task'[d].st = "queued"))
  BY Zenon
<1>15. PICK f1 \in BOOLEAN : f1 = (evCur.failed \/ task[d].st \in {"failed", "rejected"} \/ task'[d].st = "deferred")
  BY Zenon
<1>16. evCur' = [evCur EXCEPT !.next = m, !.pending = p1, !.failed = f1]
  BY <1>3, <1>13, <1>14, <1>15, Zenon
<1>17. evCur' = [event |-> evCur.event, replay |-> evCur.replay, next |-> m, failed |-> f1, pending |-> p1]
  BY <1>5, <1>16 DEF EvWork
<1>18. evCur.replay \in 0..EvMaxCount
  BY <1>5 DEF EvWork
<1>19. evCur' \in EvWork /\ evCur'.event = evCur.event /\ evCur'.replay = evCur.replay /\ evCur'.next = m
  BY <1>5, <1>17, <1>18 DEF EvWork
<1>20. evCur'.failed = f1 /\ evCur'.pending = p1
  BY <1>17, Zenon
<1>21. m > 0
  BY <1>5, <1>13
<1>22. TickShaped'
  BY <1>3, <1>4, <1>5, <1>19, <1>21 DEF TickShaped
<1>23. TickBehind' /\ ReplaysKnown'
  BY <1>3, <1>4 DEF TickBehind, ReplaysKnown
<1>24. LettersInHand' /\ Unpublished' /\ Published'
  BY <1>3, <1>4, <1>19 DEF LettersInHand, Unpublished, Published, InHand
<1>25. DeliveredSoFar'
  <2> SUFFICES ASSUME ~evCur'.failed, ~evCur'.pending, NEW i \in 1..EvPlan[evCur.event], i < m
               PROVE  task'[<<evCur.event, evCur.replay, i>>].st = "completed"
    BY <1>19 DEF DeliveredSoFar
  <2>1. ~f1 /\ ~p1
    BY <1>20
  <2>2. ~evCur.pending /\ task[d].st \notin {"none", "queued"} /\ ~(task[d].st = "deferred" /\ task'[d].st = "queued")
    BY <1>14, <2>1, Zenon
  <2>3. ~evCur.failed /\ task[d].st \notin {"failed", "rejected"} /\ task'[d].st # "deferred"
    BY <1>15, <2>1, Zenon
  <2>4. CASE i < evCur.next
    <3>1. task[<<evCur.event, evCur.replay, i>>].st = "completed"
      BY <1>3, <1>4, <2>2, <2>3, <2>4 DEF DeliveredSoFar
    <3>2. <<evCur.event, evCur.replay, i>> \in Events!Deliveries
      BY <1>5, DeliveryFacts
    <3> QED BY <1>10, <3>1, <3>2
  <2>5. CASE i = evCur.next
    <3>1. task[d].st \in {"none", "queued", "completed", "failed", "deferred", "rejected"}
      BY <1>8 DEF EvTasks
    <3>2. task[d].st = "completed"
      BY <1>8, <1>9, <2>2, <2>3, <3>1
    <3> QED BY <1>1, <1>7, <1>10, <2>5, <3>2
  <2> QED BY <1>5, <1>13, <2>4, <2>5, LetterFacts
<1> QED BY <1>11, <1>12, <1>22, <1>23, <1>24, <1>25 DEF EventsInv, TickPart

\* A status is recorded for the replay in hand.
LEMMA StatusRecorded ==
  ASSUME EventsInv, spc = "reconcile", NEW s \in {"acked", "failed"},
         Events!SetStatus(sbus, evCur.event, evCur.replay, s),
         s = "acked" => \A i \in 1..EvPlan[evCur.event] : task[<<evCur.event, evCur.replay, i>>].st = "completed",
         sbus' = [sbus EXCEPT !.log = log'],
         UNCHANGED <<letters, task, summaries, wbus, wpc, wjob, todo, at, evNow>>,
         (spc' = "scan" /\ evCur' = Events!NoWork) \/ (spc' = "policy" /\ evCur' = evCur)
  PROVE  EventsInv' /\ LogGrows
<1>1. FilesShaped /\ LogSound /\ WorkerPart /\ TickShaped /\ LettersInHand
  BY DEF EventsInv, FilesPart, TickPart
<1>2. /\ evCur.event \in FailureEvents /\ evCur.replay \in 1..EvMaxCount /\ evCur.next > 0 /\ evCur \in EvWork
      /\ letters[evCur.event] # None
  BY <1>1 DEF TickShaped, InHand, LettersInHand
<1>3. FilesPart'
  BY <1>1, <1>2, StatusSound DEF FilesPart
<1>4. log' \in Seq(EvRecords) /\ LogGrows
  BY <1>1, StatusFacts
<1>5. WorkerPart'
  BY <1>1, <1>4, WorkerStays DEF LettersGrow
<1>6. sbus' \in EvBuses /\ sbus'.log = log'
  BY <1>1, <1>4 DEF TickShaped, EvBuses
<1>7. Copies(sbus'.log, log')
  BY <1>6 DEF Copies
<1>8. CASE spc' = "scan" /\ evCur' = Events!NoWork
  <2>1. TickPart'
    BY <1>1, <1>6, <1>7, <1>8, NoWorkFacts, TickAtRest DEF TickShaped, LettersInHand
  <2> QED BY <1>3, <1>4, <1>5, <2>1 DEF EventsInv
<1>9. CASE spc' = "policy" /\ evCur' = evCur
  <2>1. TickShaped' /\ TickBehind' /\ ReplaysKnown' /\ LettersInHand'
    BY <1>1, <1>2, <1>6, <1>7, <1>9 DEF TickShaped, TickBehind, ReplaysKnown, LettersInHand
  <2>2. Unpublished' /\ Published' /\ DeliveredSoFar'
    BY <1>9 DEF Unpublished, Published, DeliveredSoFar
  <2> QED BY <1>3, <1>4, <1>5, <2>1, <2>2 DEF EventsInv, TickPart
<1> QED BY <1>8, <1>9

LEMMA ReplayAcked ==
  ASSUME EventsInv, Events!AckReplay
  PROVE  EventsInv' /\ LogGrows
<1>1. /\ spc = "reconcile" /\ evCur.next > EvPlan[evCur.event] /\ ~evCur.failed /\ ~evCur.pending
      /\ Events!SetStatus(sbus, evCur.event, evCur.replay, "acked")
      /\ sbus' = [sbus EXCEPT !.log = log'] /\ spc' = "scan" /\ evCur' = Events!NoWork
      /\ UNCHANGED <<letters, task, summaries, wbus, wpc, wjob, todo, at, evNow>>
  BY DEF Events!AckReplay, Events!PlanSucceeded, Events!Reconciled, Events!worker, Events!bounded
<1>2. DeliveredSoFar /\ evCur.event \in FailureEvents /\ evCur.next \in Nat
  BY <1>1 DEF EventsInv, TickPart, TickShaped, InHand, EvWork
<1>3. \A i \in 1..EvPlan[evCur.event] : i < evCur.next
  BY <1>1, <1>2, LetterFacts
<1>4. \A i \in 1..EvPlan[evCur.event] : task[<<evCur.event, evCur.replay, i>>].st = "completed"
  BY <1>1, <1>2, <1>3 DEF DeliveredSoFar
<1> QED BY <1>1, <1>4, StatusRecorded

LEMMA ReplayFails ==
  ASSUME EventsInv, Events!FailReplay
  PROVE  EventsInv' /\ LogGrows
<1>1. /\ spc = "reconcile" /\ Events!SetStatus(sbus, evCur.event, evCur.replay, "failed")
      /\ sbus' = [sbus EXCEPT !.log = log']
      /\ (spc' = "scan" /\ evCur' = Events!NoWork) \/ (spc' = "policy" /\ evCur' = evCur)
      /\ UNCHANGED <<letters, task, summaries, wbus, wpc, wjob, todo, at, evNow>>
  BY DEF Events!FailReplay, Events!Reconciled, Events!worker, Events!bounded
<1> QED BY <1>1, StatusRecorded

LEMMA ReplayLeftPending ==
  ASSUME EventsInv, Events!LeavePending
  PROVE  EventsInv' /\ LogGrows
<1>1. /\ spc = "reconcile" /\ spc' = "scan" /\ evCur' = Events!NoWork
      /\ UNCHANGED <<log, letters, task, summaries, wbus, wpc, wjob, sbus, todo, at, evNow>>
  BY DEF Events!LeavePending, Events!Reconciled, Events!worker, Events!bounded
<1>2. FilesPart /\ WorkerPart /\ TickShaped /\ TickBehind /\ ReplaysKnown /\ LettersInHand
  BY DEF EventsInv, TickPart
<1>3. FilesPart' /\ LogGrows /\ LettersGrow
  BY <1>1, <1>2, FilesStay
<1>4. WorkerPart'
  BY <1>1, <1>2, <1>3, WorkerStays
<1>5. TickPart'
  BY <1>1, <1>2, NoWorkFacts, TickAtRest DEF TickShaped, TickBehind, ReplaysKnown, LettersInHand
<1> QED BY <1>3, <1>4, <1>5 DEF EventsInv

LEMMA PolicySet ==
  ASSUME EventsInv, Events!SetRedrivePolicy
  PROVE  EventsInv' /\ LogGrows
<1>1. PICK x : x = [letters[evCur.event] EXCEPT !.due = Events!Saturating(at + EvDelay[evCur.event])]
  OBVIOUS
<1>2. /\ spc = "policy" /\ Events!PutLetter(evCur.event, x)
      /\ sbus' = [sbus EXCEPT !.letters = letters'] /\ spc' = "scan" /\ evCur' = Events!NoWork
      /\ UNCHANGED <<log, task, summaries, wbus, wpc, wjob, todo, at, evNow>>
  BY <1>1 DEF Events!SetRedrivePolicy, Events!Reload, Events!Bus, Events!worker, Events!bounded
<1>3. FilesShaped /\ LogSound /\ WorkerPart /\ TickShaped /\ TickBehind /\ ReplaysKnown /\ LettersInHand
  BY DEF EventsInv, FilesPart, TickPart
<1>4. evCur.event \in FailureEvents /\ letters[evCur.event] # None /\ at \in 0..EvMaxTime
  BY <1>2, <1>3 DEF TickShaped, InHand, LettersInHand
<1>5. letters[evCur.event] \in [count : 0..EvMaxCount, due : 0..EvMaxTime]
  BY <1>3, <1>4, LetterFacts DEF FilesShaped
<1>6. at + EvDelay[evCur.event] \in Nat
  BY <1>4, LetterFacts
<1>7. PICK due \in 0..EvMaxTime : due = Events!Saturating(at + EvDelay[evCur.event])
  BY <1>6, LetterFacts
<1>8. x \in [count : 0..EvMaxCount, due : 0..EvMaxTime]
  BY <1>1, <1>5, <1>7
<1>9. x \in Events!LetterType /\ x # None
  BY <1>8, LetterFacts DEF Events!LetterType
<1>10. FilesShaped' /\ LogSound' /\ \A y \in FailureEvents : letters[y] # None => letters'[y] # None
  BY <1>2, <1>3, <1>4, <1>9, LetterSound
<1>11. FilesPart' /\ LogGrows /\ LettersGrow
  BY <1>2, <1>10, UnchangedGrows DEF FilesPart, LettersGrow
<1>12. WorkerPart'
  BY <1>2, <1>3, <1>11, WorkerStays
<1>13. sbus' \in EvBuses /\ sbus'.log = sbus.log
  BY <1>2, <1>3, <1>10 DEF TickShaped, EvBuses, FilesShaped
<1>14. TickPart'
  BY <1>2, <1>3, <1>10, <1>13, NoWorkFacts, TickAtRest DEF TickShaped, TickBehind, ReplaysKnown, LettersInHand
<1> QED BY <1>11, <1>12, <1>14 DEF EventsInv

-----------------------------------------------------------------------------
(* The theorem.                                                              *)

LEMMA EventsStarts == Events!Init => EventsInv
<1> SUFFICES ASSUME Events!Init PROVE EventsInv
  OBVIOUS
<1>1. /\ log = << >> /\ letters = [e \in FailureEvents |-> None]
      /\ task = [d \in Events!Deliveries |-> Events!Idle] /\ summaries = {}
      /\ wbus = Events!NoBus /\ wpc = "off"
      /\ sbus = Events!NoBus /\ spc = "off" /\ todo = {} /\ evCur = Events!NoWork /\ at = 0 /\ evNow = 0
  BY DEF Events!Init
<1>2. Events!Idle \in EvTasks /\ Events!Idle.st = "none"
  BY DEF Events!Idle, EvTasks
<1>3. FilesShaped
  BY <1>1, <1>2, LetterFacts DEF FilesShaped
<1>4. LogSound
  BY <1>1, <1>2 DEF LogSound, OneReplay, TasksPublished, AckedWasReplay, Events!AckedMeansDelivered,
                    Events!EvidenceInOrder
<1>5. WorkerPart
  BY <1>1, BusFacts DEF WorkerPart, WorkerShaped, WorkerBehind, EvidenceSoFar
<1>6. TickShaped /\ TickBehind /\ ReplaysKnown /\ LettersInHand
  BY <1>1, BusFacts, NoWorkFacts, LetterFacts DEF TickShaped, TickBehind, ReplaysKnown, LettersInHand, InHand
<1>7. Unpublished /\ Published /\ DeliveredSoFar
  BY <1>1 DEF Unpublished, Published, DeliveredSoFar
<1> QED BY <1>3, <1>4, <1>5, <1>6, <1>7 DEF EventsInv, FilesPart, TickPart

LEMMA EventsSteps ==
  ASSUME EventsInv, Events!Next
  PROVE  EventsInv' /\ LogGrows
BY TaskFails, EventEnsured, DeadLetterRecorded, EvidenceCheckpointed, DeliveryRuns, WorkerThreadDies, TickOpens,
   DaemonStarts, RecoveryEnds, TickEnds, ProcessDown, TimePasses, EventRecovered, LetterVisited, ReplayPublished,
   BindingReconciled, ReplayAcked, ReplayFails, ReplayLeftPending, PolicySet
   DEF Events!Next, Events!Worker, Events!Evidence, Events!Recover, Events!Scheduler, Events!Crash, Events!StopUnhealthy

\* For every set of failure events, every number of handlers and retry delay of
\* their letters, and wherever worker and daemon die: a dead letter gets one
\* replay for good and only its bindings become tasks, a replay is acknowledged
\* only when all of them have completed, evidence is written in order, and the
\* log that two buses append to from copies of their own never loses or replaces
\* a record (event_log.rs, durable.rs, scheduler_retry.rs).
THEOREM RedriveStaysExact == SystemSpec => EventsAreExact
<1> DEFINE Inv == part = "events" => EventsInv
<1>1. SystemInit => Inv
  BY EventsStarts DEF SystemInit
<1>2. Inv /\ [SystemNext]_all => Inv' /\ (LogGrows \/ UNCHANGED eventsVars)
  <2> SUFFICES ASSUME Inv, [SystemNext]_all PROVE Inv' /\ (LogGrows \/ UNCHANGED eventsVars)
    OBVIOUS
  <2>1. CASE SystemNext
    <3>1. CASE part = "events"
      <4>1. Events!Next /\ part' = part
        BY <2>1, <3>1 DEF SystemNext, Step
      <4> QED BY <3>1, <4>1, EventsSteps
    <3>2. CASE part # "events"
      <4>1. part' = part /\ UNCHANGED eventsVars
        BY <2>1, <3>2 DEF SystemNext, Idle
      <4> QED BY <3>2, <4>1
    <3> QED BY <3>1, <3>2
  <2>2. CASE UNCHANGED all
    <3>1. part' = part /\ UNCHANGED eventsVars
      BY <2>2 DEF all
    <3>2. UNCHANGED <<log, letters, task, summaries, wbus, wpc, wjob, sbus, spc, todo, evCur, at, evNow>>
      BY <3>1 DEF eventsVars
    <3>3. ASSUME EventsInv PROVE EventsInv'
      <4>1. FilesPart /\ WorkerPart /\ TickPart /\ evNow' \in 0..EvMaxTime
        BY <3>2, <3>3 DEF EventsInv, TickPart, TickShaped
      <4>2. FilesPart' /\ LogGrows /\ LettersGrow /\ DeliveriesStay /\ NoNewReplay
        BY <3>2, <4>1, FilesStay
      <4>3. TickPart' /\ WorkerPart'
        BY <3>2, <4>1, <4>2, TickStays, WorkerStays
      <4> QED BY <4>2, <4>3 DEF EventsInv
    <3> QED BY <3>1, <3>3
  <2> QED BY <2>1, <2>2
<1>3. Inv => (part = "events" =>
                /\ Events!TypeOK /\ Events!ReplayedOnce
                /\ Events!AckedMeansDelivered /\ Events!EvidenceInOrder)
  <2> SUFFICES ASSUME EventsInv
               PROVE  Events!TypeOK /\ Events!ReplayedOnce /\ Events!AckedMeansDelivered /\ Events!EvidenceInOrder
    OBVIOUS
  <2>f. FilesShaped /\ LogSound /\ WorkerShaped /\ TickShaped
    BY DEF EventsInv, FilesPart, WorkerPart, TickPart
  <2>1. Events!TypeOK
    <3>1. \A k \in DOMAIN log : log[k] \in [event : FailureEvents, replay : 0..EvMaxCount, status : {"appended", "acked", "failed"}]
      <4>1. \A k \in DOMAIN log : log[k] \in EvRecords
        BY <2>f DEF FilesShaped
      <4> QED BY <4>1 DEF EvRecords
    <3>2. \A d \in Events!Deliveries : task[d].st \in {"none", "queued", "completed", "failed", "deferred", "rejected"}
      BY <2>f DEF FilesShaped, EvTasks
    <3> QED BY <2>f, <3>1, <3>2 DEF Events!TypeOK, FilesShaped, WorkerShaped, TickShaped
  <2>2. Events!ReplayedOnce
    BY <2>f DEF Events!ReplayedOnce, Events!Replays, LogSound, OneReplay, TasksPublished
  <2> QED BY <2>f, <2>1, <2>2 DEF LogSound
<1>4. LogGrows \/ UNCHANGED eventsVars =>
        [\A k \in DOMAIN log :
           /\ k \in DOMAIN log'
           /\ log'[k].event = log[k].event /\ log'[k].replay = log[k].replay
           /\ log[k].status = "acked" => log'[k] = log[k]
        ]_<<log, letters, task, summaries, <<wbus, wpc, wjob>>, <<sbus, spc, todo, evCur, at>>,
            <<evNow, evFailures, evCrashes>>>>
  BY DEF LogGrows, eventsVars
<1> QED
  BY <1>1, <1>2, <1>3, <1>4, PTL
     DEF SystemSpec, EventsAreExact, Events!LogKeepsHistory, Events!vars, Events!worker, Events!tick, Events!bounded
=============================================================================
