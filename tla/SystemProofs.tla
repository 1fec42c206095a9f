---------------------------- MODULE SystemProofs ----------------------------
(***************************************************************************)
(* Proofs about the state machines that MCSystem composes, for every value *)
(* of their constants.  A behaviour of SystemSpec runs one part, so the    *)
(* inductive invariant of a part is its own; a step of SystemNext is then  *)
(* a step of that part's machine.                                          *)
(***************************************************************************)
EXTENDS MCSystem, FiniteSetTheorems, SequenceTheorems, WellFoundedInduction, TLAPS

-----------------------------------------------------------------------------
(* UpgradeHandoff.                                                           *)

\* The steps of an upgrade that holds the lock of its plan; those before and
\* those after the pointer is written.
BeforePointer == {"locked", "prepare", "preparing", "point", "pointing"}
AfterPointer == {"commit", "committing"}
Verdicts == {"none", "torn", "denied", "conflict", "locked", "blocked", "committed"}
PointerSteps == {"point", "pointing", "commit", "committing"}

UpgradeTypes ==
  /\ run \in [Operators ->
       [at : {"idle", "parsed", "done"} \cup BeforePointer \cup AfterPointer,
        plan : PlanIds \cup {"none"}, status : Verdicts]]
  /\ upFiles \in [{"prepared", "pointer", "committed"} ->
       [plan : PlanIds \cup {"none"}, status : Verdicts]]
  /\ pointed \in Seq(PlanIds \cup {"none"})

PointedPlan(plan_) == \E i \in 1..Len(pointed) : pointed[i] = plan_

\* Whoever works on a plan holds its lock, alone.
LockHeld ==
  /\ \A o \in Operators : run[o].at \in BeforePointer \cup AfterPointer => run[o].plan \in upLocks
  /\ \A o, o2 \in Operators :
       /\ run[o].at \in BeforePointer \cup AfterPointer
       /\ run[o2].at \in BeforePointer \cup AfterPointer
       /\ run[o].plan = run[o2].plan
       => o = o2

\* A plan is pointed to between the two halves of its upgrade, and only when
\* the verdict of its handoff was to commit.
PointerMoves ==
  /\ \A o \in Operators : run[o].at \in BeforePointer => ~PointedPlan(run[o].plan)
  /\ \A o \in Operators : run[o].at \in AfterPointer => PointedPlan(run[o].plan)
  /\ \A o \in Operators :
       /\ run[o].at \in {"prepare", "preparing"} => run[o].status \in {"blocked", "committed"}
       /\ run[o].at \in {"prepare", "preparing"} /\ run[o].status = "committed" => run[o].plan \in gated
       /\ run[o].at \in PointerSteps => run[o].plan \in gated
  /\ \A i \in 1..Len(pointed) : pointed[i] \in upLocks /\ pointed[i] \in gated
  /\ \A i, j \in 1..Len(pointed) : pointed[i] = pointed[j] => i = j
  /\ upFiles["committed"] \notin {Upgrade!Empty, Upgrade!Torn} => PointedPlan(upFiles["committed"].plan)

UpgradeInv == UpgradeTypes /\ LockHeld /\ PointerMoves

LEMMA UpgradeStarts == Upgrade!Init => UpgradeInv
<1> USE DEF BeforePointer, AfterPointer, PointerSteps, Verdicts
<1> SUFFICES ASSUME Upgrade!Init PROVE UpgradeInv
  OBVIOUS
<1>1. UpgradeTypes
  BY DEF Upgrade!Init, UpgradeTypes, Upgrade!Idle, Upgrade!Empty, Upgrade!Files
<1>2. LockHeld
  BY DEF Upgrade!Init, LockHeld, Upgrade!Idle
<1>3. PointerMoves
  BY DEF Upgrade!Init, PointerMoves, PointedPlan, Upgrade!Idle, Upgrade!Files
<1> QED
  BY <1>1, <1>2, <1>3 DEF UpgradeInv

LEMMA UpgradeSteps == UpgradeInv /\ Upgrade!Next => UpgradeInv'
<1> USE DEF BeforePointer, AfterPointer, PointerSteps, Verdicts
<1> SUFFICES ASSUME UpgradeInv, Upgrade!Next PROVE UpgradeInv'
  OBVIOUS
<1>0. PICK o \in Operators :
       \/ Upgrade!Parse(o) \/ Upgrade!AcquireLock(o) \/ Upgrade!Handoff(o)
       \/ Upgrade!OpenPrepared(o) \/ Upgrade!WritePrepared(o) \/ Upgrade!OpenPointer(o)
       \/ Upgrade!WritePointer(o) \/ Upgrade!OpenCommitted(o) \/ Upgrade!WriteCommitted(o)
       \/ Upgrade!Crash(o) \/ Upgrade!Again(o)
  BY DEF Upgrade!Next
<1> USE DEF UpgradeInv
<1>1. CASE Upgrade!Parse(o)
  <2>1. UpgradeTypes' /\ LockHeld'
    BY <1>1 DEF Upgrade!Parse, UpgradeTypes, LockHeld
  <2>2. PointerMoves'
    BY <1>1 DEF Upgrade!Parse, UpgradeTypes, PointerMoves, PointedPlan
  <2> QED BY <2>1, <2>2
<1>2. CASE Upgrade!AcquireLock(o)
  <2> USE DEF Upgrade!AcquireLock
  <2>0. run[o] \in [at : {"idle", "parsed", "done"} \cup BeforePointer \cup AfterPointer,
                   plan : PlanIds \cup {"none"}, status : Verdicts]
    BY DEF UpgradeTypes
  <2>1. CASE run[o].plan \in upLocks
    <3>1. /\ run' = [run EXCEPT ![o] = [run[o] EXCEPT !.at = "done", !.status = "conflict"]]
          /\ UNCHANGED <<upLocks, upFiles, pointed, gated>>
      BY <1>2, <2>1 DEF Upgrade!End
    <3>2. PICK r \in [at : {"done"}, plan : PlanIds \cup {"none"}, status : Verdicts] :
             run' = [run EXCEPT ![o] = r]
      BY <2>0, <3>1
    <3>3. UpgradeTypes'
      BY <3>1, <3>2 DEF UpgradeTypes
    <3>4. LockHeld'
      BY <3>1, <3>2 DEF UpgradeTypes, LockHeld
    <3>5. PointerMoves'
      BY <3>1, <3>2 DEF UpgradeTypes, PointerMoves, PointedPlan
    <3> QED BY <3>3, <3>4, <3>5
  <2>2. CASE run[o].plan \notin upLocks
    <3>1. /\ run' = [run EXCEPT ![o] = [run[o] EXCEPT !.at = "locked"]]
          /\ upLocks' = upLocks \cup {run[o].plan}
          /\ UNCHANGED <<upFiles, pointed, gated>>
      BY <1>2, <2>2 DEF Upgrade!Step
    <3>2. PICK r \in [at : {"locked"}, plan : PlanIds \cup {"none"}, status : Verdicts] :
             run' = [run EXCEPT ![o] = r] /\ r.plan = run[o].plan
      <4>1. [run[o] EXCEPT !.at = "locked"].plan = run[o].plan
        BY <2>0
      <4>2. [run[o] EXCEPT !.at = "locked"] \in
              [at : {"locked"}, plan : PlanIds \cup {"none"}, status : Verdicts]
        BY <2>0
      <4> QED BY <3>1, <4>1, <4>2
    <3>3. UpgradeTypes'
      BY <3>1, <3>2 DEF UpgradeTypes
    <3>4. LockHeld'
      BY <2>2, <3>1, <3>2 DEF UpgradeTypes, LockHeld
    <3>5. PointerMoves'
      BY <2>2, <3>1, <3>2 DEF UpgradeTypes, PointerMoves, PointedPlan
    <3> QED BY <3>3, <3>4, <3>5
  <2> QED BY <2>1, <2>2
<1>3. CASE Upgrade!Handoff(o)
  <2>1. PICK i \in Upgrade!Options :
      /\ run' = [run EXCEPT ![o].at = IF Upgrade!Decision(i) \in {"locked", "denied"} THEN "done" ELSE "prepare",
                            ![o].status = Upgrade!Decision(i)]
      /\ gated' = IF i.allowed = Upgrade!Gates /\ Upgrade!Ready(i.probe) /\ i.health = "healthy"
                  THEN gated \cup {run[o].plan} ELSE gated
    BY <1>3 DEF Upgrade!Handoff
  <2>2. /\ Upgrade!Decision(i) \in {"locked", "denied", "blocked", "committed"}
        /\ Upgrade!Decision(i) = "committed" =>
             i.allowed = Upgrade!Gates /\ Upgrade!Ready(i.probe) /\ i.health = "healthy"
    BY DEF Upgrade!Decision
  <2>3. run[o].at = "locked" /\ UNCHANGED <<upLocks, upFiles, pointed>>
    BY <1>3 DEF Upgrade!Handoff
  <2>4. UpgradeTypes'
    <3>1. run' \in [Operators ->
            [at : {"idle", "parsed", "done"} \cup BeforePointer \cup AfterPointer,
             plan : PlanIds \cup {"none"}, status : Verdicts]]
      <4>1. PICK at_ \in {"done", "prepare"}, status_ \in Verdicts :
              run' = [run EXCEPT ![o].at = at_, ![o].status = status_]
        BY <2>1, <2>2
      <4>2. run' = [run EXCEPT ![o] = [run[o] EXCEPT !.at = at_, !.status = status_]]
        BY <4>1
      <4>3. [run[o] EXCEPT !.at = at_, !.status = status_] \in
             [at : {"idle", "parsed", "done"} \cup BeforePointer \cup AfterPointer,
              plan : PlanIds \cup {"none"}, status : Verdicts]
        <5> DEFINE S == [at : {"idle", "parsed", "done"} \cup BeforePointer \cup AfterPointer,
                         plan : PlanIds \cup {"none"}, status : Verdicts]
        <5>1. PICK r \in S : r = run[o]
          BY DEF UpgradeTypes
        <5>2. PICK m \in S : m = [r EXCEPT !.at = at_]
          BY <4>1 DEF BeforePointer
        <5>3. [m EXCEPT !.status = status_] \in S
          BY <4>1
        <5> QED BY <5>1, <5>2, <5>3
      <4> QED BY <4>2, <4>3 DEF UpgradeTypes
    <3> QED BY <2>3, <3>1 DEF UpgradeTypes
  <2>5. LockHeld'
    BY <2>1, <2>2, <2>3 DEF UpgradeTypes, LockHeld
  <2>6. PointerMoves'
    BY <2>1, <2>2, <2>3 DEF UpgradeTypes, PointerMoves, PointedPlan
  <2> QED BY <2>4, <2>5, <2>6
<1>4. ASSUME NEW at_, NEW f \in {"prepared", "pointer", "committed"}, NEW then_,
             <<at_, f, then_>> \in {<<"prepare", "prepared", "preparing">>,
                                  <<"point", "pointer", "pointing">>,
                                  <<"commit", "committed", "committing">>},
             Upgrade!OpenFile(o, at_, f, then_)
      PROVE  UpgradeInv'
  <2> USE <1>4 DEF Upgrade!OpenFile, Upgrade!Truncate, Upgrade!Step
  <2>0. Upgrade!Empty \in [plan : PlanIds \cup {"none"}, status : Verdicts]
    BY DEF Upgrade!Empty
  <2>1. UpgradeTypes'
    BY <2>0 DEF UpgradeTypes
  <2>2. LockHeld'
    BY DEF UpgradeTypes, LockHeld
  <2>3. PointerMoves'
    BY DEF UpgradeTypes, PointerMoves, PointedPlan
  <2> QED BY <2>1, <2>2, <2>3
<1>5. CASE Upgrade!OpenPrepared(o) \/ Upgrade!OpenPointer(o) \/ Upgrade!OpenCommitted(o)
  BY <1>4, <1>5 DEF Upgrade!OpenPrepared, Upgrade!OpenPointer, Upgrade!OpenCommitted
<1>6. CASE Upgrade!WritePrepared(o)
  <2> USE DEF Upgrade!WritePrepared, Upgrade!Put, Upgrade!Step, Upgrade!Report
  <2>1. UpgradeTypes'
    BY <1>6 DEF UpgradeTypes, Upgrade!Torn
  <2>2. LockHeld'
    BY <1>6 DEF UpgradeTypes, LockHeld
  <2>3. PointerMoves'
    BY <1>6 DEF UpgradeTypes, PointerMoves, PointedPlan
  <2> QED BY <2>1, <2>2, <2>3
<1>7. CASE Upgrade!WritePointer(o)
  <2> USE DEF Upgrade!WritePointer, Upgrade!Put, Upgrade!Step, Upgrade!Report
  <2>1. UpgradeTypes'
    <3>1. Upgrade!Torn \in [plan : PlanIds \cup {"none"}, status : Verdicts]
      BY DEF Upgrade!Torn
    <3>2. run' \in [Operators ->
            [at : {"idle", "parsed", "done"} \cup BeforePointer \cup AfterPointer,
             plan : PlanIds \cup {"none"}, status : Verdicts]]
      BY <1>7, ZenonT(60) DEF UpgradeTypes
    <3>3. pointed' \in Seq(PlanIds \cup {"none"})
      BY <1>7 DEF UpgradeTypes
    <3>4. upFiles' \in [{"prepared", "pointer", "committed"} ->
            [plan : PlanIds \cup {"none"}, status : Verdicts]]
      BY <1>7, <3>1 DEF UpgradeTypes
    <3> QED BY <3>2, <3>3, <3>4 DEF UpgradeTypes
  <2>2. LockHeld'
    BY <1>7 DEF UpgradeTypes, LockHeld
  <2>3. /\ Len(pointed') = Len(pointed) + 1 /\ pointed'[Len(pointed) + 1] = run[o].plan
        /\ \A i \in 1..Len(pointed) : pointed'[i] = pointed[i]
        /\ Len(pointed) \in Nat
    BY <1>7 DEF UpgradeTypes
  <2>4. \A plan_ : PointedPlan(plan_)' <=> PointedPlan(plan_) \/ plan_ = run[o].plan
    BY <2>3 DEF PointedPlan
  <2>5. /\ run' = [run EXCEPT ![o].at = "commit"] /\ run[o].at = "pointing"
        /\ upFiles'["committed"] = upFiles["committed"] /\ UNCHANGED <<upLocks, gated>>
    BY <1>7 DEF UpgradeTypes
  <2>6. /\ (\A i \in 1..Len(pointed) : pointed[i] \in upLocks /\ pointed[i] \in gated)'
        /\ (\A i, j \in 1..Len(pointed) : pointed[i] = pointed[j] => i = j)'
    <3>1. /\ run[o].plan \in upLocks /\ run[o].plan \in gated
          /\ \A i \in 1..Len(pointed) : pointed[i] # run[o].plan
      BY <2>5 DEF PointerMoves, LockHeld, PointedPlan
    <3>2. /\ \A i \in 1..Len(pointed) : pointed[i] \in upLocks /\ pointed[i] \in gated
          /\ \A i, j \in 1..Len(pointed) : pointed[i] = pointed[j] => i = j
      BY DEF PointerMoves
    <3>3. \A i \in 1..Len(pointed') : i \in 1..Len(pointed) \/ i = Len(pointed) + 1
      BY <2>3
    <3> QED BY <2>3, <2>5, <3>1, <3>2, <3>3
  <2>7. PointerMoves'
    BY <2>4, <2>5, <2>6 DEF UpgradeTypes, PointerMoves, LockHeld, Upgrade!Empty, Upgrade!Torn
  <2> QED BY <2>1, <2>2, <2>7
<1>8. CASE Upgrade!WriteCommitted(o)
  <2> USE DEF Upgrade!WriteCommitted, Upgrade!Put, Upgrade!Step, Upgrade!Report
  <2>1. UpgradeTypes'
    BY <1>8 DEF UpgradeTypes, Upgrade!Torn
  <2>2. LockHeld'
    BY <1>8 DEF UpgradeTypes, LockHeld
  <2>3. PointerMoves'
    BY <1>8 DEF UpgradeTypes, PointerMoves, PointedPlan
  <2> QED BY <2>1, <2>2, <2>3
<1>9. CASE Upgrade!Crash(o) \/ Upgrade!Again(o)
  <2>0. /\ run' = [run EXCEPT ![o] = Upgrade!Idle] /\ UNCHANGED <<upLocks, upFiles, pointed, gated>>
        /\ Upgrade!Idle.at = "idle"
    BY <1>9 DEF Upgrade!Crash, Upgrade!Again, Upgrade!Idle
  <2>1. UpgradeTypes'
    BY <2>0 DEF UpgradeTypes, Upgrade!Idle
  <2>2. LockHeld'
    BY <2>0 DEF UpgradeTypes, LockHeld
  <2>3. PointerMoves'
    BY <2>0 DEF UpgradeTypes, PointerMoves, PointedPlan
  <2> QED BY <2>1, <2>2, <2>3
<1> QED
  BY <1>0, <1>1, <1>2, <1>3, <1>5, <1>6, <1>7, <1>8, <1>9

\* Whatever operators upgrade at once, crash and retry, an upgrade plan moves the
\* release pointer at most once, only behind its gates, and its committed record
\* follows the pointer (upgrade_cmd.rs, handoff.rs).
THEOREM UpgradesAreGated == SystemSpec => []UpgradeIsGated
<1> DEFINE Inv == part = "upgrade" => UpgradeInv
<1>1. SystemInit => Inv
  BY UpgradeStarts DEF SystemInit
<1>2. Inv /\ [SystemNext]_all => Inv'
  <2> SUFFICES ASSUME Inv, [SystemNext]_all, part' = "upgrade" PROVE UpgradeInv'
    OBVIOUS
  <2>1. CASE SystemNext
    BY <2>1, UpgradeSteps DEF SystemNext, Step
  <2>2. CASE UNCHANGED all
    <3>1. part' = part /\ UNCHANGED upgradeVars
      BY <2>2 DEF all
    <3> QED
      BY <3>1 DEF upgradeVars, UpgradeInv, UpgradeTypes, LockHeld, PointerMoves, PointedPlan
  <2> QED BY <2>1, <2>2
<1>3. Inv => UpgradeIsGated
  BY DEF UpgradeIsGated, UpgradeInv, UpgradeTypes, PointerMoves, PointedPlan, Upgrade!PlanPointsOnce,
     Upgrade!RecordsFollowPointer, Upgrade!PointerNeedsGates, Upgrade!IsInjective, Upgrade!Range
<1> QED
  BY <1>1, <1>2, <1>3, PTL DEF SystemSpec

-----------------------------------------------------------------------------
(* HardwareLifecycle: the drivers.                                           *)

DriverInv ==
  /\ registry \in [Devices ->
       [registered : BOOLEAN, health : Hardware!Healths, claimedBy : Requests \cup {"none"}]]
  /\ hwActive \in [Devices -> Requests \cup {"none"}]
  /\ told \in [Requests -> [Devices -> {"open", "closed", "error"}]]
  /\ Hardware!LeaseIsSession

LEMMA DriversStart == Hardware!DriverInit => DriverInv
<1> SUFFICES ASSUME Hardware!DriverInit PROVE DriverInv
  OBVIOUS
<1>1. PICK m \in [Devices -> {"enabled", "disabled"}] :
        registry = Hardware!FromCandidates(Hardware!DiscoverProjectDevices(m))
  BY DEF Hardware!DriverInit
<1>2. ASSUME NEW d \in Devices
      PROVE  \/ registry[d] = [registered |-> FALSE, health |-> "disconnected", claimedBy |-> "none"]
             \/ registry[d] = [registered |-> TRUE, health |-> "available", claimedBy |-> "none"]
  <2> DEFINE found == {c \in Hardware!DiscoverProjectDevices(m) : c.id = d /\ c.trust # "rejected"}
  <2>1. \A c \in found : c.health = "available"
    BY DEF Hardware!DiscoverProjectDevices, Hardware!Candidate
  <2>2. CASE found = {}
    BY <1>1, <2>2 DEF Hardware!FromCandidates, Hardware!Unregistered, Hardware!Nil
  <2>3. CASE found # {}
    <3>1. (CHOOSE c \in found : TRUE) \in found
      BY <2>3
    <3>2. registry[d] = [registered |-> TRUE, health |-> (CHOOSE c \in found : TRUE).health,
                         claimedBy |-> "none"]
      BY <1>1, <2>3 DEF Hardware!FromCandidates, Hardware!Nil
    <3> QED BY <2>1, <3>1, <3>2
  <2> QED BY <2>2, <2>3
<1>3. registry = [d \in Devices |-> registry[d]]
  BY <1>1 DEF Hardware!FromCandidates
<1>4. registry \in [Devices ->
        [registered : BOOLEAN, health : Hardware!Healths, claimedBy : Requests \cup {"none"}]]
  <2>1. \A d \in Devices : registry[d] \in
          [registered : BOOLEAN, health : Hardware!Healths, claimedBy : Requests \cup {"none"}]
    <3> SUFFICES ASSUME NEW d \in Devices
                 PROVE  registry[d] \in [registered : BOOLEAN, health : Hardware!Healths,
                                        claimedBy : Requests \cup {"none"}]
      OBVIOUS
    <3>1. CASE registry[d] = [registered |-> FALSE, health |-> "disconnected", claimedBy |-> "none"]
      BY <3>1 DEF Hardware!Healths
    <3>2. CASE registry[d] = [registered |-> TRUE, health |-> "available", claimedBy |-> "none"]
      BY <3>2 DEF Hardware!Healths
    <3> QED BY <1>2, <3>1, <3>2
  <2> QED BY <1>3, <2>1
<1>5. /\ hwActive = [d \in Devices |-> "none"]
      /\ told = [r \in Requests |-> [d \in Devices |-> "closed"]]
  BY DEF Hardware!DriverInit, Hardware!Nil
<1>6. Hardware!LeaseIsSession
  BY <1>2, <1>5 DEF Hardware!LeaseIsSession, Hardware!CanClaim, Hardware!Nil
<1> QED
  BY <1>4, <1>5, <1>6 DEF DriverInv

LEMMA DriverSteps == DriverInv /\ Hardware!DriverNext => DriverInv'
<1> USE RequestsAssumption DEF Hardware!Nil, Hardware!Healths
<1> SUFFICES ASSUME DriverInv, Hardware!DriverNext PROVE DriverInv'
  OBVIOUS
<1>0. PICK d \in Devices :
        \/ \E r \in Requests : \E allowed, audited \in BOOLEAN : Hardware!StartDriver(d, r, allowed, audited)
        \/ \E r \in Requests : \E audited \in BOOLEAN : Hardware!StopDriver(d, r, audited)
        \/ Hardware!RecordCrash(d)
  BY DEF Hardware!DriverNext
<1> DEFINE Device == [registered : BOOLEAN, health : Hardware!Healths, claimedBy : Requests \cup {"none"}]
           Held(r, e) == e.claimedBy = r /\ e.registered /\ e.health = "claimed"
           Free(e) == e.claimedBy = "none" /\ e.health = "available"
<1>1. ASSUME NEW e \in Device, NEW r \in Requests
      PROVE  /\ Hardware!Claimed(e, r) \in Device /\ Hardware!Claimed(e, r).claimedBy = r
             /\ Hardware!Claimed(e, r).health = "claimed"
             /\ Hardware!Released(e) \in Device /\ Free(Hardware!Released(e))
  BY DEF Hardware!Claimed, Hardware!Released
<1>2. \A x \in Devices : registry[x] \in Device
  BY DEF DriverInv
\* A session opens on d.
<1>3. ASSUME NEW r \in Requests, NEW answer \in {"open", "error"},
             registry' = [registry EXCEPT ![d] = Hardware!Claimed(@, r)],
             hwActive' = [hwActive EXCEPT ![d] = r], told' = [told EXCEPT ![r][d] = answer]
      PROVE  DriverInv'
  <2>1. PICK e \in Device : registry' = [registry EXCEPT ![d] = e] /\ e.claimedBy = r /\ e.health = "claimed"
    <3>1. /\ Hardware!Claimed(registry[d], r) \in Device
          /\ Hardware!Claimed(registry[d], r).claimedBy = r
          /\ Hardware!Claimed(registry[d], r).health = "claimed"
      BY <1>1, <1>2
    <3>2. registry' = [registry EXCEPT ![d] = Hardware!Claimed(registry[d], r)]
      BY <1>3
    <3> QED BY <3>1, <3>2
  <2>2. /\ registry' \in [Devices -> Device] /\ hwActive' \in [Devices -> Requests \cup {"none"}]
        /\ told' \in [Requests -> [Devices -> {"open", "closed", "error"}]]
    BY <1>3, <2>1 DEF DriverInv
  <2>3. ASSUME NEW x \in Devices
        PROVE  /\ registry'[x].claimedBy = hwActive'[x]
               /\ (registry'[x].health = "claimed") = (hwActive'[x] # "none")
               /\ hwActive'[x] = "none" /\ registry'[x].registered => Hardware!CanClaim(registry'[x])
               /\ hwActive'[x] # "none" => told'[hwActive'[x]][x] \in {"open", "error"}
    <3>1. CASE x = d
      BY <1>3, <2>1, <3>1 DEF DriverInv
    <3>2. CASE x # d
      BY <1>3, <2>1, <3>2 DEF DriverInv, Hardware!LeaseIsSession
    <3> QED BY <3>1, <3>2
  <2> QED BY <2>2, <2>3 DEF DriverInv, Hardware!LeaseIsSession, Hardware!CanClaim
\* A session closes on d.
<1>4. ASSUME registry' = [registry EXCEPT ![d] = Hardware!Released(@)],
             hwActive' = [hwActive EXCEPT ![d] = "none"], hwActive[d] # "none",
             \/ told' = told
             \/ \E answer \in {"closed", "error"} : told' = [told EXCEPT ![hwActive[d]][d] = answer]
      PROVE  DriverInv'
  <2>1. PICK e \in Device : registry' = [registry EXCEPT ![d] = e] /\ Free(e)
    <3>1. hwActive[d] \in Requests
      BY <1>4 DEF DriverInv
    <3>2. Hardware!Released(registry[d]) \in Device /\ Free(Hardware!Released(registry[d]))
      BY <1>1, <1>2, <3>1
    <3>3. registry' = [registry EXCEPT ![d] = Hardware!Released(registry[d])]
      BY <1>4
    <3> QED BY <3>2, <3>3
  <2>2. /\ registry' \in [Devices -> Device] /\ hwActive' \in [Devices -> Requests \cup {"none"}]
        /\ told' \in [Requests -> [Devices -> {"open", "closed", "error"}]]
    <3>1. hwActive[d] \in Requests
      BY <1>4 DEF DriverInv
    <3>2. told' \in [Requests -> [Devices -> {"open", "closed", "error"}]]
      <4>1. ASSUME NEW answer \in {"closed", "error"}, told' = [told EXCEPT ![hwActive[d]][d] = answer]
            PROVE  told' \in [Requests -> [Devices -> {"open", "closed", "error"}]]
        BY <3>1, <4>1 DEF DriverInv
      <4> QED BY <1>4, <4>1 DEF DriverInv
    <3> QED BY <1>4, <2>1, <3>2 DEF DriverInv
  <2>3. ASSUME NEW x \in Devices
        PROVE  /\ registry'[x].claimedBy = hwActive'[x]
               /\ (registry'[x].health = "claimed") = (hwActive'[x] # "none")
               /\ hwActive'[x] = "none" /\ registry'[x].registered => Hardware!CanClaim(registry'[x])
               /\ hwActive'[x] # "none" => told'[hwActive'[x]][x] \in {"open", "error"}
    <3>1. CASE x = d
      BY <1>4, <2>1, <3>1 DEF DriverInv, Hardware!CanClaim
    <3>2. CASE x # d
      <4>1. registry'[x] = registry[x] /\ hwActive'[x] = hwActive[x]
        BY <1>4, <2>1, <3>2 DEF DriverInv
      <4>2. hwActive[x] # "none" => told'[hwActive[x]][x] = told[hwActive[x]][x]
        <5>1. CASE told' = told
          BY <5>1
        <5>2. ASSUME NEW answer, told' = [told EXCEPT ![hwActive[d]][d] = answer], hwActive[x] # "none"
              PROVE  told'[hwActive[x]][x] = told[hwActive[x]][x]
          BY <1>4, <3>2, <5>2 DEF DriverInv
        <5> QED BY <1>4, <5>1, <5>2
      <4> QED BY <4>1, <4>2 DEF DriverInv, Hardware!LeaseIsSession
    <3> QED BY <3>1, <3>2
  <2> QED BY <2>2, <2>3 DEF DriverInv, Hardware!LeaseIsSession, Hardware!CanClaim
<1>5. ASSUME NEW r \in Requests, UNCHANGED <<registry, hwActive>>,
             told' = [told EXCEPT ![r][d] = IF told[r][d] = "open" THEN "open" ELSE "error"]
      PROVE  DriverInv'
  <2>1. told' \in [Requests -> [Devices -> {"open", "closed", "error"}]]
    BY <1>5 DEF DriverInv
  <2>2. ASSUME NEW x \in Devices, hwActive[x] # "none" PROVE told'[hwActive[x]][x] \in {"open", "error"}
    BY <1>5, <2>2 DEF DriverInv, Hardware!LeaseIsSession
  <2> QED BY <1>5, <2>1, <2>2 DEF DriverInv, Hardware!LeaseIsSession, Hardware!CanClaim
<1>6. ASSUME UNCHANGED <<registry, hwActive, told>> PROVE DriverInv'
  BY <1>6 DEF DriverInv, Hardware!LeaseIsSession, Hardware!CanClaim
<1>7. ASSUME NEW r \in Requests, NEW allowed \in BOOLEAN, NEW audited \in BOOLEAN,
             Hardware!StartDriver(d, r, allowed, audited)
      PROVE  DriverInv'
  BY <1>3, <1>5, <1>7 DEF Hardware!StartDriver, Hardware!Tell
<1>8. ASSUME NEW r \in Requests, NEW audited \in BOOLEAN, Hardware!StopDriver(d, r, audited)
      PROVE  DriverInv'
  BY <1>4, <1>6, <1>8 DEF Hardware!StopDriver, Hardware!Tell, Hardware!driverVars
<1>9. ASSUME Hardware!RecordCrash(d) PROVE DriverInv'
  BY <1>4, <1>9 DEF Hardware!RecordCrash
<1> QED BY <1>0, <1>7, <1>8, <1>9

-----------------------------------------------------------------------------
(* HardwareLifecycle: the hotplug subscriber.                                *)

HotplugActions == {"insert", "remove", "fail", "reconnect"}

HotplugTypes ==
  /\ manifest \in [Devices -> {"enabled", "disabled", "absent"}]
  /\ stored \in [Devices -> {"absent", "available", "disconnected"}]
  /\ events \in Seq(Devices \X HotplugActions)
  /\ hwScan.at \in {"idle", "again", "publish"}

\* The events about a device, the last of them, and what it tells.
EventsOf(evs, d) == {i \in 1..Len(evs) : evs[i][1] = d}
IsLast(evs, d, m) == m \in EventsOf(evs, d) /\ \A i \in EventsOf(evs, d) : m >= i
LastsExist == \A d \in Devices : EventsOf(events, d) # {} => \E m \in 1..Len(events) : IsLast(events, d, m)
ToldBy(evs, d) ==
  LET last_ == IF EventsOf(evs, d) # {} THEN Hardware!Max(EventsOf(evs, d)) ELSE 0
  IN  IF last_ = 0 THEN "absent" ELSE Hardware!Apply(evs[last_][2])

Pending(d) == \E a \in HotplugActions : <<d, a>> \in hwScan.todo

\* A scan under way publishes what it found: the manifests do not change before
\* its end, so what it will store is what the devices are.
ScanIsCurrent ==
  hwScan.at = "publish" =>
    /\ hwScan.state = [d \in Devices |-> Hardware!Current(d)]
    /\ \A e \in hwScan.todo :
         \E d \in Devices : e = <<d, Hardware!ActionFor(d)>> /\ Hardware!ActionFor(d) # "none"

\* What a consumer knows of a device: the stored state after a scan; that, or the
\* one a scan would store, after an interrupted one; the latter once it is told.
ConsumerKnows ==
  \A d \in Devices \ excused :
    /\ hwScan.at = "idle" => Hardware!Told(d) = stored[d]
    /\ hwScan.at # "idle" => Hardware!Told(d) \in {stored[d], Hardware!Current(d)}
    /\ hwScan.at = "publish" /\ ~Pending(d) => Hardware!Told(d) = Hardware!Current(d)

HotplugInv == HotplugTypes /\ LastsExist /\ ScanIsCurrent /\ ConsumerKnows

\* Every transition that is published leads to the health that is stored, and
\* one that is not leaves it as it is.
LEMMA ActionLeads ==
  ASSUME HotplugTypes, NEW d \in Devices
  PROVE  /\ Hardware!Current(d) \in {"absent", "available", "disconnected"}
         /\ Hardware!ActionFor(d) = "none" => stored[d] = Hardware!Current(d)
         /\ Hardware!ActionFor(d) # "none" =>
              Hardware!ActionFor(d) \in HotplugActions /\ Hardware!Apply(Hardware!ActionFor(d)) = Hardware!Current(d)
<1>1. /\ manifest[d] \in {"enabled", "disabled", "absent"}
      /\ stored[d] \in {"absent", "available", "disconnected"}
  BY DEF HotplugTypes
<1>2. /\ Hardware!Apply("insert") = "available" /\ Hardware!Apply("reconnect") = "available"
      /\ Hardware!Apply("remove") = "disconnected"
  BY DEF Hardware!Apply
<1> USE DEF Hardware!Current, Hardware!ActionFor, Hardware!HotplugAction, Hardware!Nil, HotplugActions
<1>3. CASE manifest[d] = "enabled"
  <2>1. Hardware!Current(d) = "available"
    BY <1>3
  <2>2. CASE stored[d] = "available"
    <3>1. Hardware!ActionFor(d) = "none"
      BY <1>3, <2>1, <2>2
    <3> QED BY <2>1, <2>2, <3>1
  <2>3. CASE stored[d] \in {"absent", "disconnected"}
    <3>1. Hardware!ActionFor(d) \in {"insert", "reconnect"}
      BY <1>3, <2>1, <2>3
    <3> HIDE DEF Hardware!Current, Hardware!ActionFor, Hardware!HotplugAction
    <3> QED BY <1>2, <2>1, <3>1
  <2> QED BY <1>1, <2>2, <2>3
<1>4. CASE manifest[d] = "disabled"
  <2>1. Hardware!Current(d) = "disconnected"
    BY <1>4
  <2>2. CASE stored[d] = "disconnected"
    <3>1. Hardware!ActionFor(d) = "none"
      BY <1>4, <2>1, <2>2
    <3> QED BY <2>1, <2>2, <3>1
  <2>3. CASE stored[d] \in {"absent", "available"}
    <3>1. Hardware!ActionFor(d) = "remove"
      BY <1>4, <2>1, <2>3
    <3> HIDE DEF Hardware!Current, Hardware!ActionFor, Hardware!HotplugAction
    <3> QED BY <1>2, <2>1, <3>1
  <2> QED BY <1>1, <2>2, <2>3
<1>5. CASE manifest[d] = "absent"
  <2>1. CASE stored[d] \in {"absent", "disconnected"}
    BY <1>5, <2>1
  <2>2. CASE stored[d] = "available"
    BY <1>2, <1>5, <2>2
  <2> QED BY <1>1, <2>1, <2>2
<1> QED BY <1>1, <1>3, <1>4, <1>5

LEMMA ToldIsToldBy ==
  ASSUME NEW d
  PROVE  Hardware!Told(d) = ToldBy(events, d) /\ Hardware!Told(d)' = ToldBy(events', d)
<1>1. Hardware!Told(d) = ToldBy(events, d)
  BY DEF Hardware!Told, Hardware!LastEvent, Hardware!SelectLastInSeq, ToldBy, EventsOf
<1>2. Hardware!Told(d)' = ToldBy(events', d)
  BY DEF Hardware!Told, Hardware!LastEvent, Hardware!SelectLastInSeq, ToldBy, EventsOf
<1> QED BY <1>1, <1>2

\* The last event of a device is what a consumer was told.
LEMMA LastTells ==
  ASSUME NEW evs \in Seq(Devices \X HotplugActions), NEW d, NEW m, IsLast(evs, d, m)
  PROVE  ToldBy(evs, d) = Hardware!Apply(evs[m][2])
<1>1. EventsOf(evs, d) # {} /\ m # 0 /\ EventsOf(evs, d) \subseteq Int
  BY DEF EventsOf, IsLast
<1>2. Hardware!Max(EventsOf(evs, d)) = m
  <2>1. \A x \in EventsOf(evs, d) : (\A y \in EventsOf(evs, d) : x >= y) => x = m
    BY <1>1 DEF IsLast
  <2> QED BY <2>1 DEF Hardware!Max, IsLast
<1> QED
  BY <1>1, <1>2 DEF ToldBy

\* An event tells of its own device and of no other.
LEMMA EventTells ==
  ASSUME HotplugTypes, LastsExist, NEW e \in Devices \X HotplugActions, events' = Append(events, e)
  PROVE  /\ LastsExist'
         /\ \A d \in Devices : Hardware!Told(d)' = IF d = e[1] THEN Hardware!Apply(e[2]) ELSE Hardware!Told(d)
<1>0. /\ Len(events) \in Nat /\ Len(events') = Len(events) + 1 /\ events'[Len(events) + 1] = e
      /\ \A i \in 1..Len(events) : events'[i] = events[i]
      /\ events \in Seq(Devices \X HotplugActions) /\ events' \in Seq(Devices \X HotplugActions)
  BY DEF HotplugTypes
<1>1. ASSUME NEW d, NEW i
      PROVE  i \in EventsOf(events', d) <=> i \in EventsOf(events, d) \/ (d = e[1] /\ i = Len(events) + 1)
  <2>1. i \in 1..Len(events') <=> i \in 1..Len(events) \/ i = Len(events) + 1
    BY <1>0
  <2>2. i \in 1..Len(events) => i # Len(events) + 1
    BY <1>0
  <2> QED BY <1>0, <2>1, <2>2 DEF EventsOf
<1>2. ASSUME NEW d, d = e[1] PROVE IsLast(events', d, Len(events) + 1)
  <2>1. \A i \in EventsOf(events, d) : Len(events) + 1 >= i
    BY <1>0 DEF EventsOf
  <2> QED BY <1>0, <1>1, <1>2, <2>1 DEF IsLast
<1>3. ASSUME NEW d, d # e[1], NEW m, IsLast(events, d, m) PROVE IsLast(events', d, m)
  BY <1>1, <1>3 DEF IsLast
<1>4. LastsExist'
  <2> SUFFICES ASSUME NEW d \in Devices, EventsOf(events', d) # {}
               PROVE  \E m \in 1..Len(events') : IsLast(events', d, m)
    BY DEF LastsExist
  <2>1. CASE d = e[1]
    BY <1>0, <1>2, <2>1
  <2>2. CASE d # e[1]
    <3>1. EventsOf(events, d) # {}
      BY <1>1, <2>2
    <3>2. PICK m \in 1..Len(events) : IsLast(events, d, m)
      BY <3>1 DEF LastsExist
    <3> QED BY <1>0, <1>3, <2>2, <3>2
  <2> QED BY <2>1, <2>2
<1>5. ASSUME NEW d \in Devices
      PROVE  ToldBy(events', d) = IF d = e[1] THEN Hardware!Apply(e[2]) ELSE ToldBy(events, d)
  <2>1. CASE d = e[1]
    <3>1. PICK evs \in Seq(Devices \X HotplugActions) : evs = events'
      BY <1>0
    <3>2. PICK n : n = Len(events) + 1
      OBVIOUS
    <3>3. IsLast(evs, d, n)
      BY <1>2, <2>1, <3>1, <3>2
    <3>4. ToldBy(evs, d) = Hardware!Apply(evs[n][2])
      BY <3>3, LastTells
    <3> QED BY <1>0, <2>1, <3>1, <3>2, <3>4
  <2>2. CASE d # e[1] /\ EventsOf(events, d) = {}
    BY <1>1, <2>2 DEF ToldBy
  <2>3. CASE d # e[1] /\ EventsOf(events, d) # {}
    <3>1. PICK m \in 1..Len(events) : IsLast(events, d, m)
      BY <2>3 DEF LastsExist
    <3>2. ToldBy(events, d) = Hardware!Apply(events[m][2])
      BY <1>0, <3>1, LastTells
    <3>3. ToldBy(events', d) = Hardware!Apply(events'[m][2])
      <4>1. PICK evs \in Seq(Devices \X HotplugActions) : evs = events'
        BY <1>0
      <4>2. IsLast(evs, d, m)
        BY <1>3, <2>3, <3>1, <4>1
      <4>3. ToldBy(evs, d) = Hardware!Apply(evs[m][2])
        BY <4>2, LastTells
      <4> QED BY <4>1, <4>3
    <3> QED BY <1>0, <2>3, <3>2, <3>3
  <2> QED BY <2>1, <2>2, <2>3
<1>6. \A d : Hardware!Told(d) = ToldBy(events, d) /\ Hardware!Told(d)' = ToldBy(events', d)
  BY ToldIsToldBy
<1> QED BY <1>4, <1>5, <1>6

LEMMA HotplugStarts == Hardware!HotplugInit => HotplugInv
<1> SUFFICES ASSUME Hardware!HotplugInit PROVE HotplugInv
  OBVIOUS
<1> USE DEF Hardware!HotplugInit, Hardware!Resting
<1>1. HotplugTypes
  BY DEF HotplugTypes
<1>2. \A d : EventsOf(events, d) = {}
  BY DEF EventsOf
<1>3. LastsExist /\ ScanIsCurrent
  BY <1>2 DEF LastsExist, ScanIsCurrent
<1>4. \A d : Hardware!Told(d) = "absent"
  BY <1>2, ToldIsToldBy DEF ToldBy
<1>5. ConsumerKnows
  BY <1>4 DEF ConsumerKnows
<1> QED BY <1>1, <1>3, <1>5 DEF HotplugInv

LEMMA HotplugSteps == HotplugInv /\ Hardware!HotplugNext => HotplugInv'
<1> SUFFICES ASSUME HotplugInv, Hardware!HotplugNext PROVE HotplugInv'
  OBVIOUS
<1> USE DEF HotplugInv
<1>0. /\ HotplugTypes /\ LastsExist /\ ScanIsCurrent /\ ConsumerKnows
      /\ stored \in [Devices -> {"absent", "available", "disconnected"}]
  BY DEF HotplugTypes
\* What is known of a device whose manifest, state and events stay.
<1>1. ASSUME NEW d, UNCHANGED <<manifest, stored>>
      PROVE  Hardware!Current(d)' = Hardware!Current(d) /\ Hardware!ActionFor(d)' = Hardware!ActionFor(d)
  BY <1>1 DEF Hardware!Current, Hardware!ActionFor
<1>2. ASSUME NEW d, UNCHANGED events PROVE Hardware!Told(d)' = Hardware!Told(d)
  BY <1>2, ToldIsToldBy
<1>3. ASSUME UNCHANGED events PROVE LastsExist'
  BY <1>3 DEF LastsExist, IsLast, EventsOf
<1>4. CASE Hardware!StartScan
  <2> USE <1>4 DEF Hardware!StartScan
  <2>0. /\ hwScan'.at = "publish" /\ hwScan'.state = [d \in Devices |-> Hardware!Current(d)]
        /\ hwScan'.todo = {<<d, Hardware!ActionFor(d)>> : d \in {x \in Devices : Hardware!ActionFor(x) # "none"}}
        /\ hwScan.at # "publish" /\ UNCHANGED <<manifest, stored, events, excused>>
    BY DEF Hardware!Nil
  <2>1. HotplugTypes'
    BY <2>0 DEF HotplugTypes
  <2>2. ScanIsCurrent'
    BY <1>1, <2>0 DEF ScanIsCurrent
  <2>3. ConsumerKnows'
    <3> SUFFICES ASSUME NEW d \in Devices \ excused
                 PROVE  /\ Hardware!Told(d)' \in {stored[d], Hardware!Current(d)}
                        /\ ~Pending(d)' => Hardware!Told(d)' = Hardware!Current(d)
      BY <1>1, <2>0 DEF ConsumerKnows
    <3>1. Hardware!Told(d)' = Hardware!Told(d) /\ Hardware!Told(d) \in {stored[d], Hardware!Current(d)}
      BY <1>0, <1>2, <2>0 DEF ConsumerKnows
    <3>2. Hardware!ActionFor(d) # "none" => Pending(d)'
      BY <2>0, ActionLeads, ZenonT(60) DEF Pending
    <3> QED BY <3>1, <3>2, ActionLeads
  <2> QED BY <1>3, <2>0, <2>1, <2>2, <2>3
<1>5. CASE Hardware!PublishNext
  <2>0. PICK e \in hwScan.todo :
          /\ events' = Append(events, e) /\ hwScan' = [hwScan EXCEPT !.todo = @ \ {e}]
          /\ hwScan.at = "publish" /\ UNCHANGED <<manifest, stored, excused>>
    BY <1>5 DEF Hardware!PublishNext
  <2>1. PICK x \in Devices : e = <<x, Hardware!ActionFor(x)>> /\ Hardware!ActionFor(x) # "none"
    BY <2>0 DEF ScanIsCurrent
  <2>2. /\ e \in Devices \X HotplugActions /\ e[1] = x /\ e[2] = Hardware!ActionFor(x)
        /\ Hardware!Apply(e[2]) = Hardware!Current(x)
    BY <2>1, ActionLeads
  <2>3. /\ LastsExist'
        /\ \A d \in Devices : Hardware!Told(d)' = IF d = x THEN Hardware!Current(x) ELSE Hardware!Told(d)
    BY <2>0, <2>2, EventTells
  <2>4. HotplugTypes'
    BY <2>0, <2>2 DEF HotplugTypes
  <2>5. ScanIsCurrent'
    BY <1>1, <2>0 DEF ScanIsCurrent
  <2>6. ConsumerKnows'
    <3> SUFFICES ASSUME NEW d \in Devices \ excused
                 PROVE  /\ Hardware!Told(d)' \in {stored[d], Hardware!Current(d)}
                        /\ ~Pending(d)' => Hardware!Told(d)' = Hardware!Current(d)
      BY <1>1, <2>0 DEF ConsumerKnows, HotplugTypes
    <3>1. d # x /\ Pending(d) => Pending(d)'
      <4>1. hwScan'.todo = hwScan.todo \ {e}
        BY <2>0 DEF HotplugTypes
      <4>2. \A a : d # x => <<d, a>> # e
        BY <2>1
      <4> QED BY <4>1, <4>2 DEF Pending
    <3>2. /\ Hardware!Told(d) \in {stored[d], Hardware!Current(d)}
          /\ ~Pending(d) => Hardware!Told(d) = Hardware!Current(d)
      BY <2>0 DEF ConsumerKnows
    <3> QED BY <2>3, <3>1, <3>2
  <2> QED BY <2>3, <2>4, <2>5, <2>6
<1>6. CASE Hardware!WriteState
  <2>0. /\ hwScan.at = "publish" /\ hwScan.todo = {} /\ stored' = hwScan.state /\ hwScan'.at = "idle"
        /\ UNCHANGED <<manifest, events, excused>>
    BY <1>6 DEF Hardware!WriteState, Hardware!Resting
  <2>1. stored' = [d \in Devices |-> Hardware!Current(d)]
    BY <2>0 DEF ScanIsCurrent
  <2>2. HotplugTypes' /\ ScanIsCurrent'
    BY <2>0, <2>1, ActionLeads DEF HotplugTypes, ScanIsCurrent
  <2>3. ConsumerKnows'
    <3> SUFFICES ASSUME NEW d \in Devices \ excused PROVE Hardware!Told(d)' = stored'[d]
      BY <2>0 DEF ConsumerKnows
    <3>1. ~Pending(d)
      BY <2>0 DEF Pending
    <3> QED BY <1>2, <2>0, <2>1, <3>1 DEF ConsumerKnows
  <2> QED BY <1>3, <2>0, <2>2, <2>3
<1>7. CASE Hardware!CrashScan
  <2>0. /\ hwScan.at = "publish" /\ hwScan'.at = "again" /\ UNCHANGED <<manifest, stored, events, excused>>
    BY <1>7 DEF Hardware!CrashScan, Hardware!Resting
  <2>1. HotplugTypes' /\ ScanIsCurrent'
    BY <2>0 DEF HotplugTypes, ScanIsCurrent
  <2>2. ConsumerKnows'
    BY <1>1, <1>2, <2>0 DEF ConsumerKnows
  <2> QED BY <1>3, <2>0, <2>1, <2>2
<1>8. CASE Hardware!EditManifest
  <2>0. PICK x \in Devices, m \in {"enabled", "disabled", "absent"} :
          /\ manifest' = [manifest EXCEPT ![x] = m]
          /\ excused' = IF hwScan.at = "again" THEN excused \cup {x} ELSE excused
          /\ hwScan.at # "publish" /\ UNCHANGED <<stored, events, hwScan>>
    BY <1>8 DEF Hardware!EditManifest
  <2>1. HotplugTypes' /\ ScanIsCurrent'
    BY <2>0 DEF HotplugTypes, ScanIsCurrent
  <2>2. ConsumerKnows'
    <3> SUFFICES ASSUME NEW d \in Devices \ excused'
                 PROVE  /\ hwScan.at = "idle" => Hardware!Told(d)' = stored[d]
                        /\ hwScan.at # "idle" => Hardware!Told(d)' \in {stored[d], Hardware!Current(d)'}
      BY <2>0 DEF ConsumerKnows
    <3>1. hwScan.at = "again" => Hardware!Current(d)' = Hardware!Current(d)
      BY <2>0 DEF Hardware!Current, HotplugTypes
    <3> QED BY <1>2, <2>0, <3>1 DEF ConsumerKnows, HotplugTypes
  <2> QED BY <1>3, <2>0, <2>1, <2>2
<1> QED
  BY <1>4, <1>5, <1>6, <1>7, <1>8 DEF Hardware!HotplugNext

\* A device's lease is the open session of the driver that was started on it,
\* whatever call failed on the way; and a consumer of the hotplug events knows
\* every device as the state file has it, interrupted scans included
\* (eva-hardware/src/lifecycle.rs).
THEOREM DevicesFollow == SystemSpec => []DevicesFollowSessions
<1> DEFINE Inv == (part = "drivers" => DriverInv) /\ (part = "hotplug" => HotplugInv)
<1>1. SystemInit => Inv
  BY DriversStart, HotplugStarts DEF SystemInit
<1>2. Inv /\ [SystemNext]_all => Inv'
  <2> SUFFICES ASSUME Inv, [SystemNext]_all PROVE Inv'
    OBVIOUS
  <2>1. CASE SystemNext
    BY <2>1, DriverSteps, HotplugSteps DEF SystemNext, Step
  <2>2. CASE UNCHANGED all
    <3>1. part' = part /\ UNCHANGED driversVars /\ UNCHANGED hotplugVars
      BY <2>2 DEF all
    <3>2. part = "drivers" => DriverInv'
      BY <3>1 DEF driversVars, DriverInv, Hardware!LeaseIsSession, Hardware!CanClaim
    <3>3. part = "hotplug" => HotplugInv'
      <4>1. \A d : Hardware!Told(d)' = Hardware!Told(d) /\ Hardware!Current(d)' = Hardware!Current(d)
              /\ Hardware!ActionFor(d)' = Hardware!ActionFor(d)
        BY <3>1, ToldIsToldBy DEF hotplugVars, Hardware!Current, Hardware!ActionFor
      <4> QED
        BY <3>1, <4>1 DEF hotplugVars, HotplugInv, HotplugTypes, LastsExist, IsLast, EventsOf, ScanIsCurrent,
           ConsumerKnows, Pending
    <3> QED BY <3>1, <3>2, <3>3
  <2> QED BY <2>1, <2>2
<1>3. Inv => DevicesFollowSessions
  BY DEF DevicesFollowSessions, DriverInv, HotplugInv, ConsumerKnows, Hardware!EventsExplainState
<1> QED
  BY <1>1, <1>2, <1>3, PTL DEF SystemSpec

-----------------------------------------------------------------------------
(* DurableStores: the backend.                                               *)

BackendTypes ==
  /\ backend \in [manifest : BOOLEAN, dirs : SUBSET Stores!LayoutDirs, lock : SUBSET Actors]
  /\ opener \in [Actors ->
       [at : {"idle", "lock", "manifest", "dirs", "redirs", "write", "read", "verify", "probe"},
        mode : {"ro", "rw", "create"},
        result : {"none", "not_found", "conflict", "opened", "probed"}]]

\* A writing open holds the migration lock past its first step, and so does a
\* probe; a read-only open passes the first look only at a manifest.
LayoutGuarded ==
  /\ backend.manifest => backend.dirs = Stores!LayoutDirs
  /\ \A c \in Actors :
       /\ opener[c].at = "write" => backend.dirs = Stores!LayoutDirs
       /\ opener[c].at \in {"lock", "dirs", "redirs", "write"} => opener[c].mode # "ro"
       /\ opener[c].at = "manifest" /\ opener[c].mode = "ro" => backend.manifest
       /\ opener[c].mode # "ro" /\ opener[c].at \in {"manifest", "dirs", "redirs", "write", "read", "verify"}
            => backend.lock = {c}
       /\ opener[c].at = "probe" => backend.lock = {c}

BackendInv == BackendTypes /\ LayoutGuarded

LEMMA BackendStarts == Stores!BackendInit => BackendInv
BY DEF Stores!BackendInit, Stores!IdleOpener, BackendInv, BackendTypes, LayoutGuarded

LEMMA BackendSteps == BackendInv /\ Stores!BackendNext => BackendInv'
<1> USE DEF BackendInv
<1> SUFFICES ASSUME BackendInv, Stores!BackendNext PROVE BackendInv'
  OBVIOUS
<1>0. PICK c \in Actors :
        \/ \E m \in {"ro", "rw", "create"} : Stores!StartOpen(c, m)
        \/ Stores!AcquireMigrationLock(c) \/ Stores!CheckManifest(c) \/ Stores!CreateLayoutDir(c)
        \/ Stores!WriteManifest(c) \/ Stores!ReadManifest(c) \/ Stores!VerifyLayout(c)
        \/ Stores!ProbeMigrationLock(c) \/ Stores!EndProbe(c) \/ Stores!OpenerCrash(c)
  BY DEF Stores!BackendNext
<1> USE DEF Stores!OpenerAt, Stores!OpenEnds, Stores!IsReadOnly
<1>1. ASSUME NEW m \in {"ro", "rw", "create"}, Stores!StartOpen(c, m) PROVE BackendInv'
  <2>1. PICK at_ \in {"idle", "manifest", "lock"}, result_ \in {"none", "not_found"} :
          /\ opener' = [opener EXCEPT ![c] = [at |-> at_, mode |-> m, result |-> result_]]
          /\ at_ = "lock" => m # "ro"
          /\ at_ = "manifest" => m = "ro" /\ backend.manifest
    BY <1>1 DEF Stores!StartOpen
  <2>2. UNCHANGED backend
    BY <1>1 DEF Stores!StartOpen
  <2>3. BackendTypes'
    BY <2>1, <2>2 DEF BackendTypes
  <2>4. LayoutGuarded'
    BY <2>1, <2>2 DEF BackendTypes, LayoutGuarded
  <2> QED BY <2>3, <2>4
<1>2. CASE Stores!AcquireMigrationLock(c)
  <2>1. BackendTypes'
    BY <1>2 DEF Stores!AcquireMigrationLock, BackendTypes
  <2>2. CASE backend.lock = {}
    <3>1. /\ backend' = [backend EXCEPT !.lock = {c}] /\ opener' = [opener EXCEPT ![c].at = "manifest"]
          /\ opener[c].at = "lock" /\ opener[c].mode # "ro"
      BY <1>2, <2>2 DEF Stores!AcquireMigrationLock, LayoutGuarded
    <3>2. \A x \in Actors : backend.lock # {x}
      BY <2>2
    <3>3. LayoutGuarded'
      BY <3>1, <3>2 DEF BackendTypes, LayoutGuarded
    <3> QED BY <2>1, <3>3
  <2>3. CASE backend.lock # {}
    <3>1. UNCHANGED backend /\ opener' = [opener EXCEPT ![c].at = "idle", ![c].result = "conflict"]
      BY <1>2, <2>3 DEF Stores!AcquireMigrationLock
    <3>2. LayoutGuarded'
      BY <3>1 DEF BackendTypes, LayoutGuarded
    <3> QED BY <2>1, <3>2
  <2> QED BY <2>2, <2>3
<1>3. CASE Stores!CheckManifest(c)
  <2>1. BackendTypes'
    BY <1>3 DEF Stores!CheckManifest, BackendTypes
  <2>2. LayoutGuarded'
    BY <1>3 DEF Stores!CheckManifest, BackendTypes, LayoutGuarded
  <2> QED BY <2>1, <2>2
<1>4. CASE Stores!CreateLayoutDir(c)
  <2>1. CASE backend.dirs # Stores!LayoutDirs
    <3>1. PICK d \in Stores!LayoutDirs \ backend.dirs :
            backend' = [backend EXCEPT !.dirs = @ \cup {d}] /\ UNCHANGED opener
      BY <1>4, <2>1 DEF Stores!CreateLayoutDir
    <3>2. BackendTypes'
      BY <3>1 DEF BackendTypes
    <3>3. LayoutGuarded'
      BY <2>1, <3>1 DEF BackendTypes, LayoutGuarded
    <3> QED BY <3>2, <3>3
  <2>2. CASE backend.dirs = Stores!LayoutDirs
    <3>1. BackendTypes'
      BY <1>4, <2>2 DEF Stores!CreateLayoutDir, BackendTypes
    <3>2. LayoutGuarded'
      BY <1>4, <2>2 DEF Stores!CreateLayoutDir, BackendTypes, LayoutGuarded
    <3> QED BY <3>1, <3>2
  <2> QED BY <2>1, <2>2
<1>5. CASE Stores!WriteManifest(c)
  <2>1. BackendTypes'
    BY <1>5 DEF Stores!WriteManifest, BackendTypes
  <2>2. LayoutGuarded'
    BY <1>5 DEF Stores!WriteManifest, BackendTypes, LayoutGuarded
  <2> QED BY <2>1, <2>2
<1>6. CASE Stores!ReadManifest(c)
  <2>1. BackendTypes'
    BY <1>6 DEF Stores!ReadManifest, BackendTypes
  <2>2. LayoutGuarded'
    BY <1>6 DEF Stores!ReadManifest, BackendTypes, LayoutGuarded
  <2> QED BY <2>1, <2>2
<1>7. CASE Stores!VerifyLayout(c)
  <2>1. BackendTypes'
    <3>1. backend' \in [manifest : BOOLEAN, dirs : SUBSET Stores!LayoutDirs, lock : SUBSET Actors]
      BY <1>7 DEF Stores!VerifyLayout, BackendTypes
    <3>2. PICK result_ \in {"opened", "not_found"} :
            opener' = [opener EXCEPT ![c].at = "idle", ![c].result = result_]
      BY <1>7 DEF Stores!VerifyLayout
    <3> QED BY <3>1, <3>2, ZenonT(60) DEF BackendTypes
  <2>2. LayoutGuarded'
    BY <1>7 DEF Stores!VerifyLayout, BackendTypes, LayoutGuarded
  <2> QED BY <2>1, <2>2
<1>8. CASE Stores!ProbeMigrationLock(c)
  <2>1. BackendTypes'
    BY <1>8 DEF Stores!ProbeMigrationLock, BackendTypes
  <2>2. LayoutGuarded'
    BY <1>8 DEF Stores!ProbeMigrationLock, BackendTypes, LayoutGuarded
  <2> QED BY <2>1, <2>2
<1>9. CASE Stores!EndProbe(c)
  <2>1. BackendTypes'
    BY <1>9, ZenonT(60) DEF Stores!EndProbe, BackendTypes
  <2>2. LayoutGuarded'
    <3>1. opener[c].at = "probe" /\ backend.lock = {c}
      BY <1>9 DEF Stores!EndProbe, LayoutGuarded
    <3>2. \A x \in Actors : backend.lock = {x} => x = c
      BY <3>1
    <3>3. /\ opener' = [opener EXCEPT ![c].at = "idle", ![c].result = "probed"]
          /\ backend'.manifest = backend.manifest /\ backend'.dirs = backend.dirs
      BY <1>9 DEF Stores!EndProbe, BackendTypes
    <3>4. /\ opener'[c].at = "idle"
          /\ \A x \in Actors \ {c} : opener'[x] = opener[x] /\ backend.lock # {x}
      BY <3>2, <3>3 DEF BackendTypes
    <3> QED BY <3>3, <3>4 DEF LayoutGuarded
  <2> QED BY <2>1, <2>2
<1>10. CASE Stores!OpenerCrash(c)
  <2>1. BackendTypes'
    BY <1>10, ZenonT(60) DEF Stores!OpenerCrash, BackendTypes
  <2>2. LayoutGuarded'
    BY <1>10 DEF Stores!OpenerCrash, BackendTypes, LayoutGuarded
  <2> QED BY <2>1, <2>2
<1> QED
  BY <1>0, <1>1, <1>2, <1>3, <1>4, <1>5, <1>6, <1>7, <1>8, <1>9, <1>10

LEMMA BackendIsLaidOut == BackendInv => Stores!ManifestMeansLayout
<1> SUFFICES ASSUME BackendInv PROVE Stores!ManifestMeansLayout
  OBVIOUS
<1>1. ASSUME NEW c \in Actors, opener[c].at \in {"dirs", "write", "redirs"} PROVE backend.lock = {c}
  BY <1>1 DEF BackendInv, LayoutGuarded
<1> QED
  BY <1>1 DEF Stores!ManifestMeansLayout, BackendInv, LayoutGuarded

-----------------------------------------------------------------------------
(* DurableStores: the artifact store.                                        *)

PutSteps == {"open_object", "write_object", "open_meta", "write_meta"}
Maybe(S) == {<< >>} \cup {<<x>> : x \in S}
ReadResults ==
  {<<"none">>, <<"put">>, <<"missing">>, <<"conflict">>} \cup {<<"read", x>> : x \in Payloads}

ArtifactTypes ==
  /\ artifact \in [object : Maybe(Payloads \cup {"torn"}), meta : Maybe(Payloads \cup {"torn"}),
                   whole : Maybe(Payloads), writes : Nat]
  /\ putter \in [Actors ->
       [at : {"idle", "read_meta"} \cup PutSteps, content : Payloads \cup {"torn"},
        seen : Payloads \cup {"torn"}, result : ReadResults]]
  /\ \A c \in Actors : putter[c].at \in PutSteps => putter[c].content \in Payloads

\* An undisturbed put stays until the next one opens the object file.
PutIsKept ==
  artifact.whole # << >> =>
    /\ artifact.object = artifact.whole /\ artifact.meta = artifact.whole
    /\ \A c \in Actors : putter[c].at \in {"idle", "read_meta", "open_object"}

ArtifactInv == ArtifactTypes /\ PutIsKept

LEMMA ArtifactStarts == Stores!ArtifactInit => ArtifactInv
BY DEF Stores!ArtifactInit, Stores!IdlePutter, Stores!Torn, ArtifactInv, ArtifactTypes, PutIsKept, PutSteps, Maybe,
   ReadResults

LEMMA ArtifactSteps == ArtifactInv /\ Stores!ArtifactNext => ArtifactInv'
<1> SUFFICES ASSUME ArtifactInv, Stores!ArtifactNext PROVE ArtifactInv'
  OBVIOUS
<1> USE DEF ArtifactInv, PutSteps, Stores!Torn
<1>0. PICK c \in Actors :
        \/ \E content \in Payloads : Stores!StartPut(c, content)
        \/ Stores!OpenForWrite(c) \/ Stores!WriteAll(c) \/ Stores!PutterCrash(c)
        \/ Stores!ReadObject(c) \/ Stores!ReadMetadata(c)
  BY DEF Stores!ArtifactNext
<1> DEFINE Putters == [at : {"idle", "read_meta"} \cup PutSteps, content : Payloads \cup {"torn"},
                       seen : Payloads \cup {"torn"}, result : ReadResults]
<1>r. /\ <<"none">> \in ReadResults /\ <<"put">> \in ReadResults /\ <<"missing">> \in ReadResults
      /\ <<"conflict">> \in ReadResults /\ \A x \in Payloads : <<"read", x>> \in ReadResults
      /\ \A S : << >> \in Maybe(S) /\ \A x \in S : <<x>> \in Maybe(S) /\ <<x>> # << >>
  BY DEF ReadResults, Maybe
<1>i. Stores!IdlePutter \in Putters /\ Stores!IdlePutter.at = "idle"
  BY <1>r DEF Stores!IdlePutter
<1>p. putter[c] \in Putters
  BY DEF ArtifactTypes
\* A step that leaves the files alone and ends or reads.
<1>q. ASSUME NEW r \in Putters, putter' = [putter EXCEPT ![c] = r], UNCHANGED artifact,
             r.at \in {"idle", "read_meta"}
      PROVE  ArtifactInv'
  <2>1. ArtifactTypes'
    BY <1>q DEF ArtifactTypes
  <2>2. PutIsKept'
    BY <1>q DEF ArtifactTypes, PutIsKept
  <2> QED BY <2>1, <2>2
<1>1. ASSUME NEW content \in Payloads, Stores!StartPut(c, content) PROVE ArtifactInv'
  <2> DEFINE begun == [Stores!IdlePutter EXCEPT !.at = "open_object", !.content = content]
  <2>b. begun \in Putters /\ begun.at = "open_object" /\ begun.content \in Payloads
    BY <1>i, <1>r DEF Stores!IdlePutter
  <2>p. putter' = [putter EXCEPT ![c] = begun]
    BY <1>1 DEF Stores!StartPut
  <2> HIDE DEF begun
  <2>1. PICK r \in Putters : /\ putter' = [putter EXCEPT ![c] = r]
                             /\ r.at = "open_object" /\ r.content \in Payloads
    BY <2>b, <2>p
  <2>2. artifact' = [artifact EXCEPT !.writes = @ + 1]
    BY <1>1 DEF Stores!StartPut
  <2>3. ArtifactTypes'
    BY <2>1, <2>2 DEF ArtifactTypes
  <2>4. PutIsKept'
    BY <2>1, <2>2 DEF ArtifactTypes, PutIsKept
  <2> QED BY <2>3, <2>4
<1>2. CASE Stores!OpenForWrite(c)
  <2>1. CASE putter[c].at = "open_object"
    <3>1. /\ artifact' = [artifact EXCEPT !.object = <<"torn">>, !.whole = << >>]
          /\ putter' = [putter EXCEPT ![c].at = "write_object"]
      BY <1>2, <2>1 DEF Stores!OpenForWrite, Stores!PutterAt
    <3>2. ArtifactTypes'
      BY <1>r, <2>1, <3>1 DEF ArtifactTypes
    <3>3. PutIsKept'
      BY <3>1 DEF ArtifactTypes, PutIsKept
    <3> QED BY <3>2, <3>3
  <2>2. CASE putter[c].at = "open_meta"
    <3>1. /\ artifact' = [artifact EXCEPT !.meta = <<"torn">>]
          /\ putter' = [putter EXCEPT ![c].at = "write_meta"]
      BY <1>2, <2>2 DEF Stores!OpenForWrite, Stores!PutterAt
    <3>2. ArtifactTypes'
      BY <1>r, <2>2, <3>1 DEF ArtifactTypes
    <3>3. PutIsKept'
      BY <2>2, <3>1 DEF ArtifactTypes, PutIsKept
    <3> QED BY <3>2, <3>3
  <2> QED BY <1>2, <2>1, <2>2 DEF Stores!OpenForWrite
<1>3. CASE Stores!WriteAll(c)
  <2>1. CASE putter[c].at = "write_object"
    <3>1. PICK o : /\ o \in {<<putter[c].content>>, <<"torn">>}
                   /\ artifact' = [artifact EXCEPT !.object = o]
                   /\ putter' = [putter EXCEPT ![c].at = "open_meta"]
      BY <1>3, <2>1 DEF Stores!WriteAll, Stores!Overwritten, Stores!PutterAt
    <3>o. o \in Maybe(Payloads \cup {"torn"})
      BY <1>r, <2>1, <3>1 DEF ArtifactTypes
    <3>2. ArtifactTypes'
      BY <2>1, <3>1, <3>o DEF ArtifactTypes
    <3>3. PutIsKept'
      BY <2>1, <3>1 DEF ArtifactTypes, PutIsKept
    <3> QED BY <3>2, <3>3
  <2>2. CASE putter[c].at = "write_meta"
    <3>1. PICK m, w : /\ artifact' = [artifact EXCEPT !.meta = m, !.whole = w]
                      /\ m \in {<<putter[c].content>>, <<"torn">>}
                      /\ \/ w = << >>
                         \/ /\ w = <<putter[c].content>> /\ artifact.object = w /\ m = w
                            /\ \A x \in Actors \ {c} : putter[x].at \in {"idle", "read_meta"}
      BY <1>3, <2>2 DEF Stores!WriteAll, Stores!Overwritten, Stores!Alone
    <3>2. putter' = [putter EXCEPT ![c].at = "idle", ![c].result = <<"put">>]
      BY <1>3, <2>2 DEF Stores!WriteAll
    <3>3. /\ putter[c].content \in Payloads /\ w \in Maybe(Payloads)
          /\ m \in Maybe(Payloads \cup {"torn"})
      BY <1>r, <2>2, <3>1 DEF ArtifactTypes
    <3>4. ArtifactTypes'
      <4>1. putter' \in [Actors -> Putters]
        BY <1>r, <3>2, ZenonT(60) DEF ArtifactTypes
      <4>2. artifact' \in [object : Maybe(Payloads \cup {"torn"}), meta : Maybe(Payloads \cup {"torn"}),
                           whole : Maybe(Payloads), writes : Nat]
        BY <1>r, <3>1, <3>3 DEF ArtifactTypes
      <4>3. \A x \in Actors : putter'[x].at \in PutSteps => putter'[x].content \in Payloads
        BY <3>2 DEF ArtifactTypes
      <4> QED BY <4>1, <4>2, <4>3 DEF ArtifactTypes
    <3>5. PutIsKept'
      <4>1. /\ artifact'.whole = w /\ artifact'.object = artifact.object
            /\ artifact'.meta = m
        BY <3>1 DEF ArtifactTypes
      <4>2. putter'[c].at = "idle" /\ \A x \in Actors \ {c} : putter'[x] = putter[x]
        BY <3>2 DEF ArtifactTypes
      <4> QED BY <3>1, <4>1, <4>2 DEF PutIsKept
    <3> QED BY <3>4, <3>5
  <2> QED BY <1>3, <2>1, <2>2 DEF Stores!WriteAll
<1>4. CASE Stores!PutterCrash(c)
  BY <1>4, <1>i, <1>q DEF Stores!PutterCrash
<1>5. CASE Stores!ReadObject(c)
  <2>1. CASE artifact.object = << >>
    <3>1. [Stores!IdlePutter EXCEPT !.result = <<"missing">>] \in Putters
      BY <1>r DEF Stores!IdlePutter
    <3>2. [Stores!IdlePutter EXCEPT !.result = <<"missing">>].at = "idle"
      BY DEF Stores!IdlePutter
    <3> QED BY <1>5, <1>q, <2>1, <3>1, <3>2 DEF Stores!ReadObject
  <2>2. CASE artifact.object # << >>
    <3>0. artifact.object[1] \in Payloads \cup {"torn"}
      BY <2>2 DEF ArtifactTypes, Maybe
    <3>1. [Stores!IdlePutter EXCEPT !.at = "read_meta", !.seen = artifact.object[1]] \in Putters
      BY <1>r, <3>0 DEF Stores!IdlePutter
    <3>2. [Stores!IdlePutter EXCEPT !.at = "read_meta", !.seen = artifact.object[1]].at = "read_meta"
      BY DEF Stores!IdlePutter
    <3> QED BY <1>5, <1>q, <2>2, <3>1, <3>2 DEF Stores!ReadObject
  <2> QED BY <2>1, <2>2
<1>6. CASE Stores!ReadMetadata(c)
  <2> DEFINE answer == IF Stores!MatchesMetadata(putter[c].seen, artifact.meta)
                       THEN <<"read", putter[c].seen>> ELSE <<"conflict">>
  <2>1. Stores!MatchesMetadata(putter[c].seen, artifact.meta) => putter[c].seen \in Payloads
    <3>1. artifact.meta \in Maybe(Payloads \cup {"torn"})
      BY DEF ArtifactTypes
    <3> QED BY <3>1 DEF Stores!MatchesMetadata, Maybe
  <2>2. answer \in ReadResults
    BY <1>r, <2>1
  <2>3. putter' = [putter EXCEPT ![c] = [Stores!IdlePutter EXCEPT !.result = answer]] /\ UNCHANGED artifact
    BY <1>6 DEF Stores!ReadMetadata
  <2> HIDE DEF answer
  <2>4. [Stores!IdlePutter EXCEPT !.result = answer] \in Putters
    BY <1>r, <2>2 DEF Stores!IdlePutter
  <2>5. [Stores!IdlePutter EXCEPT !.result = answer].at = "idle"
    BY DEF Stores!IdlePutter
  <2> QED BY <1>q, <2>3, <2>4, <2>5
<1> QED
  BY <1>0, <1>1, <1>2, <1>3, <1>4, <1>5, <1>6

LEMMA ArtifactsAreWhole == ArtifactInv => Stores!ReadsAreWhole
<1> SUFFICES ASSUME ArtifactInv PROVE Stores!ReadsAreWhole
  OBVIOUS
<1>1. ASSUME NEW c \in Actors, putter[c].result[1] = "read" PROVE putter[c].result[2] \in Payloads
  <2>1. putter[c].result \in ReadResults
    BY DEF ArtifactInv, ArtifactTypes
  <2> QED BY <1>1, <2>1 DEF ReadResults
<1>2. ASSUME artifact.whole # << >>
      PROVE  Stores!MatchesMetadata(artifact.object[1], artifact.meta) /\ artifact.object = artifact.whole
  <2>1. PICK x \in Payloads : artifact.whole = <<x>>
    BY <1>2 DEF ArtifactInv, ArtifactTypes, Maybe
  <2>2. artifact.object = <<x>> /\ artifact.meta = <<x>>
    BY <1>2, <2>1 DEF ArtifactInv, PutIsKept
  <2> QED BY <2>1, <2>2, StoresAssumption DEF Stores!MatchesMetadata, Stores!Torn
<1> QED
  BY <1>1, <1>2 DEF Stores!ReadsAreWhole

-----------------------------------------------------------------------------
(* DurableStores: the state store.                                           *)

Wins == [on : Nat, by : Nat]
VersionTypes ==
  /\ state \in [version : Nat, value : Payloads \cup {"torn"}, generation : Nat, lock : SUBSET Actors,
                owner : SUBSET Actors, current : Nat, wins : Seq(Wins)]
  /\ setter \in [Actors -> [at : {"idle", "lock", "verify", "write"}, generation : Nat, expected : Nat,
                            value : Payloads \cup {"torn"}]]

\* Who is past the record's lock holds it alone, and what it verified still holds.
SettersKnow ==
  \A c \in Actors :
    /\ setter[c].at \in {"verify", "write"} => state.lock = {c}
    /\ setter[c].at = "write" =>
         setter[c].expected = state.version /\ setter[c].generation = state.current

\* What the chain says, and that no write is younger than the writer of now.
ChainSoFar == Stores!SetsFormAChain /\ \A i \in DOMAIN state.wins : state.wins[i].by <= state.current

\* A writer that may be past its check owns the store: nobody takes it over.
WritersOwn ==
  /\ \A c \in state.owner : state.owner = {c}
  /\ \A c \in Actors : setter[c].at = "write" => state.owner = {c}

VersionInv == VersionTypes /\ SettersKnow /\ ChainSoFar /\ WritersOwn

LEMMA VersionStarts == Stores!StateInit => VersionInv
<1> SUFFICES ASSUME Stores!StateInit PROVE VersionInv
  OBVIOUS
<1>1. VersionTypes
  BY DEF Stores!StateInit, Stores!IdleSetter, Stores!Torn, VersionTypes
<1> QED
  BY <1>1 DEF Stores!StateInit, Stores!IdleSetter, VersionInv, SettersKnow, ChainSoFar, WritersOwn, Stores!SetsFormAChain

LEMMA VersionSteps == VersionInv /\ Stores!StateNext => VersionInv'
<1> SUFFICES ASSUME VersionInv, Stores!StateNext PROVE VersionInv'
  OBVIOUS
<1> USE DEF VersionInv
<1>0. PICK c \in Actors :
        \/ Stores!AcquireWriter(c) \/ Stores!LoseWriter(c) \/ Stores!LockRecord(c) \/ Stores!VerifySet(c)
        \/ Stores!WriteState(c) \/ Stores!SetterCrash(c)
        \/ \E expected \in 0..MaxWrites, value \in Payloads : Stores!StartSet(c, expected, value)
  BY DEF Stores!StateNext
<1> DEFINE Setters == [at : {"idle", "lock", "verify", "write"}, generation : Nat, expected : Nat,
                       value : Payloads \cup {"torn"}]
<1>t. /\ setter[c] \in Setters /\ state.wins \in Seq(Wins) /\ state.current \in Nat /\ state.version \in Nat
      /\ state.owner \in SUBSET Actors /\ state.lock \in SUBSET Actors
  BY DEF VersionTypes
\* A step that changes no version and no owner: one setter and the lock.
<1>q. ASSUME NEW r \in Setters, NEW held \in SUBSET Actors, NEW owners,
             setter' = [setter EXCEPT ![c] = r],
             state' = [state EXCEPT !.lock = held, !.owner = owners],
             r.at \in {"verify", "write"} => held = {c},
             r.at = "write" => owners = {c} /\ r.expected = state.version /\ r.generation = state.current,
             \A x \in Actors \ {c} : setter[x].at \in {"verify", "write"} => held = state.lock,
             owners = state.owner
      PROVE  VersionInv'
  <2>1. VersionTypes'
    BY <1>q DEF VersionTypes
  <2>2. /\ state'.version = state.version /\ state'.current = state.current /\ state'.wins = state.wins
        /\ state'.lock = held /\ state'.owner = owners /\ setter'[c] = r
        /\ \A x \in Actors \ {c} : setter'[x] = setter[x]
    BY <1>q DEF VersionTypes
  <2>3. SettersKnow' /\ WritersOwn'
    BY <1>q, <2>2 DEF SettersKnow, WritersOwn
  <2>4. ChainSoFar'
    BY <2>2 DEF ChainSoFar, Stores!SetsFormAChain
  <2> QED BY <2>1, <2>3, <2>4
<1>1. CASE Stores!AcquireWriter(c)
  <2> DEFINE r == [Stores!IdleSetter EXCEPT !.generation = state.current + 1]
  <2>1. r \in Setters /\ r.at = "idle"
    BY <1>t DEF Stores!IdleSetter, Stores!Torn
  <2>2. /\ state' = [state EXCEPT !.owner = {c}, !.current = @ + 1] /\ setter' = [setter EXCEPT ![c] = r]
        /\ state.owner = {}
    BY <1>1 DEF Stores!AcquireWriter
  <2> HIDE DEF r
  <2>3. VersionTypes'
    <3>1. setter' \in [Actors -> Setters]
      BY <2>1, <2>2 DEF VersionTypes
    <3>2. state.current + 1 \in Nat /\ {c} \in SUBSET Actors
      BY <1>t
    <3>3. state' = [state EXCEPT !.owner = {c}, !.current = state.current + 1]
      BY <2>2
    <3> QED BY <3>1, <3>2, <3>3 DEF VersionTypes
  <2>4. /\ state'.version = state.version /\ state'.current = state.current + 1 /\ state'.wins = state.wins
        /\ state'.lock = state.lock /\ state'.owner = {c} /\ setter'[c] = r
        /\ \A x \in Actors \ {c} : setter'[x] = setter[x]
    BY <2>2 DEF VersionTypes
  <2>5. \A x \in Actors : setter[x].at # "write"
    BY <2>2 DEF WritersOwn
  <2>6. SettersKnow' /\ WritersOwn'
    BY <2>1, <2>4, <2>5 DEF SettersKnow, WritersOwn
  <2>7. \A i \in DOMAIN state.wins : state.wins[i] \in Wins
    BY <1>t
  <2>8. ChainSoFar'
    BY <1>t, <2>4, <2>7 DEF ChainSoFar, Stores!SetsFormAChain, Wins
  <2> QED BY <2>3, <2>6, <2>8
<1>2. CASE Stores!LoseWriter(c)
  <2>1. /\ state' = [state EXCEPT !.lock = state.lock, !.owner = {}] /\ setter' = [setter EXCEPT ![c] = setter[c]]
        /\ setter[c].at = "idle" /\ c \in state.owner
    BY <1>2 DEF Stores!LoseWriter, VersionTypes
  <2>2. \A x \in Actors \ {c} : setter[x].at # "write"
    BY <2>1 DEF WritersOwn
  <2>3. VersionTypes'
    BY <2>1 DEF VersionTypes
  <2>4. /\ state'.version = state.version /\ state'.current = state.current /\ state'.wins = state.wins
        /\ state'.lock = state.lock /\ \A x \in Actors : setter'[x] = setter[x]
    BY <2>1 DEF VersionTypes
  <2>5. SettersKnow' /\ WritersOwn'
    BY <2>1, <2>2, <2>4 DEF SettersKnow, WritersOwn
  <2>6. ChainSoFar'
    BY <2>4 DEF ChainSoFar, Stores!SetsFormAChain
  <2> QED BY <2>3, <2>5, <2>6
<1>3. CASE Stores!LockRecord(c)
  <2> DEFINE r == [setter[c] EXCEPT !.at = "verify"]
  <2>1. r \in Setters /\ r.at = "verify"
    BY <1>t
  <2>2. /\ state' = [state EXCEPT !.lock = {c}, !.owner = state.owner] /\ setter' = [setter EXCEPT ![c] = r]
        /\ state.lock = {}
    BY <1>3 DEF Stores!LockRecord, VersionTypes
  <2>3. \A x \in Actors : setter[x].at \notin {"verify", "write"}
    BY <2>2 DEF SettersKnow
  <2> HIDE DEF r
  <2> QED BY <1>q, <1>t, <2>1, <2>2, <2>3
<1>4. CASE Stores!VerifySet(c)
  <2>0. setter[c].at = "verify" /\ state.lock = {c}
    BY <1>4 DEF Stores!VerifySet, SettersKnow
  <2>o. \A x \in Actors \ {c} : setter[x].at \notin {"verify", "write"}
    BY <2>0 DEF SettersKnow
  <2>1. CASE c \in state.owner /\ setter[c].generation = state.current /\ Stores!VersionMatches(c)
    <3> DEFINE r == [setter[c] EXCEPT !.at = "write"]
    <3>1. r \in Setters /\ r.at = "write" /\ r.expected = setter[c].expected /\ r.generation = setter[c].generation
      BY <1>t
    <3>2. setter' = [setter EXCEPT ![c] = r]
      BY <1>4, <2>1 DEF Stores!VerifySet, VersionTypes
    <3>3. state' = [state EXCEPT !.lock = {c}, !.owner = state.owner]
      BY <1>4, <2>0, <2>1 DEF Stores!VerifySet, VersionTypes
    <3> HIDE DEF r
    <3>4. state.version = setter[c].expected
      BY <2>1 DEF Stores!VersionMatches
    <3>5. state.owner = {c}
      BY <2>1 DEF WritersOwn
    <3>6. r.at = "write" => state.owner = {c} /\ r.expected = state.version /\ r.generation = state.current
      BY <2>1, <3>1, <3>4, <3>5
    <3> QED BY <1>q, <2>o, <3>1, <3>2, <3>3, <3>6
  <2>2. CASE ~(c \in state.owner /\ setter[c].generation = state.current /\ Stores!VersionMatches(c))
    <3> DEFINE r == [setter[c] EXCEPT !.at = "idle"]
    <3>1. r \in Setters /\ r.at = "idle"
      BY <1>t
    <3>2. setter' = [setter EXCEPT ![c] = r]
      BY <1>4, <2>2 DEF Stores!VerifySet, Stores!SetEnds, VersionTypes
    <3>3. state' = [state EXCEPT !.lock = {}, !.owner = state.owner]
      BY <1>4, <2>2 DEF Stores!VerifySet, VersionTypes
    <3> HIDE DEF r
    <3> QED BY <1>q, <2>o, <3>1, <3>2, <3>3
  <2> QED BY <2>1, <2>2
<1>5. CASE Stores!WriteState(c)
  <2> DEFINE win == [on |-> setter[c].expected, by |-> setter[c].generation]
             r == [setter[c] EXCEPT !.at = "idle"]
  <2>0. setter[c].at = "write" /\ state.lock = {c} /\ setter[c].expected = state.version
        /\ setter[c].generation = state.current
    BY <1>5 DEF Stores!WriteState, SettersKnow
  <2>1. win \in Wins /\ win.on = state.version /\ win.by = state.current /\ r \in Setters /\ r.at = "idle"
    BY <1>t, <2>0 DEF Wins
  <2>2. /\ state' = [state EXCEPT !.version = @ + 1, !.value = setter[c].value, !.generation = setter[c].generation,
                                  !.lock = {}, !.wins = Append(@, win)]
        /\ setter' = [setter EXCEPT ![c] = r]
    BY <1>5 DEF Stores!WriteState, Stores!SetEnds, VersionTypes
  <2> HIDE DEF win, r
  <2>3. Append(state.wins, win) \in Seq(Wins)
    BY <1>t, <2>1
  <2>4. VersionTypes'
    <3>1. setter' \in [Actors -> Setters]
      BY <2>1, <2>2 DEF VersionTypes
    <3>2. /\ state.version + 1 \in Nat /\ setter[c].value \in Payloads \cup {"torn"} /\ setter[c].generation \in Nat
          /\ {} \in SUBSET Actors
      BY <1>t
    <3>3. state' = [state EXCEPT !.version = state.version + 1, !.value = setter[c].value,
                                 !.generation = setter[c].generation, !.lock = {}, !.wins = Append(state.wins, win)]
      BY <2>2
    <3> QED BY <2>3, <3>1, <3>2, <3>3 DEF VersionTypes
  <2>5. /\ state'.version = state.version + 1 /\ state'.current = state.current
        /\ state'.wins = Append(state.wins, win) /\ state'.owner = state.owner /\ setter'[c] = r
        /\ \A x \in Actors \ {c} : setter'[x] = setter[x]
    BY <2>2 DEF VersionTypes
  <2>o. \A x \in Actors \ {c} : setter[x].at \notin {"verify", "write"}
    BY <2>0 DEF SettersKnow
  <2>6. SettersKnow' /\ WritersOwn'
    BY <2>1, <2>5, <2>o DEF SettersKnow, WritersOwn
  <2>7. PICK ws \in Seq(Wins) : ws = state.wins
    BY <1>t
  <2>d. DOMAIN ws = 1..Len(ws) /\ Len(ws) \in Nat /\ \A i \in 1..Len(ws) : ws[i] \in Wins
    OBVIOUS
  <2>8. /\ Len(ws) = state.version
        /\ \A i \in 1..Len(ws) : ws[i].on = i - 1 /\ ws[i].by <= state.current
        /\ \A i, j \in 1..Len(ws) : i < j => ws[i].by <= ws[j].by
    BY <2>7, <2>d DEF ChainSoFar, Stores!SetsFormAChain
  <2>9. /\ Len(Append(ws, win)) = Len(ws) + 1
        /\ \A i \in 1..Len(ws) : Append(ws, win)[i] = ws[i]
        /\ Append(ws, win)[Len(ws) + 1] = win
        /\ DOMAIN Append(ws, win) = 1..(Len(ws) + 1)
    BY <2>1
  <2> DEFINE more == Append(ws, win)
  <2>m. /\ \A i \in 1..Len(ws) : more[i] = ws[i]
        /\ more[Len(ws) + 1] = win
    BY <2>9
  <2> HIDE DEF more
  <2>10. /\ \A i \in 1..(Len(ws) + 1) : more[i].on = i - 1 /\ more[i].by <= state.current
         /\ \A i, j \in 1..(Len(ws) + 1) : i < j => more[i].by <= more[j].by
    <3>1. \A i \in 1..(Len(ws) + 1) : i \in 1..Len(ws) \/ i = Len(ws) + 1
      BY <2>d
    <3>2. \A i \in 1..(Len(ws) + 1) : more[i].on = i - 1 /\ more[i].by <= state.current
      BY <1>t, <2>1, <2>8, <2>d, <2>m, <3>1
    <3>3. ASSUME NEW i \in 1..(Len(ws) + 1), NEW j \in 1..(Len(ws) + 1), i < j PROVE more[i].by <= more[j].by
      <4>1. CASE j = Len(ws) + 1
        BY <2>1, <2>m, <3>2, <4>1
      <4>2. CASE j \in 1..Len(ws)
        <5>1. i \in 1..Len(ws)
          BY <2>d, <3>3, <4>2
        <5> QED BY <2>8, <2>m, <3>3, <4>2, <5>1
      <4> QED BY <3>1, <4>1, <4>2
    <3> QED BY <3>2, <3>3
  <2>11. ChainSoFar'
    <3>1. state'.wins = more /\ Len(more) = Len(ws) + 1 /\ DOMAIN more = 1..(Len(ws) + 1)
      BY <2>5, <2>7, <2>9 DEF more
    <3> QED BY <2>5, <2>8, <2>10, <3>1 DEF ChainSoFar, Stores!SetsFormAChain
  <2> QED BY <2>4, <2>6, <2>11
<1>6. CASE Stores!SetterCrash(c)
  <2>1. Stores!IdleSetter \in Setters /\ Stores!IdleSetter.at = "idle"
    BY DEF Stores!IdleSetter, Stores!Torn
  <2>2. /\ state' = [state EXCEPT !.lock = state.lock \ {c}, !.owner = state.owner \ {c}]
        /\ setter' = [setter EXCEPT ![c] = Stores!IdleSetter]
    BY <1>6 DEF Stores!SetterCrash
  <2>3. VersionTypes'
    BY <1>t, <2>1, <2>2 DEF VersionTypes
  <2>4. /\ state'.version = state.version /\ state'.current = state.current /\ state'.wins = state.wins
        /\ state'.lock = state.lock \ {c} /\ state'.owner = state.owner \ {c}
        /\ setter'[c].at = "idle" /\ \A x \in Actors \ {c} : setter'[x] = setter[x]
    BY <2>1, <2>2 DEF VersionTypes
  <2>5. SettersKnow' /\ WritersOwn'
    BY <2>4 DEF SettersKnow, WritersOwn
  <2>6. ChainSoFar'
    BY <2>4 DEF ChainSoFar, Stores!SetsFormAChain
  <2> QED BY <2>3, <2>5, <2>6
<1>7. ASSUME NEW expected \in 0..MaxWrites, NEW value \in Payloads, Stores!StartSet(c, expected, value)
      PROVE  VersionInv'
  <2> DEFINE r == [setter[c] EXCEPT !.at = "lock", !.expected = expected, !.value = value]
  <2>1. r \in Setters /\ r.at = "lock"
    <3>1. expected \in Nat
      BY StoresAssumption
    <3> QED BY <1>t, <3>1
  <2>2. setter' = [setter EXCEPT ![c] = r]
    BY <1>7 DEF Stores!StartSet, VersionTypes
  <2>3. state' = [state EXCEPT !.lock = state.lock, !.owner = state.owner]
    BY <1>7 DEF Stores!StartSet, VersionTypes
  <2> HIDE DEF r
  <2> QED BY <1>q, <1>t, <2>1, <2>2, <2>3
<1> QED
  BY <1>0, <1>1, <1>2, <1>3, <1>4, <1>5, <1>6, <1>7

-----------------------------------------------------------------------------
(* DurableStores: the audit sink.                                            *)

AuditFile == [id : Nat, whole : BOOLEAN, expired : BOOLEAN]
AuditTypes ==
  audit \in [files : Seq(AuditFile), open : BOOLEAN, next : Nat, made : Nat, records : SUBSET Nat, lost : SUBSET Nat]

\* An open sink hands out numbers past every file that is there.
NumbersAhead == audit.open => \A n \in Stores!AuditFiles : n < audit.next

AuditInv == AuditTypes /\ NumbersAhead /\ Stores!AuditNeverOverwrites

\* A bounded set of naturals has a largest element, so SequenceMax finds one.
LEMMA LargestExists ==
  ASSUME NEW S, NEW k \in Nat, S \subseteq 0..k, S # {}
  PROVE  \E n \in S : \A m \in S : m <= n
<1> DEFINE R == OpToRel(<, Nat)
           T == {k - n : n \in S}
<1>1. IsWellFoundedOn(R, Nat)
  BY NatLessThanWellFounded
<1>2. T \subseteq Nat /\ T # {}
  <2>1. \A n \in S : n \in 0..k
    OBVIOUS
  <2>2. \A n \in S : k - n \in Nat
    BY <2>1
  <2>3. PICK n \in S : TRUE
    OBVIOUS
  <2>4. k - n \in T
    OBVIOUS
  <2> QED BY <2>2, <2>4
<1>3. PICK x \in T : \A y \in T : ~(<<y, x>> \in R)
  <2> HIDE DEF R, T
  <2> QED BY <1>1, <1>2, WFMin
<1>4. \A y \in T : ~(y < x)
  BY <1>2, <1>3 DEF OpToRel
<1>5. PICK n \in S : x = k - n
  OBVIOUS
<1>6. ASSUME NEW m \in S PROVE m <= n
  <2>1. ~(k - m < k - n)
    BY <1>4, <1>5
  <2> QED BY <2>1
<1> QED BY <1>6

LEMMA SequenceMaxBounds ==
  ASSUME NEW S, NEW k \in Nat, S \subseteq 0..k
  PROVE  Stores!SequenceMax(S) \in Nat /\ \A m \in S : m <= Stores!SequenceMax(S)
<1>1. CASE S = {}
  BY <1>1 DEF Stores!SequenceMax
<1>2. CASE S # {}
  <2>1. \E n \in S : \A m \in S : m <= n
    BY <1>2, LargestExists
  <2>2. Stores!SequenceMax(S) \in S /\ \A m \in S : m <= Stores!SequenceMax(S)
    BY <1>2, <2>1 DEF Stores!SequenceMax
  <2>3. PICK top : top = Stores!SequenceMax(S)
    OBVIOUS
  <2>4. top \in 0..k
    BY <2>2, <2>3
  <2>5. top \in Nat
    BY <2>4
  <2> QED BY <2>2, <2>3, <2>5
<1> QED BY <1>1, <1>2

LEMMA AuditStarts == Stores!AuditInit => AuditInv
<1> SUFFICES ASSUME Stores!AuditInit PROVE AuditInv
  OBVIOUS
<1>1. << >> \in Seq(AuditFile)
  OBVIOUS
<1> QED
  BY <1>1 DEF Stores!AuditInit, AuditInv, AuditTypes, NumbersAhead, Stores!AuditNeverOverwrites

LEMMA AuditSteps == AuditInv /\ Stores!AuditNext => AuditInv'
<1> SUFFICES ASSUME AuditInv, Stores!AuditNext PROVE AuditInv'
  OBVIOUS
<1> USE DEF AuditInv
<1>t. /\ audit.files \in Seq(AuditFile) /\ audit.next \in Nat /\ audit.made \in Nat /\ audit.records \in SUBSET Nat
      /\ DOMAIN audit.files = 1..Len(audit.files) /\ Len(audit.files) \in Nat /\ audit.lost = {}
      /\ audit.open \in BOOLEAN
  BY DEF AuditTypes, Stores!AuditNeverOverwrites
<1>n. Stores!NoFile \in AuditFile
  BY DEF Stores!NoFile, AuditFile
<1>f. /\ Stores!AuditFiles \subseteq 1..Len(audit.files)
      /\ \A n \in Stores!AuditFiles : n \in Nat /\ n \in 0..Len(audit.files)
  BY <1>t DEF Stores!AuditFiles
<1>1. ASSUME NEW corrupt \in {"fail_fast", "skip_and_report"}, NEW retain \in BOOLEAN,
             Stores!OpenSink([corrupt |-> corrupt, retain |-> retain])
      PROVE  AuditInv'
  <2> DEFINE gone == {n \in Stores!AuditFiles : retain /\ Stores!FileAt(n).whole /\ Stores!FileAt(n).expired}
             kept == {n \in Stores!AuditFiles \ gone : Stores!FileAt(n).whole}
             files_ == [n \in DOMAIN audit.files |-> IF n \in gone THEN Stores!NoFile ELSE audit.files[n]]
             next_ == Stores!NextSequenceAfter(kept, Stores!AuditFiles \ gone)
  <2>1. audit' = [audit EXCEPT !.open = TRUE, !.records = kept, !.files = files_, !.next = next_]
    BY <1>1 DEF Stores!OpenSink
  <2>2. kept \subseteq Nat /\ kept \subseteq Stores!AuditFiles \ gone
    BY <1>f
  <2>3. files_ \in Seq(AuditFile)
    <3>1. files_ \in [1..Len(audit.files) -> AuditFile]
      BY <1>n, <1>t
    <3> HIDE DEF files_
    <3> QED BY <1>t, <3>1
  <2>4. next_ \in Nat /\ \A n \in Stores!AuditFiles \ gone : n < next_
    <3> DEFINE names == kept \cup (Stores!AuditFiles \ gone)
    <3>1. names \subseteq 0..Len(audit.files)
      BY <1>f
    <3>2. Stores!SequenceMax(names) \in Nat /\ \A m \in names : m <= Stores!SequenceMax(names)
      <4> HIDE DEF names
      <4> QED BY <1>t, <3>1, SequenceMaxBounds
    <3>3. next_ = Stores!SequenceMax(names) + 1
      BY DEF Stores!NextSequenceAfter
    <3>4. \A n \in Stores!AuditFiles \ gone : n \in names /\ n \in Nat
      BY <1>f, <1>t
    <3> HIDE DEF names, next_
    <3> QED BY <3>2, <3>3, <3>4
  <2>5. DOMAIN files_ = DOMAIN audit.files /\ \A n \in DOMAIN files_ : files_[n] # Stores!NoFile =>
          n \in Stores!AuditFiles \ gone
    BY DEF Stores!AuditFiles, Stores!FileAt
  <2> HIDE DEF gone, kept, files_, next_
  <2>6. AuditTypes'
    BY <2>1, <2>2, <2>3, <2>4 DEF AuditTypes
  <2>7. audit'.files = files_ /\ audit'.next = next_ /\ audit'.lost = audit.lost
    BY <2>1 DEF AuditTypes
  <2>8. Stores!AuditFiles' \subseteq Stores!AuditFiles \ gone
    BY <2>5, <2>7 DEF Stores!AuditFiles, Stores!FileAt
  <2>9. NumbersAhead' /\ Stores!AuditNeverOverwrites'
    BY <1>t, <2>4, <2>7, <2>8 DEF NumbersAhead, Stores!AuditNeverOverwrites
  <2> QED BY <2>6, <2>9
<1>2. ASSUME NEW outcome \in {"written", "torn", "refused"}, Stores!Record(outcome) PROVE AuditInv'
  <2> DEFINE made_ == [id |-> audit.made + 1, whole |-> outcome = "written", expired |-> FALSE]
             lost_ == IF outcome # "refused" /\ audit.next \in Stores!AuditFiles
                      THEN audit.lost \cup {audit.next} ELSE audit.lost
             files_ == IF outcome = "refused" THEN audit.files ELSE Stores!PutFile(audit.next, made_)
             records_ == IF outcome = "written" THEN audit.records \cup {audit.next} ELSE audit.records
  <2>1. /\ audit.open
        /\ audit' = [audit EXCEPT !.made = audit.made + 1, !.next = audit.next + 1, !.lost = lost_, !.files = files_,
                                  !.records = records_]
    BY <1>2 DEF Stores!Record
  <2>2. \A n \in Stores!AuditFiles : n < audit.next
    BY <2>1 DEF NumbersAhead
  <2>3. lost_ = {} /\ records_ \in SUBSET Nat
    BY <1>t, <2>2
  <2>4. made_ \in AuditFile
    BY <1>t DEF AuditFile
  <2> HIDE DEF made_
  <2>5. files_ \in Seq(AuditFile) /\ \A n \in DOMAIN files_ : files_[n] # Stores!NoFile =>
          n = audit.next \/ n \in Stores!AuditFiles
    <3>1. CASE outcome = "refused"
      BY <1>t, <3>1 DEF Stores!AuditFiles, Stores!FileAt
    <3>2. CASE outcome # "refused"
      <4> DEFINE end == IF audit.next > Len(audit.files) THEN audit.next ELSE Len(audit.files)
      <4>1. files_ = [m \in 1..end |-> IF m = audit.next THEN made_
                                       ELSE IF m \in DOMAIN audit.files THEN audit.files[m] ELSE Stores!NoFile]
        BY <3>2 DEF Stores!PutFile, Stores!FileAt
      <4>2. end \in Nat
        BY <1>t
      <4> HIDE DEF end, files_
      <4>3. files_ \in [1..end -> AuditFile]
        BY <1>n, <1>t, <2>4, <4>1
      <4>4. files_ \in Seq(AuditFile) /\ DOMAIN files_ = 1..end
        BY <4>2, <4>3
      <4>5. ASSUME NEW n \in 1..end, files_[n] # Stores!NoFile, n # audit.next PROVE n \in Stores!AuditFiles
        BY <4>1, <4>5 DEF Stores!AuditFiles, Stores!FileAt
      <4> QED BY <4>4, <4>5
    <3> QED BY <3>1, <3>2
  <2> HIDE DEF lost_, files_, records_
  <2>6. AuditTypes'
    <3>1. audit.made + 1 \in Nat /\ audit.next + 1 \in Nat /\ lost_ \in SUBSET Nat
      BY <1>t, <2>3
    <3> QED BY <2>1, <2>3, <2>5, <3>1 DEF AuditTypes
  <2>7. audit'.files = files_ /\ audit'.next = audit.next + 1 /\ audit'.lost = {}
    BY <2>1, <2>3 DEF AuditTypes
  <2>8. Stores!AuditFiles' \subseteq Stores!AuditFiles \cup {audit.next}
    BY <2>5, <2>7 DEF Stores!AuditFiles, Stores!FileAt
  <2>9. \A n \in Stores!AuditFiles : n \in Nat /\ n < audit.next + 1
    BY <1>f, <1>t, <2>2
  <2>10. NumbersAhead' /\ Stores!AuditNeverOverwrites'
    BY <1>t, <2>7, <2>8, <2>9 DEF NumbersAhead, Stores!AuditNeverOverwrites
  <2> QED BY <2>6, <2>10
<1>3. CASE Stores!CloseSink
  <2>1. audit' = [audit EXCEPT !.open = FALSE]
    BY <1>3 DEF Stores!CloseSink
  <2> QED BY <2>1 DEF AuditTypes, NumbersAhead, Stores!AuditNeverOverwrites
<1>4. CASE Stores!Age
  <2>1. PICK n \in Stores!AuditFiles : audit' = [audit EXCEPT !.files[n].expired = TRUE]
    BY <1>4 DEF Stores!Age
  <2> DEFINE old_ == [audit.files[n] EXCEPT !.expired = TRUE]
             files_ == [audit.files EXCEPT ![n] = old_]
  <2>2. n \in 1..Len(audit.files) /\ audit.files[n] \in AuditFile
    BY <1>f, <1>t
  <2>3. old_ \in AuditFile
    BY <2>2 DEF AuditFile
  <2>4. audit' = [audit EXCEPT !.files = files_]
    BY <2>1
  <2> HIDE DEF old_
  <2>5. files_ \in Seq(AuditFile) /\ DOMAIN files_ = DOMAIN audit.files
        /\ \A m \in DOMAIN files_ : m # n => files_[m] = audit.files[m]
    <3>1. files_ \in [1..Len(audit.files) -> AuditFile]
      BY <1>t, <2>2, <2>3
    <3> QED BY <1>t, <3>1
  <2> HIDE DEF files_
  <2>6. AuditTypes'
    BY <2>4, <2>5 DEF AuditTypes
  <2>7. audit'.files = files_ /\ audit'.next = audit.next /\ audit'.lost = audit.lost /\ audit'.open = audit.open
    BY <2>4 DEF AuditTypes
  <2>8. Stores!AuditFiles' \subseteq Stores!AuditFiles
    BY <2>5, <2>7 DEF Stores!AuditFiles, Stores!FileAt
  <2>9. NumbersAhead' /\ Stores!AuditNeverOverwrites'
    BY <1>t, <2>7, <2>8 DEF NumbersAhead, Stores!AuditNeverOverwrites
  <2> QED BY <2>6, <2>9
<1> QED
  BY <1>1, <1>2, <1>3, <1>4 DEF Stores!AuditNext

-----------------------------------------------------------------------------
(* Discovery.                                                                *)

Found == [present : BOOLEAN, found : SUBSET CandidateIds, expires : Nat]
FinderTypes ==
  /\ Finder!TypeOK
  /\ diDisk \in [Finder!SourceSet -> Found] /\ cache \in [Finder!SourceSet -> Found]
  /\ build \in [pc : {"idle", "scan", "merge", "accepted", "refused"}, seen : [Finder!SourceSet -> SUBSET CandidateIds],
                failed : SUBSET Finder!SourceSet, at : Nat, unsaved : BOOLEAN]

\* The partition of a source that the merge is past is the scan's.
Merged(s) == s \in build.failed \/ build.unsaved \/ (cache[s].present /\ cache[s].found = build.seen[s])
MergedSoFar ==
  /\ build.pc = "merge" => \A i \in DOMAIN Sources : i < build.at => Merged(Sources[i])
  /\ build.pc = "accepted" => \A s \in Finder!SourceSet : cache[s].present /\ cache[s].found = build.seen[s]

FinderInv == FinderTypes /\ MergedSoFar

LEMMA SourcesTyped ==
  /\ Len(Sources) \in Nat /\ DOMAIN Sources = 1..Len(Sources)
  /\ \A i \in 1..Len(Sources) : Sources[i] \in Finder!SourceSet
  /\ \A s \in Finder!SourceSet : \E i \in 1..Len(Sources) : s = Sources[i]
<1>1. Sources \in Seq({Sources[i] : i \in DOMAIN Sources})
  BY DiscoveryAssumption
<1>2. Len(Sources) \in Nat /\ DOMAIN Sources = 1..Len(Sources)
  BY <1>1
<1> QED BY <1>2 DEF Finder!SourceSet, Finder!ToSet

LEMMA FinderStarts == Finder!DiscoveryInit => FinderInv
<1> SUFFICES ASSUME Finder!DiscoveryInit PROVE FinderInv
  OBVIOUS
<1>1. Finder!NoPartition \in Found /\ Finder!NoPartition.found = {}
  BY DEF Finder!NoPartition, Found
<1>2. Finder!NoBuild.pc = "idle" /\ Finder!NoBuild.at = 1
  BY DEF Finder!NoBuild
<1>3. FinderTypes
  <2>1. diDisk \in [Finder!SourceSet -> Found] /\ cache \in [Finder!SourceSet -> Found]
    BY <1>1 DEF Finder!DiscoveryInit
  <2>2. build \in [pc : {"idle", "scan", "merge", "accepted", "refused"}, seen : [Finder!SourceSet -> SUBSET CandidateIds],
                   failed : SUBSET Finder!SourceSet, at : Nat, unsaved : BOOLEAN]
    BY DEF Finder!DiscoveryInit, Finder!NoBuild
  <2>3. Finder!TypeOK
    BY <1>1, <1>2, SourcesTyped, DiscoveryAssumption DEF Finder!DiscoveryInit, Finder!TypeOK
  <2> QED BY <2>1, <2>2, <2>3 DEF FinderTypes
<1>4. MergedSoFar
  BY <1>2 DEF MergedSoFar, Finder!DiscoveryInit
<1> QED BY <1>3, <1>4 DEF FinderInv

\* What a step must show of the types, the machine's own among them.
LEMMA FinderTypesFrom ==
  ASSUME FinderTypes,
         world' \in [Finder!SourceSet -> SUBSET CandidateIds],
         diDisk' \in [Finder!SourceSet -> Found], cache' \in [Finder!SourceSet -> Found],
         build' \in [pc : {"idle", "scan", "merge", "accepted", "refused"}, seen : [Finder!SourceSet -> SUBSET CandidateIds],
                     failed : SUBSET Finder!SourceSet, at : Nat, unsaved : BOOLEAN],
         build'.at \in 1..(Len(Sources) + 1), diClock' \in 0..DiMaxClock
  PROVE  FinderTypes'
<1>1. \A s \in Finder!SourceSet : diDisk'[s].found \subseteq CandidateIds /\ cache'[s].found \subseteq CandidateIds
  BY DEF Found
<1>2. Finder!TypeOK'
  BY <1>1 DEF Finder!TypeOK
<1> QED BY <1>2 DEF FinderTypes

LEMMA FinderSteps == FinderInv /\ Finder!DiscoveryNext => FinderInv'
<1> SUFFICES ASSUME FinderInv, Finder!DiscoveryNext PROVE FinderInv'
  OBVIOUS
<1> USE DEF FinderInv
<1> DEFINE Builds == [pc : {"idle", "scan", "merge", "accepted", "refused"}, seen : [Finder!SourceSet -> SUBSET CandidateIds],
                      failed : SUBSET Finder!SourceSet, at : Nat, unsaved : BOOLEAN]
<1>t. /\ world \in [Finder!SourceSet -> SUBSET CandidateIds] /\ diDisk \in [Finder!SourceSet -> Found]
      /\ cache \in [Finder!SourceSet -> Found] /\ build \in Builds /\ build.at \in 1..(Len(Sources) + 1)
      /\ diClock \in 0..DiMaxClock
  BY DEF FinderTypes, Finder!TypeOK
<1>n. Finder!NoPartition \in Found
  BY DEF Finder!NoPartition, Found
<1>b. Finder!NoBuild \in Builds /\ Finder!NoBuild.pc = "idle" /\ Finder!NoBuild.at = 1
  BY DEF Finder!NoBuild
<1>l. Len(Sources) \in Nat /\ 1 \in 1..(Len(Sources) + 1)
  BY SourcesTyped
<1>1. CASE Finder!OpenCache
  <2>1. cache' \in [Finder!SourceSet -> Found] /\ diDisk' = cache' /\ UNCHANGED <<world, diClock>>
    BY <1>1, <1>n, <1>t DEF Finder!OpenCache
  <2>2. build' \in Builds /\ build'.pc = "scan" /\ build'.at = 1
    BY <1>1, <1>b DEF Finder!OpenCache
  <2>3. FinderTypes'
    BY <1>l, <1>t, <2>1, <2>2, FinderTypesFrom
  <2>4. MergedSoFar'
    BY <2>2 DEF MergedSoFar
  <2> QED BY <2>3, <2>4
<1>2. ASSUME NEW ok \in BOOLEAN, Finder!ScanSource(ok) PROVE FinderInv'
  <2> DEFINE s == Sources[build.at]
             seen_ == IF ok THEN world[s] ELSE {}
  <2>1. /\ build.pc = "scan" /\ build.at <= Len(Sources)
        /\ build' = [build EXCEPT !.seen[s] = seen_, !.failed = IF ok THEN build.failed ELSE build.failed \union {s},
                                  !.at = build.at + 1]
        /\ UNCHANGED <<world, diDisk, cache, diClock>>
    BY <1>2 DEF Finder!ScanSource
  <2>2. build.at \in 1..Len(Sources)
    BY <1>l, <1>t, <2>1
  <2>3. s \in Finder!SourceSet
    BY <2>2, SourcesTyped
  <2>4. seen_ \in SUBSET CandidateIds
    BY <1>t, <2>3
  <2>5. build.at + 1 \in 1..(Len(Sources) + 1) /\ build.at + 1 \in Nat
    BY <1>l, <2>2
  <2> HIDE DEF s, seen_
  <2>6. [build.seen EXCEPT ![s] = seen_] \in [Finder!SourceSet -> SUBSET CandidateIds]
    BY <1>t, <2>3, <2>4
  <2>7. (IF ok THEN build.failed ELSE build.failed \union {s}) \in SUBSET Finder!SourceSet
    BY <1>t, <2>3
  <2>8. build' \in Builds /\ build'.pc = "scan" /\ build'.at = build.at + 1
    BY <1>t, <2>1, <2>5, <2>6, <2>7
  <2>9. FinderTypes'
    BY <1>t, <2>1, <2>5, <2>8, FinderTypesFrom
  <2>10. MergedSoFar'
    BY <2>8 DEF MergedSoFar
  <2> QED BY <2>9, <2>10
<1>3. CASE Finder!ScanDone
  <2>1. build' = [build EXCEPT !.pc = "merge", !.at = 1] /\ UNCHANGED <<world, diDisk, cache, diClock>>
    BY <1>3 DEF Finder!ScanDone
  <2>2. build' \in Builds /\ build'.pc = "merge" /\ build'.at = 1
    BY <1>t, <2>1
  <2>3. FinderTypes'
    BY <1>l, <1>t, <2>1, <2>2, FinderTypesFrom
  <2>4. MergedSoFar'
    BY <2>2, SourcesTyped DEF MergedSoFar
  <2> QED BY <2>3, <2>4
<1>4. ASSUME NEW written \in BOOLEAN, Finder!MergeSource(written) PROVE FinderInv'
  <2> DEFINE s == Sources[build.at]
             part_ == Finder!Partition(build.seen[s], diClock)
  <2>1. build.pc = "merge" /\ build.at <= Len(Sources) /\ UNCHANGED <<world, diClock>>
    BY <1>4 DEF Finder!MergeSource
  <2>2. build.at \in 1..Len(Sources)
    BY <1>l, <1>t, <2>1
  <2>3. s \in Finder!SourceSet
    BY <2>2, SourcesTyped
  <2>4. build.at + 1 \in 1..(Len(Sources) + 1) /\ build.at + 1 \in Nat
    BY <1>l, <2>2
  <2>5. \A i \in 1..Len(Sources) : i < build.at + 1 => i < build.at \/ i = build.at
    BY <2>2
  <2>m. \A i \in 1..Len(Sources) : i < build.at => Merged(Sources[i])
    BY <2>1, SourcesTyped DEF MergedSoFar
  <2>6. CASE s \in build.failed
    <3>1. build' = [build EXCEPT !.at = build.at + 1] /\ UNCHANGED <<diDisk, cache>>
      BY <1>4, <2>6 DEF Finder!MergeSource
    <3>2. build' \in Builds /\ build'.pc = "merge" /\ build'.at = build.at + 1 /\ build'.failed = build.failed
          /\ build'.unsaved = build.unsaved /\ build'.seen = build.seen
      BY <1>t, <2>1, <2>4, <3>1
    <3>3. FinderTypes'
      BY <1>t, <2>1, <2>4, <3>1, <3>2, FinderTypesFrom
    <3>4. \A i \in 1..Len(Sources) : i < build'.at => Merged(Sources[i])'
      BY <2>5, <2>6, <2>m, <3>1, <3>2 DEF Merged
    <3>5. MergedSoFar'
      BY <3>2, <3>4, SourcesTyped DEF MergedSoFar
    <3> QED BY <3>3, <3>5
  <2>7. CASE s \notin build.failed /\ written
    <3>1. /\ build' = [build EXCEPT !.at = build.at + 1]
          /\ diDisk' = [diDisk EXCEPT ![s] = part_] /\ cache' = [cache EXCEPT ![s] = part_]
      BY <1>4, <2>7 DEF Finder!MergeSource
    <3>2. build' \in Builds /\ build'.pc = "merge" /\ build'.at = build.at + 1 /\ build'.failed = build.failed
          /\ build'.unsaved = build.unsaved /\ build'.seen = build.seen
      BY <1>t, <2>1, <2>4, <3>1
    <3>3. part_ \in Found /\ part_.present /\ part_.found = build.seen[s]
      <4>1. diClock + Ttl \in Nat
        BY <1>t, DiscoveryAssumption
      <4>2. build.seen[s] \in SUBSET CandidateIds
        BY <1>t, <2>3
      <4> QED BY <4>1, <4>2 DEF Finder!Partition, Found
    <3> HIDE DEF part_
    <3>4. diDisk' \in [Finder!SourceSet -> Found] /\ cache' \in [Finder!SourceSet -> Found]
      BY <1>t, <2>3, <3>1, <3>3
    <3>5. FinderTypes'
      BY <1>t, <2>1, <2>4, <3>2, <3>4, FinderTypesFrom
    <3>6. cache'[s] = part_ /\ \A x \in Finder!SourceSet : x # s => cache'[x] = cache[x]
      BY <1>t, <2>3, <3>1
    <3>7. ASSUME NEW i \in 1..Len(Sources), i < build'.at PROVE Merged(Sources[i])'
      <4>1. Sources[i] \in Finder!SourceSet
        BY SourcesTyped
      <4>2. CASE Sources[i] = s
        BY <3>2, <3>3, <3>6, <4>2 DEF Merged
      <4>3. CASE Sources[i] # s
        <5>1. i < build.at
          BY <2>5, <3>2, <3>7, <4>3
        <5>2. Merged(Sources[i])
          BY <2>m, <5>1
        <5> QED BY <3>2, <3>6, <4>1, <4>3, <5>2 DEF Merged
      <4> QED BY <4>2, <4>3
    <3>8. MergedSoFar'
      BY <3>2, <3>7, SourcesTyped DEF MergedSoFar
    <3> QED BY <3>5, <3>8
  <2>8. CASE s \notin build.failed /\ ~written
    <3>1. build' = [build EXCEPT !.at = Len(Sources) + 1, !.unsaved = TRUE] /\ UNCHANGED <<diDisk, cache>>
      BY <1>4, <2>8 DEF Finder!MergeSource
    <3>2. build' \in Builds /\ build'.pc = "merge" /\ build'.at = Len(Sources) + 1 /\ build'.unsaved
      <4>1. PICK end \in Nat : end = Len(Sources) + 1
        BY <1>l
      <4>2. build' = [build EXCEPT !.at = end, !.unsaved = TRUE]
        BY <3>1, <4>1
      <4>3. build' \in Builds
        BY <1>t, <4>2
      <4>4. build'.pc = "merge" /\ build'.at = end /\ build'.unsaved = TRUE
        BY <1>t, <2>1, <4>2
      <4> QED BY <4>1, <4>3, <4>4
    <3>3. Len(Sources) + 1 \in 1..(Len(Sources) + 1)
      BY <1>l
    <3>4. FinderTypes'
      BY <1>t, <2>1, <3>1, <3>2, <3>3, FinderTypesFrom
    <3>5. MergedSoFar'
      BY <3>2 DEF MergedSoFar, Merged
    <3> QED BY <3>4, <3>5
  <2> QED BY <2>6, <2>7, <2>8
<1>5. CASE Finder!Preflight
  <2>1. /\ build.pc = "merge" /\ build.at > Len(Sources) /\ UNCHANGED <<world, diDisk, cache, diClock>>
        /\ build' = [build EXCEPT !.pc = IF build.failed # {} \/ build.unsaved THEN "refused" ELSE "accepted"]
    BY <1>5 DEF Finder!Preflight
  <2>2. build' \in Builds /\ build'.at = build.at /\ build'.seen = build.seen
    BY <1>t, <2>1
  <2>3. build'.pc = "accepted" => build.failed = {} /\ ~build.unsaved
    BY <1>t, <2>1
  <2>4. FinderTypes'
    BY <1>t, <2>1, <2>2, FinderTypesFrom
  <2>5. ASSUME NEW s \in Finder!SourceSet, build'.pc = "accepted"
        PROVE  cache'[s].present /\ cache'[s].found = build'.seen[s]
    <3>1. PICK i \in 1..Len(Sources) : s = Sources[i]
      BY SourcesTyped
    <3>2. i < build.at
      BY <1>l, <1>t, <2>1
    <3>3. Merged(s)
      BY <2>1, <3>1, <3>2, SourcesTyped DEF MergedSoFar
    <3> QED BY <2>1, <2>2, <2>3, <2>5, <3>3 DEF Merged
  <2>6. build'.pc # "merge"
    BY <1>t, <2>1
  <2>7. MergedSoFar'
    BY <2>5, <2>6 DEF MergedSoFar
  <2> QED BY <2>4, <2>7
<1>6. CASE Finder!Edit
  <2>1. world' \in [Finder!SourceSet -> SUBSET CandidateIds] /\ UNCHANGED <<diDisk, cache, build, diClock>>
    BY <1>6, <1>t DEF Finder!Edit
  <2>2. FinderTypes'
    BY <1>t, <2>1, FinderTypesFrom
  <2> QED BY <2>1, <2>2 DEF MergedSoFar, Merged
<1>7. CASE Finder!CrashBuild
  <2>1. cache' \in [Finder!SourceSet -> Found] /\ build' = Finder!NoBuild /\ UNCHANGED <<world, diDisk, diClock>>
    BY <1>7, <1>n DEF Finder!CrashBuild
  <2>2. FinderTypes'
    BY <1>b, <1>l, <1>t, <2>1, FinderTypesFrom
  <2> QED BY <1>b, <2>1, <2>2 DEF MergedSoFar
<1>8. CASE Finder!Tick
  <2>1. diClock < DiMaxClock /\ diClock' = diClock + 1 /\ UNCHANGED <<world, diDisk, cache, build>>
    BY <1>8 DEF Finder!Tick
  <2>2. diClock' \in 0..DiMaxClock
    BY <1>t, <2>1, DiscoveryAssumption
  <2>3. FinderTypes'
    BY <1>t, <2>1, <2>2, FinderTypesFrom
  <2> QED BY <2>1, <2>3 DEF MergedSoFar, Merged
<1> QED
  BY <1>1, <1>2, <1>3, <1>4, <1>5, <1>6, <1>7, <1>8 DEF Finder!DiscoveryNext

LEMMA FinderOffersItsScan == FinderInv => Finder!TypeOK /\ Finder!AcceptedIsScanned
<1> SUFFICES ASSUME FinderInv PROVE Finder!AcceptedIsScanned
  BY DEF FinderInv, FinderTypes
<1> SUFFICES ASSUME build.pc = "accepted"
             PROVE  Finder!Snapshot(cache) =
                      Finder!Snapshot([s \in Finder!SourceSet |-> Finder!Partition(build.seen[s], diClock)])
  BY DEF Finder!AcceptedIsScanned
<1> DEFINE scan_ == [s \in Finder!SourceSet |-> Finder!Partition(build.seen[s], diClock)]
<1>1. \A s \in Finder!SourceSet : /\ cache[s].present /\ cache[s].found = build.seen[s]
                                  /\ scan_[s].present /\ scan_[s].found = build.seen[s]
  BY DEF FinderInv, MergedSoFar, Finder!Partition
<1> HIDE DEF scan_
<1>2. \A c \in CandidateIds \X Finder!SourceSet : c[2] \in Finder!SourceSet
  OBVIOUS
<1>3. Finder!Snapshot(cache) = Finder!Snapshot(scan_)
  BY <1>1, <1>2 DEF Finder!Snapshot
<1> QED BY <1>3 DEF scan_

-----------------------------------------------------------------------------
(* The stores together.                                                      *)

StoresInv ==
  /\ part = "backend" => BackendInv
  /\ part = "artifact" => ArtifactInv
  /\ part = "versions" => VersionInv
  /\ part = "audit" => AuditInv
  /\ part = "discovery" => FinderInv

\* For every set of processes and contents, every bound and every sequence of
\* sources: the manifest on disk means the layout, reads return what was put,
\* compare_and_set loses no update, the audit sink overwrites no file, and an
\* accepted discovery generation holds its own scan (durable_backend.rs,
\* artifact_store.rs, state_store.rs, audit_store.rs, eva-discovery service.rs).
THEOREM StoresStayWhole == SystemSpec => []StoresAreWhole
<1>1. SystemInit => StoresInv
  BY BackendStarts, ArtifactStarts, VersionStarts, AuditStarts, FinderStarts DEF SystemInit, StoresInv
<1>2. StoresInv /\ [SystemNext]_all => StoresInv'
  <2> SUFFICES ASSUME StoresInv, [SystemNext]_all PROVE StoresInv'
    OBVIOUS
  <2>1. CASE SystemNext
    BY <2>1, BackendSteps, ArtifactSteps, VersionSteps, AuditSteps, FinderSteps DEF SystemNext, Step, StoresInv
  <2>2. CASE UNCHANGED all
    <3>0. /\ part' = part /\ UNCHANGED backendVars /\ UNCHANGED artifactVars /\ UNCHANGED versionsVars
          /\ UNCHANGED auditVars /\ UNCHANGED discoveryVars
      BY <2>2 DEF all
    <3>1. part = "backend" => BackendInv'
      BY <3>0 DEF backendVars, StoresInv, BackendInv, BackendTypes, LayoutGuarded
    <3>2. part = "artifact" => ArtifactInv'
      BY <3>0 DEF artifactVars, StoresInv, ArtifactInv, ArtifactTypes, PutIsKept
    <3>3. part = "versions" => VersionInv'
      BY <3>0 DEF versionsVars, StoresInv, VersionInv, VersionTypes, SettersKnow, ChainSoFar, WritersOwn,
         Stores!SetsFormAChain
    <3>4. part = "audit" => AuditInv'
      <4>1. Stores!AuditFiles' = Stores!AuditFiles
        BY <3>0 DEF auditVars, Stores!AuditFiles, Stores!FileAt
      <4> QED BY <3>0, <4>1 DEF auditVars, StoresInv, AuditInv, AuditTypes, NumbersAhead, Stores!AuditNeverOverwrites
    <3>5. part = "discovery" => FinderInv'
      BY <3>0 DEF discoveryVars, StoresInv, FinderInv, FinderTypes, MergedSoFar, Merged, Finder!TypeOK
    <3> QED BY <3>0, <3>1, <3>2, <3>3, <3>4, <3>5 DEF StoresInv
  <2> QED BY <2>1, <2>2
<1>3. StoresInv => StoresAreWhole
  BY BackendIsLaidOut, ArtifactsAreWhole, FinderOffersItsScan
     DEF StoresInv, StoresAreWhole, VersionInv, ChainSoFar, AuditInv
<1> QED
  BY <1>1, <1>2, <1>3, PTL DEF SystemSpec

-----------------------------------------------------------------------------
(* ConfigGenerations.                                                        *)

Versions == [generation : 0..CfMaxGen + 1, digest : Configs \cup {"none"}]
Manifests == [phase : {"absent", "stable", "prepared", "promoted"}, active : Versions, previous : Versions,
              candidate : Versions]
Watchers == [state : {"off", "running", "failed"}, seen : Configs \cup Broken \cup {"none"}, pending : BOOLEAN,
             batches : Int]
Daemon == {"down", "build", "watch", "loop", "swap", "promote", "retire"}

ConfigTypes ==
  /\ cfDisk \in Configs \cup Broken /\ store \in Manifests /\ rt \in Versions
  /\ loaded \in Configs \cup {"none"} /\ cfPc \in Daemon
  /\ watcher \in Watchers

\* The manifest can be read back, and only the one before the first start is absent.
ManifestSound ==
  /\ store.phase = "absent" => store = Config!Absent
  /\ store.phase # "absent" => Config!decode(store)

\* Where the promotion stands, the manifest and the runtime stand.
PromotionInStep ==
  /\ cfPc = "build" => loaded \in Configs
  /\ cfPc \in {"watch", "loop"} => store.phase = "stable" /\ rt.digest = store.active.digest /\ rt.generation > 0
  /\ cfPc \in {"swap", "promote"} =>
       store.phase = "prepared" /\ store.candidate.generation > store.active.generation
  /\ cfPc = "promote" => rt = store.candidate
  /\ cfPc = "retire" => store.phase = "promoted" /\ rt = store.active

ConfigInv == ConfigTypes /\ ManifestSound /\ PromotionInStep

LEMMA VersionFacts ==
  /\ Config!NoGen \in Versions /\ Config!NoGen.generation = 0
  /\ Config!Absent \in Manifests /\ Config!Absent.phase = "absent" /\ Config!Absent.active = Config!NoGen
BY ConfigAssumption DEF Config!NoGen, Config!Absent, Versions, Manifests

LEMMA ConfigStarts == Config!Init => ConfigInv
<1> SUFFICES ASSUME Config!Init PROVE ConfigInv
  OBVIOUS
<1>1. ConfigTypes
  BY VersionFacts DEF Config!Init, Config!NoWatch, ConfigTypes, Daemon, Watchers
<1> QED
  BY <1>1, VersionFacts DEF Config!Init, ConfigInv, ManifestSound, PromotionInStep

\* What the operations of the store make of a manifest.
LEMMA RecoverFacts ==
  ASSUME NEW m \in Manifests, m.phase # "absent", Config!decode(m)
  PROVE  LET n == Config!recover(m) IN
         /\ n \in Manifests /\ n.phase = "stable" /\ n.active = m.active /\ Config!decode(n)
BY VersionFacts DEF Manifests, Config!recover, Config!decode

LEMMA PrepareFacts ==
  ASSUME NEW m \in Manifests, NEW g \in Versions, m.phase # "absent", Config!decode(m), Config!MayPrepare(m, g)
  PROVE  LET n == Config!prepare(m, g) IN
         /\ n \in Manifests /\ n.phase = "prepared" /\ n.active = m.active /\ n.candidate = g /\ Config!decode(n)
         /\ g.generation > m.active.generation
<1> DEFINE w == Config!recover(m)
<1>1. w \in Manifests /\ w.phase = "stable" /\ w.active = m.active /\ Config!decode(w)
  BY RecoverFacts
<1>2. g.generation > m.active.generation /\ m.active.generation > 0
  BY <1>1 DEF Config!MayPrepare, Config!decode
<1>3. g # Config!NoGen
  <2>1. g.generation # 0
    BY <1>2 DEF Manifests, Versions
  <2> QED BY <2>1, VersionFacts
<1>4. Config!prepare(m, g) = [w EXCEPT !.phase = "prepared", !.candidate = g]
  BY DEF Config!prepare
<1> HIDE DEF w
<1> QED
  BY <1>1, <1>2, <1>3, <1>4 DEF Manifests, Config!decode

LEMMA PromoteFacts ==
  ASSUME NEW m \in Manifests, m.phase = "prepared", Config!decode(m),
         m.candidate.generation > m.active.generation
  PROVE  LET n == Config!promote(m) IN
         /\ n \in Manifests /\ n.phase = "promoted" /\ n.active = m.candidate /\ Config!decode(n)
<1>1. m.active.generation > 0 /\ m.candidate.generation > 0
  BY DEF Config!decode, Manifests, Versions
<1>2. m.active # Config!NoGen
  BY <1>1, VersionFacts DEF Manifests, Versions
<1>3. Config!promote(m) \in Manifests /\ Config!promote(m).phase = "promoted"
      /\ Config!promote(m).active = m.candidate /\ Config!promote(m).previous = m.active
      /\ Config!promote(m).candidate = Config!NoGen
  BY VersionFacts DEF Config!promote, Manifests
<1> QED
  BY <1>1, <1>2, <1>3 DEF Config!decode

LEMMA RetireFacts ==
  ASSUME NEW m \in Manifests, m.phase = "promoted", Config!decode(m)
  PROVE  LET n == Config!retire(m) IN
         /\ n \in Manifests /\ n.phase = "stable" /\ n.active = m.active /\ Config!decode(n)
BY VersionFacts DEF Config!retire, Manifests, Config!decode

\* A step of the machine keeps the invariant and moves the active record forward only.
StoreAdvances ==
  /\ store'.active.generation >= store.active.generation
  /\ store'.active.generation = store.active.generation => store'.active = store.active

LEMMA ConfigSteps == ConfigInv /\ Config!Next => ConfigInv' /\ StoreAdvances
<1> SUFFICES ASSUME ConfigInv, Config!Next PROVE ConfigInv' /\ StoreAdvances
  OBVIOUS
<1> USE DEF ConfigInv
<1>t. /\ cfDisk \in Configs \cup Broken /\ store \in Manifests /\ rt \in Versions
      /\ loaded \in Configs \cup {"none"} /\ cfPc \in Daemon /\ watcher \in Watchers
      /\ store.active \in Versions /\ store.candidate \in Versions /\ store.active.generation \in Int
  BY DEF ConfigTypes, Manifests, Versions
<1>p. store.phase # "absent" => store.active.generation > 0 /\ Config!decode(store)
  BY DEF ManifestSound, Config!decode
<1>w. Config!NoWatch \in Watchers /\ Config!NoGen \in Versions
  BY VersionFacts DEF Config!NoWatch, Watchers
\* Steps that leave the manifest alone.
<1>q. ASSUME UNCHANGED store, cfDisk' \in Configs \cup Broken, rt' \in Versions, loaded' \in Configs \cup {"none"},
             cfPc' \in Daemon, watcher' \in Watchers, PromotionInStep'
      PROVE  ConfigInv' /\ StoreAdvances
  <2>1. ConfigTypes'
    BY <1>q, <1>t DEF ConfigTypes
  <2>2. ManifestSound'
    BY <1>q DEF ManifestSound
  <2>3. StoreAdvances
    BY <1>q, <1>t DEF StoreAdvances
  <2> QED BY <1>q, <2>1, <2>2, <2>3
\* Steps that write it.
<1>m. ASSUME store' \in Manifests, store'.phase # "absent", Config!decode(store)', StoreAdvances,
             cfDisk' \in Configs \cup Broken, rt' \in Versions, loaded' \in Configs \cup {"none"},
             cfPc' \in Daemon, watcher' \in Watchers, PromotionInStep'
      PROVE  ConfigInv' /\ StoreAdvances
  BY <1>m DEF ConfigTypes, ManifestSound
<1>s. ASSUME Config!Stop
      PROVE  /\ PromotionInStep' /\ rt' \in Versions /\ loaded' \in Configs \cup {"none"} /\ cfPc' \in Daemon
             /\ watcher' \in Watchers
  BY <1>s, <1>w DEF Config!Stop, PromotionInStep, Daemon
<1>1. CASE Config!LoadProject
  <2>1. /\ UNCHANGED <<cfDisk, store, rt, watcher>> /\ loaded' \in Configs /\ cfPc' = "build"
    BY <1>1 DEF Config!LoadProject
  <2>2. PromotionInStep'
    BY <2>1 DEF PromotionInStep
  <2> QED BY <1>q, <1>t, <2>1, <2>2 DEF Daemon
<1>2. CASE Config!BuildRuntime
  <2> DEFINE g == Config!Record(1, loaded)
             m == Config!initialize(store, g)
  <2>1. /\ cfPc = "build" /\ store' = m /\ UNCHANGED cfDisk
        /\ IF m.active.digest = loaded
           THEN rt' = g /\ cfPc' = "watch" /\ UNCHANGED <<loaded, watcher>>
           ELSE Config!Stop
    BY <1>2 DEF Config!BuildRuntime
  <2>2. loaded \in Configs
    BY <2>1 DEF PromotionInStep
  <2>3. g \in Versions /\ g.generation = 1 /\ g.digest = loaded
    BY <2>2, ConfigAssumption DEF Config!Record, Versions
  <2>4. m \in Manifests /\ m.phase = "stable" /\ Config!decode(m)
        /\ (store = Config!Absent => m.active = g) /\ (store # Config!Absent => m.active = store.active)
    <3>1. CASE store = Config!Absent
      <4>1. m = [Config!Absent EXCEPT !.phase = "stable", !.active = g]
        BY <3>1 DEF Config!initialize
      <4> HIDE DEF g, m
      <4>2. m \in Manifests /\ m.phase = "stable" /\ m.active = g
        BY <2>3, <4>1, VersionFacts DEF Manifests
      <4>3. m.previous = Config!NoGen /\ m.candidate = Config!NoGen
        BY <4>1 DEF Config!Absent
      <4> QED BY <2>3, <3>1, <4>2, <4>3 DEF Config!decode
    <3>2. CASE store # Config!Absent
      <4>1. store.phase # "absent" /\ Config!decode(store)
        BY <1>p, <3>2 DEF ManifestSound
      <4>2. m = Config!recover(store)
        BY <3>2 DEF Config!initialize
      <4> HIDE DEF m
      <4> QED BY <1>t, <3>2, <4>1, <4>2, RecoverFacts
    <3> QED BY <3>1, <3>2
  <2> HIDE DEF g, m
  <2>5. StoreAdvances
    <3>1. store = Config!Absent => store.active.generation = 0
      BY VersionFacts
    <3> QED BY <1>t, <2>1, <2>3, <2>4, <3>1 DEF StoreAdvances
  <2>6. store' \in Manifests /\ store'.phase # "absent" /\ Config!decode(store)'
    BY <2>1, <2>4 DEF Config!decode
  <2>7. CASE m.active.digest = loaded
    <3>1. rt' = g /\ cfPc' = "watch" /\ UNCHANGED <<loaded, watcher>>
      BY <2>1, <2>7
    <3>2. PromotionInStep'
      BY <2>1, <2>3, <2>4, <2>7, <3>1 DEF PromotionInStep
    <3> QED BY <1>m, <1>t, <2>1, <2>3, <2>5, <2>6, <3>1, <3>2 DEF Daemon
  <2>8. CASE m.active.digest # loaded
    BY <1>m, <1>s, <1>t, <2>1, <2>5, <2>6, <2>8
  <2> QED BY <2>7, <2>8
<1>3. CASE Config!StartWatcher
  <2>1. /\ cfPc = "watch" /\ cfPc' = "loop" /\ UNCHANGED <<cfDisk, store, rt, loaded>>
        /\ watcher' = [Config!NoWatch EXCEPT !.state = "running", !.seen = cfDisk]
    BY <1>3 DEF Config!StartWatcher
  <2>2. watcher' \in Watchers
    BY <1>t, <1>w, <2>1 DEF Watchers
  <2>3. PromotionInStep'
    BY <2>1 DEF PromotionInStep
  <2> QED BY <1>q, <1>t, <2>1, <2>2, <2>3 DEF Daemon
<1>4. CASE Config!watch_loop
  <2>1. UNCHANGED <<cfDisk, store, rt, loaded, cfPc>>
    BY <1>4 DEF Config!watch_loop
  <2>2. watcher' \in Watchers
    <3>1. \/ watcher' = [watcher EXCEPT !.seen = cfDisk, !.pending = TRUE]
          \/ watcher' = [watcher EXCEPT !.pending = FALSE, !.batches = @ + 1]
          \/ watcher' = [watcher EXCEPT !.state = "failed"]
      BY <1>4 DEF Config!watch_loop
    <3>2. CASE watcher' = [watcher EXCEPT !.seen = cfDisk, !.pending = TRUE]
      BY <1>t, <3>2 DEF Watchers
    <3>3. CASE watcher' = [watcher EXCEPT !.pending = FALSE, !.batches = @ + 1]
      <4>1. PICK k \in Int : k = watcher.batches + 1
        BY <1>t DEF Watchers
      <4>2. watcher' = [watcher EXCEPT !.pending = FALSE, !.batches = k]
        BY <3>3, <4>1
      <4> QED BY <1>t, <4>2 DEF Watchers
    <3>4. CASE watcher' = [watcher EXCEPT !.state = "failed"]
      BY <1>t, <3>4 DEF Watchers
    <3> QED BY <3>1, <3>2, <3>3, <3>4
  <2>3. PromotionInStep'
    BY <2>1 DEF PromotionInStep
  <2> QED BY <1>q, <1>t, <2>1, <2>2, <2>3
<1>5. CASE Config!WatcherStopped
  <2>1. Config!Stop /\ UNCHANGED <<cfDisk, store>>
    BY <1>5 DEF Config!WatcherStopped
  <2> QED BY <1>q, <1>s, <1>t, <2>1
<1>6. CASE Config!Reload
  <2> DEFINE g == Config!Record(rt.generation + 1, cfDisk)
  <2>0. /\ cfPc = "loop" /\ rt.generation < CfMaxGen /\ UNCHANGED cfDisk
    BY <1>6 DEF Config!Reload
  <2>d. store.phase = "stable" /\ Config!decode(store)
    BY <1>p, <2>0 DEF PromotionInStep
  <2>1. CASE cfDisk \in Broken /\ UNCHANGED <<store, cfPc, rt, loaded>> /\ watcher' = [watcher EXCEPT !.batches = @ - 1]
    <3>1. PromotionInStep'
      BY <2>0, <2>1 DEF PromotionInStep
    <3>2. watcher' \in Watchers
      BY <1>t, <2>1 DEF Watchers
    <3> QED BY <1>q, <1>t, <2>0, <2>1, <3>1, <3>2
  <2>2. CASE /\ cfDisk \in Configs /\ Config!MayPrepare(store, g) /\ store' = Config!prepare(store, g)
             /\ cfPc' = "swap" /\ watcher' = [watcher EXCEPT !.batches = @ - 1] /\ UNCHANGED <<rt, loaded>>
    <3>1. g \in Versions
      BY <1>t, <2>0, <2>2, ConfigAssumption DEF Config!Record, Versions
    <3> HIDE DEF g
    <3>2. /\ store' \in Manifests /\ store'.phase = "prepared" /\ store'.active = store.active /\ store'.candidate = g
          /\ Config!decode(Config!prepare(store, g)) /\ g.generation > store.active.generation
      BY <1>t, <2>2, <2>d, <3>1, PrepareFacts
    <3>3. Config!decode(store)' /\ StoreAdvances
      BY <1>t, <2>2, <3>2 DEF Config!decode, StoreAdvances
    <3>4. PromotionInStep'
      BY <2>2, <3>2 DEF PromotionInStep
    <3>5. watcher' \in Watchers
      BY <1>t, <2>2 DEF Watchers
    <3> QED BY <1>m, <1>t, <2>0, <2>2, <3>2, <3>3, <3>4, <3>5 DEF Daemon
  <2>3. CASE Config!Stop /\ store' = Config!recover(store)
    <3>1. /\ store' \in Manifests /\ store'.phase = "stable" /\ store'.active = store.active
          /\ Config!decode(Config!recover(store))
      BY <1>t, <2>3, <2>d, RecoverFacts
    <3>2. Config!decode(store)' /\ StoreAdvances
      BY <1>t, <2>3, <3>1 DEF Config!decode, StoreAdvances
    <3> QED BY <1>m, <1>s, <1>t, <2>0, <2>3, <3>1, <3>2
  <2> QED BY <1>6, <2>1, <2>2, <2>3 DEF Config!Reload
<1>7. CASE Config!promote_generation
  <2>1. /\ cfPc = "swap" /\ rt' = store.candidate /\ cfPc' = "promote" /\ UNCHANGED <<cfDisk, store, loaded, watcher>>
    BY <1>7 DEF Config!promote_generation
  <2>2. PromotionInStep'
    BY <2>1 DEF PromotionInStep
  <2> QED BY <1>q, <1>t, <2>1, <2>2 DEF Daemon
<1>8. CASE Config!StorePromote
  <2>1. /\ cfPc = "promote" /\ store.phase = "prepared" /\ store' = Config!promote(store) /\ cfPc' = "retire"
        /\ UNCHANGED <<cfDisk, rt, loaded, watcher>>
    BY <1>8 DEF Config!StorePromote
  <2>2. store.candidate.generation > store.active.generation /\ rt = store.candidate
    BY <2>1 DEF PromotionInStep
  <2>3. /\ store' \in Manifests /\ store'.phase = "promoted" /\ store'.active = store.candidate
        /\ Config!decode(Config!promote(store))
    BY <1>p, <1>t, <2>1, <2>2, PromoteFacts
  <2>4. Config!decode(store)'
    BY <2>1, <2>3 DEF Config!decode
  <2>5. StoreAdvances
    BY <1>t, <2>2, <2>3 DEF StoreAdvances, Versions
  <2>6. PromotionInStep'
    BY <2>1, <2>2, <2>3 DEF PromotionInStep
  <2> QED BY <1>m, <1>t, <2>1, <2>3, <2>4, <2>5, <2>6 DEF Daemon
<1>9. CASE Config!StoreRetire
  <2>1. /\ cfPc = "retire" /\ store.phase = "promoted" /\ store' = Config!retire(store) /\ cfPc' = "loop"
        /\ UNCHANGED <<cfDisk, rt, loaded, watcher>>
    BY <1>9 DEF Config!StoreRetire
  <2>2. /\ store' \in Manifests /\ store'.phase = "stable" /\ store'.active = store.active
        /\ Config!decode(Config!retire(store))
    BY <1>p, <1>t, <2>1, RetireFacts
  <2>3. Config!decode(store)' /\ StoreAdvances
    BY <1>t, <2>1, <2>2 DEF Config!decode, StoreAdvances
  <2>4. PromotionInStep'
    BY <1>p, <2>1, <2>2 DEF PromotionInStep
  <2> QED BY <1>m, <1>t, <2>1, <2>2, <2>3, <2>4 DEF Daemon
<1>10. CASE Config!Crash
  <2>1. Config!Stop /\ UNCHANGED <<cfDisk, store>>
    BY <1>10 DEF Config!Crash
  <2> QED BY <1>q, <1>s, <1>t, <2>1
<1>11. CASE Config!Edit
  <2>1. cfDisk' \in Configs \cup Broken /\ UNCHANGED <<store, rt, loaded, watcher, cfPc>>
    BY <1>11 DEF Config!Edit
  <2>2. PromotionInStep'
    BY <2>1 DEF PromotionInStep
  <2> QED BY <1>q, <1>t, <2>1, <2>2
<1> QED
  BY <1>1, <1>2, <1>3, <1>4, <1>5, <1>6, <1>7, <1>8, <1>9, <1>10, <1>11 DEF Config!Next

\* For every set of configurations and every bound: the configuration served in
\* the control loop is the one the manifest calls active, the manifest can be
\* read back, and its active number never goes back, wherever prepare, swap,
\* promote and retire were cut off (config_generation_store.rs, daemon.rs).
THEOREM ServesTheActive == SystemSpec => ConfigIsServed
<1> DEFINE Inv == part = "config" => ConfigInv
<1>1. SystemInit => Inv
  BY ConfigStarts DEF SystemInit
<1>2. Inv /\ [SystemNext]_all => Inv' /\ (StoreAdvances \/ UNCHANGED store)
  <2> SUFFICES ASSUME Inv, [SystemNext]_all PROVE Inv' /\ (StoreAdvances \/ UNCHANGED store)
    OBVIOUS
  <2>1. CASE SystemNext
    <3>1. CASE part = "config"
      <4>1. Config!Next /\ part' = part
        BY <2>1, <3>1 DEF SystemNext, Step
      <4> QED BY <3>1, <4>1, ConfigSteps
    <3>2. CASE part # "config"
      <4>1. part' = part /\ UNCHANGED configVars
        BY <2>1, <3>2 DEF SystemNext, Idle
      <4> QED BY <3>2, <4>1 DEF configVars
    <3> QED BY <3>1, <3>2
  <2>2. CASE UNCHANGED all
    <3>1. part' = part /\ UNCHANGED configVars
      BY <2>2 DEF all
    <3> QED BY <3>1 DEF configVars, ConfigInv, ConfigTypes, ManifestSound, PromotionInStep, Config!decode
  <2> QED BY <2>1, <2>2
<1>3. Inv => (part = "config" => Config!TypeOK /\ Config!ServedIsDurable)
  <2> SUFFICES ASSUME ConfigInv PROVE Config!TypeOK /\ Config!ServedIsDurable
    OBVIOUS
  <2>1. Config!TypeOK
    BY DEF ConfigInv, ConfigTypes, Config!TypeOK, Versions, Manifests, Daemon, Watchers
  <2>2. Config!ServedIsDurable
    BY VersionFacts DEF ConfigInv, ManifestSound, PromotionInStep, Config!ServedIsDurable
  <2> QED BY <2>1, <2>2
<1>4. StoreAdvances \/ UNCHANGED store <=>
        [/\ store'.active.generation >= store.active.generation
         /\ store'.active.generation = store.active.generation => store'.active = store.active]_store
  BY DEF StoreAdvances
<1> QED
  BY <1>1, <1>2, <1>3, <1>4, PTL DEF SystemSpec, ConfigIsServed, Config!ActiveNeverRewinds


-----------------------------------------------------------------------------
(* MemoryStores: the schedule.                                               *)

ScheduleOwners == {""} \cup {OwnerOf(c) : c \in Callers}
ScheduleRecords == [exists : BOOLEAN, next : Nat, owner : ScheduleOwners, expires : Nat, generation : Nat]
ScheduleJobs ==
  [op : {"idle", "upsert", "claim", "complete", "renew"}, record : ScheduleRecords, generation : Nat]

ScheduleTyped == mmNow \in Nat /\ schedule \in ScheduleRecords /\ job \in [Callers -> ScheduleJobs]
\* What is about to be published is the next generation, and only one caller is about to.
NextInHand ==
  \A c \in Callers : job[c].op # "idle" => anchor = {c} /\ job[c].record.generation = schedule.generation + 1
GenerationsPast ==
  /\ schedule.exists => schedule.generation > 0
  /\ \A c \in Callers : job[c].generation <= schedule.generation
GenerationsDiffer ==
  \A c, d \in Callers : job[c].generation = job[d].generation /\ job[c].generation > 0 => c = d
ScheduleInv == ScheduleTyped /\ NextInHand /\ GenerationsPast /\ GenerationsDiffer

(* MemoryStores: the directory and its lock.                                 *)

Places == {"idle", "judge", "recover", "acquire", "sign", "load", "remove", "rename", "begin", "started", "scan",
           "delete", "finish", "completed", "unlock"}
MemoryActors == [at : Places, now : Nat, seen : Nat, version : Nat, expires : Nat]
Holding == Places \ {"idle", "judge", "recover", "acquire"}

IndexTyped ==
  /\ mmClock \in Nat /\ mmLock \in [exists : BOOLEAN, payload : BOOLEAN, created : Nat]
  /\ checkpoint \in [status : {"missing", "started", "completed"}, updated : Nat]
  /\ mmFile \in [exists : BOOLEAN, version : Nat, expires : Nat]
  /\ actor \in [Memory!Processes -> MemoryActors]
PlacesApart ==
  /\ \A w \in Writers : actor[w].at \in {"idle", "sign", "load", "remove", "rename", "unlock"}
  /\ actor[maintainer].at \notin {"load", "remove", "rename"}
\* The index lock excludes.
OneInside ==
  /\ \A a \in Memory!Processes : actor[a].at \in Holding => mmLock.exists
  /\ \A a, b \in Memory!Processes : actor[a].at \in Holding /\ actor[b].at \in Holding => a = b
\* The lock of a process that is at work is not older than an interrupted maintenance.
Deserted == mmLock.exists /\ \A a \in Memory!Processes : actor[a].at \notin Holding
InterruptedIsPast ==
  checkpoint.status = "started" =>
    mmClock > checkpoint.updated \/ Deserted \/ actor[maintainer].at \in {"scan", "delete", "finish"}
LocksNewer ==
  \A w \in Writers :
    /\ actor[w].at = "sign" => ~mmLock.payload
    /\ actor[w].at \in {"load", "remove", "rename", "unlock"} /\ checkpoint.status = "started" =>
         mmLock.created > checkpoint.updated
JudgeKnows ==
  /\ actor[maintainer].now <= mmClock
  /\ actor[maintainer].at \in {"judge", "recover"} =>
       /\ checkpoint.status = "started" /\ actor[maintainer].seen = checkpoint.updated
       /\ mmClock > checkpoint.updated
  /\ actor[maintainer].at = "recover" => Deserted
\* What the maintenance read under the lock still holds.
ReadsHold == actor[maintainer].at = "delete" => mmFile.expires # 0 /\ mmFile.expires <= mmClock
IndexInv ==
  IndexTyped /\ PlacesApart /\ OneInside /\ InterruptedIsPast /\ LocksNewer /\ JudgeKnows /\ ReadsHold

\* A writer about to replace the record holds its next version, or there was none to read.
NextOrFirst(a) == actor[a].version = mmFile.version + 1 \/ (actor[a].version = 1 /\ Memory!Gone)
WritersHold ==
  \A a \in Memory!Processes :
    /\ actor[a].at = "remove" =>
         IF mmFile.exists THEN actor[a].version = mmFile.version + 1 ELSE actor[a].version = 1 /\ Memory!Gone
    /\ actor[a].at = "rename" => ~mmFile.exists /\ NextOrFirst(a)
RecordInv == Memory!MissingIsExplained /\ WritersHold

LEMMA OwnersKnown == "" \in ScheduleOwners /\ \A c \in Callers : OwnerOf(c) \in ScheduleOwners
BY Zenon DEF ScheduleOwners

LEMMA NoScheduleKnown == Memory!NoSchedule \in ScheduleRecords
BY OwnersKnown DEF Memory!NoSchedule, ScheduleRecords

LEMMA ScheduleStarts == Memory!ScheduleInit => ScheduleInv
<1> SUFFICES ASSUME Memory!ScheduleInit PROVE ScheduleInv
  OBVIOUS
<1>1. Memory!NoSchedule \in ScheduleRecords
  BY NoScheduleKnown
<1>2. mmNow = 0 /\ schedule = Memory!NoSchedule
      /\ job = [c \in Callers |-> [op |-> "idle", record |-> Memory!NoSchedule, generation |-> 0]]
  BY DEF Memory!ScheduleInit
<1>3. ScheduleTyped
  BY <1>1, <1>2 DEF ScheduleTyped, ScheduleJobs
<1>4. \A c \in Callers : job[c].op = "idle" /\ job[c].generation = 0
  BY <1>2
<1>5. schedule.generation = 0 /\ ~schedule.exists
  BY <1>2 DEF Memory!NoSchedule
<1> QED BY <1>3, <1>4, <1>5 DEF ScheduleInv, NextInHand, GenerationsPast, GenerationsDiffer

\* An operation under the anchor's lock prepares the next generation.
LEMMA OperationLocks ==
  ASSUME ScheduleInv, NEW c \in Callers, NEW o \in {"upsert", "claim", "complete", "renew"}, NEW r \in ScheduleRecords,
         r.generation = schedule.generation + 1, Memory!Lock(c, o, r)
  PROVE  ScheduleInv'
<1>1. /\ job[c].op = "idle" /\ anchor = {} /\ anchor' = {c} /\ mmNow' = mmNow /\ schedule' = schedule
      /\ job' = [job EXCEPT ![c].op = o, ![c].record = r]
  BY DEF Memory!Lock
<1>2. ScheduleTyped /\ NextInHand /\ GenerationsPast /\ GenerationsDiffer
  BY DEF ScheduleInv
<1>3. job \in [Callers -> ScheduleJobs] /\ job[c] \in ScheduleJobs
  BY <1>2 DEF ScheduleTyped
<1>4. PICK x : x = [job[c] EXCEPT !.op = o, !.record = r]
  OBVIOUS
<1>5. x \in ScheduleJobs /\ x.op = o /\ x.record = r /\ x.generation = job[c].generation
  BY <1>3, <1>4 DEF ScheduleJobs
<1>6. job' = [job EXCEPT ![c] = x]
  BY <1>1, <1>4
<1>7. job' \in [Callers -> ScheduleJobs] /\ \A d \in Callers : job'[d] = IF d = c THEN x ELSE job[d]
  BY <1>3, <1>5, <1>6
<1>8. \A d \in Callers : job'[d].generation = job[d].generation
  BY <1>5, <1>7
<1>9. ScheduleTyped' /\ GenerationsPast' /\ GenerationsDiffer'
  BY <1>1, <1>2, <1>7, <1>8 DEF ScheduleTyped, GenerationsPast, GenerationsDiffer
<1>10. NextInHand'
  BY <1>1, <1>2, <1>5, <1>7 DEF NextInHand
<1> QED BY <1>9, <1>10 DEF ScheduleInv

LEMMA ScheduleUpserts ==
  ASSUME ScheduleInv, NEW c \in Callers, Memory!Upsert(c)
  PROVE  ScheduleInv'
<1>1. mmNow \in Nat /\ schedule.generation \in Nat
  BY DEF ScheduleInv, ScheduleTyped, ScheduleRecords
<1>2. PICK n \in {mmNow, mmNow + 1} :
        Memory!Lock(c, "upsert", [exists |-> TRUE, next |-> n, owner |-> "", expires |-> 0,
                                  generation |-> schedule.generation + 1])
  BY DEF Memory!Upsert
<1>3. PICK r : r = [exists |-> TRUE, next |-> n, owner |-> "", expires |-> 0, generation |-> schedule.generation + 1]
  OBVIOUS
<1>4. n \in Nat /\ schedule.generation + 1 \in Nat
  BY <1>1
<1>5. r \in ScheduleRecords /\ r.generation = schedule.generation + 1
  BY <1>3, <1>4, OwnersKnown DEF ScheduleRecords
<1> QED BY <1>2, <1>3, <1>5, OperationLocks

LEMMA ScheduleClaimed ==
  ASSUME ScheduleInv, NEW c \in Callers, Memory!Claim(c)
  PROVE  ScheduleInv'
<1>1. mmNow \in Nat /\ schedule \in ScheduleRecords /\ schedule.generation \in Nat
  BY DEF ScheduleInv, ScheduleTyped, ScheduleRecords
<1>2. PICK e \in Nat : e = mmNow + 1
  BY <1>1
<1>3. PICK g \in Nat : g = schedule.generation + 1
  BY <1>1
<1>10. PICK own \in ScheduleOwners : own = OwnerOf(c)
  BY OwnersKnown
<1>4. PICK s : s = [schedule EXCEPT !.owner = own, !.expires = e]
  OBVIOUS
<1>5. s \in ScheduleRecords
  BY <1>1, <1>2, <1>4, OwnersKnown DEF ScheduleRecords
<1>6. PICK r : r = [s EXCEPT !.generation = g]
  OBVIOUS
<1>7. r \in ScheduleRecords /\ r.generation = schedule.generation + 1
  BY <1>3, <1>5, <1>6 DEF ScheduleRecords
<1>8. [schedule EXCEPT !.owner = OwnerOf(c), !.expires = mmNow + 1, !.generation = @ + 1] = r
  BY <1>1, <1>2, <1>3, <1>4, <1>6, <1>10 DEF ScheduleRecords
<1>9. Memory!Lock(c, "claim", r)
  BY <1>8 DEF Memory!Claim
<1> QED BY <1>7, <1>9, OperationLocks

LEMMA ScheduleCompleted ==
  ASSUME ScheduleInv, NEW c \in Callers, Memory!Complete(c)
  PROVE  ScheduleInv'
<1>1. mmNow \in Nat /\ schedule \in ScheduleRecords /\ schedule.generation \in Nat
  BY DEF ScheduleInv, ScheduleTyped, ScheduleRecords
<1>2. PICK e \in Nat : e = mmNow + 1
  BY <1>1
<1>3. PICK g \in Nat : g = schedule.generation + 1
  BY <1>1
<1>4. PICK s : s = [schedule EXCEPT !.next = e, !.owner = "", !.expires = 0]
  OBVIOUS
<1>5. s \in ScheduleRecords
  BY <1>1, <1>2, <1>4, OwnersKnown DEF ScheduleRecords
<1>6. PICK r : r = [s EXCEPT !.generation = g]
  OBVIOUS
<1>7. r \in ScheduleRecords /\ r.generation = schedule.generation + 1
  BY <1>3, <1>5, <1>6 DEF ScheduleRecords
<1>8. [schedule EXCEPT !.next = mmNow + 1, !.owner = "", !.expires = 0, !.generation = @ + 1] = r
  BY <1>1, <1>2, <1>3, <1>4, <1>6 DEF ScheduleRecords
<1>9. Memory!Lock(c, "complete", r)
  BY <1>8 DEF Memory!Complete
<1> QED BY <1>7, <1>9, OperationLocks

LEMMA ScheduleRenewed ==
  ASSUME ScheduleInv, NEW c \in Callers, Memory!Renew(c)
  PROVE  ScheduleInv'
<1>1. mmNow \in Nat /\ schedule \in ScheduleRecords /\ schedule.generation \in Nat
  BY DEF ScheduleInv, ScheduleTyped, ScheduleRecords
<1>2. PICK e \in Nat : e = mmNow + 1
  BY <1>1
<1>3. PICK g \in Nat : g = schedule.generation + 1
  BY <1>1
<1>4. PICK s : s = [schedule EXCEPT !.expires = e]
  OBVIOUS
<1>5. s \in ScheduleRecords
  BY <1>1, <1>2, <1>4, OwnersKnown DEF ScheduleRecords
<1>6. PICK r : r = [s EXCEPT !.generation = g]
  OBVIOUS
<1>7. r \in ScheduleRecords /\ r.generation = schedule.generation + 1
  BY <1>3, <1>5, <1>6 DEF ScheduleRecords
<1>8. [schedule EXCEPT !.expires = mmNow + 1, !.generation = @ + 1] = r
  BY <1>1, <1>2, <1>3, <1>4, <1>6 DEF ScheduleRecords
<1>9. Memory!Lock(c, "renew", r)
  BY <1>8 DEF Memory!Renew
<1> QED BY <1>7, <1>9, OperationLocks

\* The rename moves the generation on, past every one that a caller holds.
LEMMA SchedulePublished ==
  ASSUME ScheduleInv, NEW c \in Callers, Memory!Publish(c)
  PROVE  ScheduleInv'
<1>1. PICK g : g = IF job[c].op \in {"claim", "renew"} THEN job[c].record.generation ELSE job[c].generation
  OBVIOUS
<1>2. /\ job[c].op # "idle" /\ schedule' = job[c].record /\ mmNow' = mmNow
      /\ job' = [job EXCEPT ![c].op = "idle", ![c].record = Memory!NoSchedule, ![c].generation = g]
  BY <1>1 DEF Memory!Publish
<1>3. ScheduleTyped /\ NextInHand /\ GenerationsPast /\ GenerationsDiffer
  BY DEF ScheduleInv
<1>4. job \in [Callers -> ScheduleJobs] /\ job[c] \in ScheduleJobs /\ job[c].record \in ScheduleRecords
      /\ schedule \in ScheduleRecords /\ schedule.generation \in Nat /\ job[c].record.generation \in Nat
      /\ \A d \in Callers : job[d].generation \in Nat
  BY <1>3 DEF ScheduleTyped, ScheduleJobs, ScheduleRecords
<1>5. /\ anchor = {c} /\ job[c].record.generation = schedule.generation + 1
      /\ \A d \in Callers : d # c => job[d].op = "idle"
  BY <1>2, <1>3 DEF NextInHand
<1>6. g \in Nat /\ (g = schedule.generation + 1 \/ g = job[c].generation)
  BY <1>1, <1>4, <1>5
<1>7. PICK x : x = [job[c] EXCEPT !.op = "idle", !.record = Memory!NoSchedule, !.generation = g]
  OBVIOUS
<1>8. Memory!NoSchedule \in ScheduleRecords
  BY NoScheduleKnown
<1>9. x \in ScheduleJobs /\ x.op = "idle" /\ x.generation = g
  BY <1>4, <1>6, <1>7, <1>8 DEF ScheduleJobs
<1>10. job' = [job EXCEPT ![c] = x]
  BY <1>2, <1>7
<1>11. job' \in [Callers -> ScheduleJobs] /\ \A d \in Callers : job'[d] = IF d = c THEN x ELSE job[d]
  BY <1>4, <1>9, <1>10
<1>12. ScheduleTyped' /\ NextInHand'
  BY <1>2, <1>3, <1>4, <1>5, <1>9, <1>11 DEF ScheduleTyped, NextInHand
<1>13. schedule'.generation = schedule.generation + 1
  BY <1>2, <1>5
<1>14. \A d \in Callers : job[d].generation <= schedule.generation /\ job'[d].generation = IF d = c THEN g ELSE job[d].generation
  BY <1>3, <1>9, <1>11 DEF GenerationsPast
<1>15. GenerationsPast'
  BY <1>4, <1>6, <1>13, <1>14 DEF GenerationsPast
<1>16. GenerationsDiffer'
  BY <1>3, <1>4, <1>6, <1>14 DEF GenerationsDiffer
<1> QED BY <1>12, <1>15, <1>16 DEF ScheduleInv

LEMMA ScheduleAbandoned ==
  ASSUME ScheduleInv, NEW c \in Callers, Memory!Abandon(c)
  PROVE  ScheduleInv'
<1>1. PICK x : x = [op |-> "idle", record |-> Memory!NoSchedule, generation |-> 0]
  OBVIOUS
<1>2. job[c].op # "idle" /\ schedule' = schedule /\ mmNow' = mmNow /\ job' = [job EXCEPT ![c] = x]
  BY <1>1 DEF Memory!Abandon
<1>3. ScheduleTyped /\ NextInHand /\ GenerationsPast /\ GenerationsDiffer
  BY DEF ScheduleInv
<1>4. Memory!NoSchedule \in ScheduleRecords
  BY NoScheduleKnown
<1>5. x \in ScheduleJobs /\ x.op = "idle" /\ x.generation = 0
  BY <1>1, <1>4 DEF ScheduleJobs
<1>6. job \in [Callers -> ScheduleJobs] /\ schedule.generation \in Nat /\ \A d \in Callers : job[d].generation \in Nat
  BY <1>3 DEF ScheduleTyped, ScheduleRecords, ScheduleJobs
<1>7. job' \in [Callers -> ScheduleJobs] /\ \A d \in Callers : job'[d] = IF d = c THEN x ELSE job[d]
  BY <1>2, <1>5, <1>6
<1>8. \A d \in Callers : d # c => job[d].op = "idle"
  BY <1>2, <1>3 DEF NextInHand
<1>9. ScheduleTyped' /\ NextInHand'
  BY <1>2, <1>3, <1>5, <1>7, <1>8 DEF ScheduleTyped, NextInHand
<1>10. \A d \in Callers : job'[d].generation = IF d = c THEN 0 ELSE job[d].generation
  BY <1>5, <1>7
<1>11. GenerationsPast' /\ GenerationsDiffer'
  BY <1>2, <1>3, <1>6, <1>10 DEF GenerationsPast, GenerationsDiffer
<1> QED BY <1>9, <1>11 DEF ScheduleInv

LEMMA ScheduleSteps ==
  ASSUME ScheduleInv, Memory!ScheduleNext
  PROVE  ScheduleInv'
<1>1. CASE Memory!ScheduleTick
  <2>1. mmNow' = mmNow + 1 /\ UNCHANGED <<schedule, anchor, job>>
    BY <1>1 DEF Memory!ScheduleTick
  <2> QED BY <2>1 DEF ScheduleInv, ScheduleTyped, NextInHand, GenerationsPast, GenerationsDiffer
<1> QED BY <1>1, ScheduleUpserts, ScheduleClaimed, ScheduleCompleted, ScheduleRenewed, SchedulePublished, ScheduleAbandoned
        DEF Memory!ScheduleNext

LEMMA ClaimsFenced == ScheduleInv => Memory!OneLiveClaim
<1> SUFFICES ASSUME ScheduleInv, NEW c \in Callers, NEW d \in Callers, Memory!Fenced(c), Memory!Fenced(d) PROVE c = d
  BY DEF Memory!OneLiveClaim
<1>1. schedule.generation > 0 /\ job[c].generation = schedule.generation /\ job[d].generation = schedule.generation
  BY DEF ScheduleInv, GenerationsPast, Memory!Fenced
<1> QED BY <1>1 DEF ScheduleInv, GenerationsDiffer

-----------------------------------------------------------------------------
(* The directory.                                                            *)

LEMMA ProcessFacts ==
  /\ maintainer \in Memory!Processes /\ maintainer \notin Writers /\ StaleAfter \in Nat /\ StaleAfter > 0
  /\ \A w \in Writers : w \in Memory!Processes /\ w # maintainer
  /\ \A a \in Memory!Processes : a = maintainer \/ a \in Writers
BY MemoryAssumption DEF Memory!Processes

LEMMA IdleFacts == Memory!Idle \in MemoryActors /\ Memory!Idle.at = "idle" /\ Memory!Idle.now = 0
BY DEF Memory!Idle, MemoryActors, Places

\* A process moves.
Moves(a, x) ==
  /\ actor' = [actor EXCEPT ![a] = x] /\ actor' \in [Memory!Processes -> MemoryActors]
  /\ actor'[a] = x /\ \A b \in Memory!Processes : b # a => actor'[b] = actor[b]

LEMMA MoveFacts ==
  ASSUME IndexTyped, NEW a \in Memory!Processes, NEW x \in MemoryActors, actor' = [actor EXCEPT ![a] = x]
  PROVE  Moves(a, x)
BY DEF IndexTyped, Moves

LEMMA ToFacts ==
  ASSUME IndexTyped, NEW a \in Memory!Processes, NEW place \in Places, Memory!To(a, place)
  PROVE  \E x \in MemoryActors :
           /\ Moves(a, x) /\ x.at = place /\ x.now = actor[a].now /\ x.seen = actor[a].seen
           /\ x.version = actor[a].version /\ x.expires = actor[a].expires
<1>1. actor[a] \in MemoryActors
  BY DEF IndexTyped
<1>2. PICK x : x = [actor[a] EXCEPT !.at = place]
  OBVIOUS
<1>3. /\ x \in MemoryActors /\ x.at = place /\ x.now = actor[a].now /\ x.seen = actor[a].seen
      /\ x.version = actor[a].version /\ x.expires = actor[a].expires
  BY <1>1, <1>2 DEF MemoryActors
<1>4. actor' = [actor EXCEPT ![a] = x]
  BY <1>2 DEF Memory!To
<1> QED BY <1>3, <1>4, MoveFacts

\* A process inside is alone there, and its lock is not one to recover.
LEMMA InsideAlone ==
  ASSUME IndexInv, NEW a \in Memory!Processes, actor[a].at \in Holding
  PROVE  /\ mmLock.exists /\ ~Deserted /\ actor[maintainer].at # "recover"
         /\ \A b \in Memory!Processes : b # a => actor[b].at \notin Holding
         /\ a # maintainer /\ checkpoint.status = "started" => mmClock > checkpoint.updated
<1>1. OneInside /\ JudgeKnows /\ InterruptedIsPast
  BY DEF IndexInv
<1>2. mmLock.exists /\ ~Deserted /\ \A b \in Memory!Processes : b # a => actor[b].at \notin Holding
  BY <1>1 DEF OneInside, Deserted
<1>3. actor[maintainer].at # "recover"
  BY <1>1, <1>2 DEF JudgeKnows
<1>4. ASSUME a # maintainer, checkpoint.status = "started" PROVE mmClock > checkpoint.updated
  <2>1. actor[maintainer].at \notin Holding
    BY <1>2, <1>4, ProcessFacts
  <2>2. actor[maintainer].at \notin {"scan", "delete", "finish"}
    BY <2>1 DEF Holding, Places
  <2> QED BY <1>1, <1>2, <1>4, <2>2 DEF InterruptedIsPast
<1> QED BY <1>2, <1>3, <1>4

LEMMA WriterInside ==
  ASSUME IndexInv, NEW a \in Writers, actor[a].at \in {"load", "remove", "rename"}, NEW x, Moves(a, x),
         x.at \in {"remove", "rename", "unlock"}, UNCHANGED <<mmClock, mmLock, checkpoint>>
  PROVE  PlacesApart' /\ OneInside' /\ InterruptedIsPast' /\ LocksNewer' /\ JudgeKnows'
<1>1. PlacesApart /\ OneInside /\ InterruptedIsPast /\ LocksNewer /\ JudgeKnows
  BY DEF IndexInv
<1>2. a \in Memory!Processes /\ a # maintainer /\ maintainer \in Memory!Processes /\ \A w \in Writers : w \in Memory!Processes
  BY ProcessFacts
<1>3. actor[a].at \in Holding /\ x.at \in Holding
  BY DEF Holding, Places
<1>4. /\ mmLock.exists /\ ~Deserted /\ actor[maintainer].at # "recover"
      /\ \A b \in Memory!Processes : b # a => actor[b].at \notin Holding
      /\ checkpoint.status = "started" => mmClock > checkpoint.updated
  BY <1>2, <1>3, InsideAlone
<1>5. actor'[a] = x /\ \A b \in Memory!Processes : b # a => actor'[b] = actor[b]
  BY DEF Moves
<1>6. PlacesApart'
  BY <1>1, <1>2, <1>5 DEF PlacesApart
<1>7. OneInside'
  BY <1>3, <1>4, <1>5 DEF OneInside
<1>8. InterruptedIsPast'
  BY <1>4 DEF InterruptedIsPast
<1>9. LocksNewer'
  <2>1. checkpoint.status = "started" => mmLock.created > checkpoint.updated
    BY <1>1 DEF LocksNewer
  <2>2. ASSUME NEW w \in Writers, w # a PROVE actor'[w].at \notin {"sign", "load", "remove", "rename", "unlock"}
    BY <1>2, <1>4, <1>5, <2>2 DEF Holding, Places
  <2> QED BY <1>5, <2>1, <2>2 DEF LocksNewer
<1>10. JudgeKnows'
  BY <1>1, <1>2, <1>4, <1>5 DEF JudgeKnows
<1> QED BY <1>6, <1>7, <1>8, <1>9, <1>10

LEMMA MaintainerInside ==
  ASSUME IndexInv, actor[maintainer].at \in {"begin", "started", "scan", "delete", "finish", "completed"},
         NEW x, Moves(maintainer, x), x.now = actor[maintainer].now,
         x.at \in {"started", "scan", "delete", "finish", "completed", "unlock"},
         checkpoint'.status = "started" => x.at \in {"scan", "delete", "finish"} \/ mmClock > checkpoint'.updated,
         UNCHANGED <<mmClock, mmLock>>
  PROVE  PlacesApart' /\ OneInside' /\ InterruptedIsPast' /\ LocksNewer' /\ JudgeKnows'
<1>1. PlacesApart /\ OneInside /\ JudgeKnows
  BY DEF IndexInv
<1>2. maintainer \in Memory!Processes /\ \A w \in Writers : w \in Memory!Processes /\ w # maintainer
  BY ProcessFacts
<1>3. actor[maintainer].at \in Holding /\ x.at \in Holding
  BY DEF Holding, Places
<1>4. mmLock.exists /\ \A b \in Memory!Processes : b # maintainer => actor[b].at \notin Holding
  BY <1>2, <1>3, InsideAlone
<1>5. actor'[maintainer] = x /\ \A b \in Memory!Processes : b # maintainer => actor'[b] = actor[b]
  BY DEF Moves
<1>6. PlacesApart'
  BY <1>1, <1>2, <1>5 DEF PlacesApart
<1>7. OneInside'
  BY <1>3, <1>4, <1>5 DEF OneInside
<1>8. InterruptedIsPast'
  BY <1>5 DEF InterruptedIsPast
<1>9. LocksNewer'
  <2>1. \A w \in Writers : actor'[w].at \notin {"sign", "load", "remove", "rename", "unlock"}
    BY <1>2, <1>4, <1>5 DEF Holding, Places
  <2> QED BY <2>1 DEF LocksNewer
<1>10. JudgeKnows'
  BY <1>1, <1>5 DEF JudgeKnows
<1> QED BY <1>6, <1>7, <1>8, <1>9, <1>10

-----------------------------------------------------------------------------
(* The lock is taken, signed, dropped and recovered.                         *)

LEMMA LockTaken ==
  ASSUME IndexInv, NEW a \in Memory!Processes, Memory!Acquire(a, "sign"),
         (a \in Writers /\ actor[a].at = "idle") \/ actor[a].at = "acquire",
         UNCHANGED <<mmClock, checkpoint, mmFile>>
  PROVE  IndexInv'
<1>1. IndexTyped /\ PlacesApart /\ OneInside /\ InterruptedIsPast /\ LocksNewer /\ JudgeKnows /\ ReadsHold
  BY DEF IndexInv
<1>2. maintainer \in Memory!Processes /\ \A w \in Writers : w \in Memory!Processes /\ w # maintainer
  BY ProcessFacts
<1>3. CASE mmLock.exists
  <2>1. Memory!To(a, "idle") /\ UNCHANGED mmLock
    BY <1>3 DEF Memory!Acquire
  <2>2. PICK x \in MemoryActors : Moves(a, x) /\ x.at = "idle" /\ x.now = actor[a].now
    BY <1>1, <2>1, ToFacts DEF Places
  <2>3. /\ actor' \in [Memory!Processes -> MemoryActors] /\ actor'[a] = x
        /\ \A b \in Memory!Processes : b # a => actor'[b] = actor[b]
    BY <2>2 DEF Moves
  <2>4. actor[a].at \notin Holding /\ "idle" \notin Holding
    BY DEF Holding, Places
  <2>5. \A b \in Memory!Processes : actor'[b].at \in Holding => actor[b].at \in Holding /\ actor'[b] = actor[b]
    BY <2>2, <2>3, <2>4
  <2>6. \A b \in Memory!Processes : actor[b].at \in Holding => actor'[b] = actor[b]
    BY <2>3, <2>4
  <2>7. IndexTyped' /\ PlacesApart'
    BY <1>1, <1>2, <2>1, <2>2, <2>3 DEF IndexTyped, PlacesApart
  <2>8. OneInside'
    BY <1>1, <2>1, <2>5 DEF OneInside
  <2>9. Deserted => Deserted'
    BY <2>1, <2>5 DEF Deserted
  <2>10. InterruptedIsPast'
    <3>1. actor[maintainer].at \in {"scan", "delete", "finish"} => actor'[maintainer] = actor[maintainer]
      BY <1>2, <2>6 DEF Holding, Places
    <3> QED BY <1>1, <2>9, <3>1 DEF InterruptedIsPast
  <2>11. LocksNewer' /\ ReadsHold'
    BY <1>1, <1>2, <2>1, <2>2, <2>3 DEF LocksNewer, ReadsHold
  <2>12. JudgeKnows'
    BY <1>1, <1>2, <2>2, <2>3, <2>9 DEF JudgeKnows
  <2> QED BY <2>7, <2>8, <2>10, <2>11, <2>12 DEF IndexInv
<1>4. CASE ~mmLock.exists
  <2>1. mmLock' = [exists |-> TRUE, payload |-> FALSE, created |-> 0] /\ Memory!To(a, "sign")
    BY <1>4 DEF Memory!Acquire
  <2>2. PICK x \in MemoryActors : Moves(a, x) /\ x.at = "sign" /\ x.now = actor[a].now
    BY <1>1, <2>1, ToFacts DEF Places
  <2>3. /\ actor' \in [Memory!Processes -> MemoryActors] /\ actor'[a] = x
        /\ \A b \in Memory!Processes : b # a => actor'[b] = actor[b]
    BY <2>2 DEF Moves
  <2>4. mmLock' \in [exists : BOOLEAN, payload : BOOLEAN, created : Nat] /\ mmLock'.exists /\ ~mmLock'.payload
    BY <2>1
  <2>5. \A b \in Memory!Processes : actor[b].at \notin Holding
    BY <1>1, <1>4 DEF OneInside
  <2>6. IndexTyped' /\ PlacesApart'
    BY <1>1, <1>2, <2>2, <2>3, <2>4 DEF IndexTyped, PlacesApart
  <2>7. OneInside'
    BY <2>3, <2>4, <2>5 DEF OneInside
  <2>8. checkpoint.status = "started" => mmClock > checkpoint.updated
    <3>1. actor[maintainer].at \notin {"scan", "delete", "finish"}
      BY <1>2, <2>5 DEF Holding, Places
    <3> QED BY <1>1, <1>4, <3>1 DEF InterruptedIsPast, Deserted
  <2>9. InterruptedIsPast'
    BY <2>8 DEF InterruptedIsPast
  <2>10. LocksNewer' /\ ReadsHold'
    <3>1. \A b \in Memory!Processes : actor'[b].at \notin {"load", "remove", "rename", "unlock", "delete"}
      BY <2>2, <2>3, <2>5 DEF Holding, Places
    <3> QED BY <1>2, <2>4, <3>1 DEF LocksNewer, ReadsHold
  <2>11. JudgeKnows'
    <3>1. actor[maintainer].at # "recover"
      BY <1>1, <1>4 DEF JudgeKnows, Deserted
    <3> QED BY <1>1, <1>2, <2>2, <2>3, <3>1 DEF JudgeKnows
  <2> QED BY <2>6, <2>7, <2>9, <2>10, <2>11 DEF IndexInv
<1> QED BY <1>3, <1>4

LEMMA LockSigned ==
  ASSUME IndexInv, NEW a \in Memory!Processes, Memory!SignLock(a)
  PROVE  IndexInv' /\ mmFile' = mmFile
<1>1. IndexTyped /\ PlacesApart /\ OneInside /\ InterruptedIsPast /\ LocksNewer /\ JudgeKnows /\ ReadsHold
  BY DEF IndexInv
<1>2. maintainer \in Memory!Processes /\ \A w \in Writers : w \in Memory!Processes /\ w # maintainer
  BY ProcessFacts
<1>3. /\ actor[a].at = "sign" /\ mmLock' = IF mmLock.exists THEN [mmLock EXCEPT !.payload = TRUE, !.created = mmClock] ELSE mmLock
      /\ Memory!To(a, IF a \in {maintainer} THEN "begin" ELSE "load") /\ UNCHANGED <<mmClock, checkpoint, mmFile>>
  BY DEF Memory!SignLock
<1>4. PICK place \in {"begin", "load"} : place = (IF a = maintainer THEN "begin" ELSE "load")
  OBVIOUS
<1>5. Memory!To(a, place) /\ place \in Places
  BY <1>3, <1>4 DEF Places
<1>6. PICK x \in MemoryActors : Moves(a, x) /\ x.at = place /\ x.now = actor[a].now
  BY <1>1, <1>5, ToFacts
<1>7. /\ actor' \in [Memory!Processes -> MemoryActors] /\ actor'[a] = x
      /\ \A b \in Memory!Processes : b # a => actor'[b] = actor[b]
  BY <1>6 DEF Moves
<1>8. actor[a].at \in Holding /\ x.at \in Holding
  BY <1>3, <1>4, <1>6 DEF Holding, Places
<1>9. /\ mmLock.exists /\ actor[maintainer].at # "recover"
      /\ \A b \in Memory!Processes : b # a => actor[b].at \notin Holding
      /\ a # maintainer /\ checkpoint.status = "started" => mmClock > checkpoint.updated
  BY <1>8, InsideAlone
<1>10. mmLock' = [mmLock EXCEPT !.payload = TRUE, !.created = mmClock] /\ mmClock \in Nat
  BY <1>1, <1>3, <1>9 DEF IndexTyped
<1>11. PICK l : l = [mmLock EXCEPT !.payload = TRUE]
  OBVIOUS
<1>12. l \in [exists : BOOLEAN, payload : BOOLEAN, created : Nat] /\ l.exists = mmLock.exists
  BY <1>1, <1>11 DEF IndexTyped
<1>13. mmLock' = [l EXCEPT !.created = mmClock]
  BY <1>10, <1>11
<1>14. mmLock' \in [exists : BOOLEAN, payload : BOOLEAN, created : Nat] /\ mmLock'.exists /\ mmLock'.created = mmClock
  BY <1>9, <1>10, <1>12, <1>13
<1>15. IndexTyped'
  BY <1>1, <1>3, <1>7, <1>14 DEF IndexTyped
<1>16. PlacesApart'
  BY <1>1, <1>2, <1>4, <1>6, <1>7 DEF PlacesApart
<1>17. OneInside'
  BY <1>7, <1>8, <1>9, <1>14 DEF OneInside
<1>18. \A b \in Memory!Processes : b # a => actor'[b].at \notin {"sign", "load", "remove", "rename", "unlock", "scan", "delete", "finish"}
  BY <1>7, <1>9 DEF Holding, Places
<1>19. InterruptedIsPast'
  <2>1. ASSUME checkpoint.status = "started" PROVE mmClock > checkpoint.updated
    <3>1. ~Deserted
      BY <1>8 DEF Deserted
    <3>2. actor[maintainer].at \notin {"scan", "delete", "finish"}
      BY <1>2, <1>3, <1>9 DEF Holding, Places
    <3> QED BY <1>1, <2>1, <3>1, <3>2 DEF InterruptedIsPast
  <2> QED BY <1>3, <2>1 DEF InterruptedIsPast
<1>20. LocksNewer'
  BY <1>2, <1>3, <1>4, <1>6, <1>7, <1>9, <1>14, <1>18 DEF LocksNewer
<1>21. JudgeKnows'
  BY <1>1, <1>2, <1>3, <1>4, <1>6, <1>7, <1>9 DEF JudgeKnows
<1>22. ReadsHold'
  BY <1>2, <1>4, <1>6, <1>7, <1>18 DEF ReadsHold
<1> QED BY <1>3, <1>15, <1>16, <1>17, <1>19, <1>20, <1>21, <1>22 DEF IndexInv

\* A process leaves: it is done, or it dies and its lock stays.
LEMMA ProcessLeaves ==
  ASSUME IndexInv, NEW a \in Memory!Processes, actor' = [actor EXCEPT ![a] = Memory!Idle],
         mmLock' = mmLock \/ (mmLock' = Memory!NoLock /\ actor[a].at = "unlock"),
         UNCHANGED <<mmClock, checkpoint, mmFile>>
  PROVE  IndexInv'
<1>1. IndexTyped /\ PlacesApart /\ OneInside /\ InterruptedIsPast /\ LocksNewer /\ JudgeKnows /\ ReadsHold
  BY DEF IndexInv
<1>2. maintainer \in Memory!Processes /\ \A w \in Writers : w \in Memory!Processes /\ w # maintainer
  BY ProcessFacts
<1>3. Memory!Idle \in MemoryActors /\ Memory!Idle.at = "idle" /\ Memory!Idle.now = 0 /\ "idle" \notin Holding
  BY IdleFacts DEF Holding, Places
<1>4. Moves(a, Memory!Idle)
  BY <1>1, <1>3, MoveFacts
<1>5. /\ actor' \in [Memory!Processes -> MemoryActors] /\ actor'[a] = Memory!Idle
      /\ \A b \in Memory!Processes : b # a => actor'[b] = actor[b]
  BY <1>4 DEF Moves
<1>6. Memory!NoLock \in [exists : BOOLEAN, payload : BOOLEAN, created : Nat]
  BY DEF Memory!NoLock
<1>7. IndexTyped'
  BY <1>1, <1>5, <1>6 DEF IndexTyped
<1>8. PlacesApart' /\ ReadsHold'
  BY <1>1, <1>2, <1>3, <1>5 DEF PlacesApart, ReadsHold
<1>9. \A b \in Memory!Processes : actor'[b].at \in Holding => actor'[b] = actor[b] /\ b # a
  BY <1>3, <1>5
<1>10. CASE mmLock' = mmLock
  <2>1. OneInside'
    BY <1>1, <1>9, <1>10 DEF OneInside
  <2>2. LocksNewer'
    BY <1>1, <1>2, <1>3, <1>5, <1>10 DEF LocksNewer
  <2>3. Deserted => Deserted'
    BY <1>9, <1>10 DEF Deserted
  <2>4. InterruptedIsPast'
    <3>1. ASSUME checkpoint.status = "started", actor[maintainer].at \in {"scan", "delete", "finish"}, ~(mmClock > checkpoint.updated)
          PROVE  Deserted' \/ actor'[maintainer].at \in {"scan", "delete", "finish"}
      <4>1. CASE a # maintainer
        BY <1>2, <1>5, <3>1, <4>1
      <4>2. CASE a = maintainer
        <5>1. actor[maintainer].at \in Holding
          BY <3>1 DEF Holding, Places
        <5>2. mmLock.exists /\ \A b \in Memory!Processes : b # maintainer => actor[b].at \notin Holding
          BY <1>2, <5>1, InsideAlone
        <5> QED BY <1>3, <1>5, <1>10, <4>2, <5>2 DEF Deserted
      <4> QED BY <4>1, <4>2
    <3> QED BY <1>1, <2>3, <3>1 DEF InterruptedIsPast
  <2>5. JudgeKnows'
    BY <1>1, <1>2, <1>3, <1>5, <2>3 DEF JudgeKnows, IndexTyped
  <2> QED BY <1>7, <1>8, <2>1, <2>2, <2>4, <2>5 DEF IndexInv
<1>11. CASE mmLock' = Memory!NoLock /\ actor[a].at = "unlock"
  <2>1. actor[a].at \in Holding
    BY <1>11 DEF Holding, Places
  <2>2. /\ ~Deserted /\ actor[maintainer].at # "recover"
        /\ \A b \in Memory!Processes : b # a => actor[b].at \notin Holding
    BY <2>1, InsideAlone
  <2>3. \A b \in Memory!Processes : actor'[b].at \notin Holding
    BY <1>3, <1>5, <2>2
  <2>4. OneInside'
    BY <2>3 DEF OneInside
  <2>5. LocksNewer'
    BY <1>2, <2>3 DEF LocksNewer, Holding, Places
  <2>6. actor[maintainer].at \notin {"scan", "delete", "finish"}
    BY <1>2, <1>11, <2>2 DEF Holding, Places
  <2>7. InterruptedIsPast'
    BY <1>1, <2>2, <2>6 DEF InterruptedIsPast
  <2>8. JudgeKnows'
    BY <1>1, <1>2, <1>3, <1>5, <2>2 DEF JudgeKnows, IndexTyped
  <2> QED BY <1>7, <1>8, <2>4, <2>5, <2>7, <2>8 DEF IndexInv
<1> QED BY <1>10, <1>11

-----------------------------------------------------------------------------
(* A writer's steps.                                                         *)

LEMMA DirectoryLoaded ==
  ASSUME IndexInv, NEW a \in Memory!Processes, Memory!Load(a)
  PROVE  IndexInv' /\ mmFile' = mmFile
<1>1. IndexTyped /\ PlacesApart /\ ReadsHold
  BY DEF IndexInv
<1>2. actor[a].at = "load" /\ UNCHANGED <<mmClock, mmLock, checkpoint, mmFile>>
  BY DEF Memory!Load
<1>3. a \in Writers /\ maintainer \in Memory!Processes /\ \A w \in Writers : w \in Memory!Processes /\ w # maintainer
  BY <1>1, <1>2, ProcessFacts DEF PlacesApart
<1>4. /\ actor[a] \in MemoryActors /\ mmFile.version \in Nat /\ mmClock \in Nat
  BY <1>1 DEF IndexTyped
<1>5. \E x \in MemoryActors :
        /\ Moves(a, x)
        /\ \/ x.at = "unlock"
           \/ x.at = "remove" /\ (x.version = mmFile.version + 1 \/ x.version = 1)
  <2>1. CASE Memory!To(a, "unlock")
    BY <1>1, <2>1, ToFacts DEF Places
  <2>2. CASE ~Memory!To(a, "unlock")
    <3>1. PICK ttl \in {0, 1} :
            actor' = [actor EXCEPT ![a].at = "remove", ![a].version = IF mmFile.exists THEN mmFile.version + 1 ELSE 1,
                                   ![a].expires = IF ttl = 0 THEN 0 ELSE mmClock + ttl]
      BY <2>2 DEF Memory!Load
    <3>2. PICK v \in Nat : v = (IF mmFile.exists THEN mmFile.version + 1 ELSE 1)
      BY <1>4
    <3>3. PICK e \in Nat : e = (IF ttl = 0 THEN 0 ELSE mmClock + ttl)
      BY <1>4
    <3>4. PICK x : x = [actor[a] EXCEPT !.at = "remove", !.version = v, !.expires = e]
      OBVIOUS
    <3>5. x \in MemoryActors /\ x.at = "remove" /\ x.version = v
      BY <1>4, <3>2, <3>3, <3>4 DEF MemoryActors, Places
    <3>6. actor' = [actor EXCEPT ![a] = x]
      BY <3>1, <3>2, <3>3, <3>4
    <3>7. Moves(a, x)
      BY <1>1, <3>5, <3>6, MoveFacts
    <3> QED BY <3>2, <3>5, <3>7
  <2> QED BY <2>1, <2>2
<1>6. PICK x \in MemoryActors :
        /\ Moves(a, x)
        /\ \/ x.at = "unlock"
           \/ x.at = "remove" /\ (x.version = mmFile.version + 1 \/ x.version = 1)
  BY <1>5
<1>7. PlacesApart' /\ OneInside' /\ InterruptedIsPast' /\ LocksNewer' /\ JudgeKnows'
  BY <1>2, <1>3, <1>6, WriterInside
<1>8. IndexTyped'
  BY <1>1, <1>2, <1>6 DEF IndexTyped, Moves
<1>9. ReadsHold'
  BY <1>1, <1>2, <1>3, <1>6 DEF ReadsHold, Moves
<1> QED BY <1>2, <1>7, <1>8, <1>9 DEF IndexInv

LEMMA TargetRemoved ==
  ASSUME IndexInv, NEW a \in Memory!Processes, Memory!RemoveTarget(a)
  PROVE  IndexInv'
<1>1. IndexTyped /\ PlacesApart /\ ReadsHold
  BY DEF IndexInv
<1>2. /\ actor[a].at = "remove" /\ mmFile' = [mmFile EXCEPT !.exists = FALSE] /\ Memory!To(a, "rename")
      /\ UNCHANGED <<mmClock, mmLock, checkpoint>>
  BY DEF Memory!RemoveTarget
<1>3. a \in Writers /\ maintainer \in Memory!Processes /\ \A w \in Writers : w \in Memory!Processes /\ w # maintainer
  BY <1>1, <1>2, ProcessFacts DEF PlacesApart
<1>4. PICK x \in MemoryActors : Moves(a, x) /\ x.at = "rename" /\ x.version = actor[a].version
  BY <1>1, <1>2, ToFacts DEF Places
<1>5. PlacesApart' /\ OneInside' /\ InterruptedIsPast' /\ LocksNewer' /\ JudgeKnows'
  BY <1>2, <1>3, <1>4, WriterInside
<1>6. /\ mmFile' \in [exists : BOOLEAN, version : Nat, expires : Nat] /\ ~mmFile'.exists
      /\ mmFile'.version = mmFile.version /\ mmFile'.expires = mmFile.expires
  BY <1>1, <1>2 DEF IndexTyped
<1>7. IndexTyped'
  BY <1>1, <1>2, <1>4, <1>6 DEF IndexTyped, Moves
<1>8. ReadsHold'
  BY <1>1, <1>2, <1>3, <1>4, <1>6 DEF ReadsHold, Moves
<1> QED BY <1>5, <1>7, <1>8 DEF IndexInv

LEMMA TempRenamed ==
  ASSUME IndexInv, NEW a \in Memory!Processes, Memory!RenameTemp(a)
  PROVE  IndexInv'
<1>1. IndexTyped /\ PlacesApart /\ ReadsHold
  BY DEF IndexInv
<1>2. /\ actor[a].at = "rename" /\ mmFile' = [exists |-> TRUE, version |-> actor[a].version, expires |-> actor[a].expires]
      /\ Memory!To(a, "unlock") /\ UNCHANGED <<mmClock, mmLock, checkpoint>>
  BY DEF Memory!RenameTemp
<1>3. a \in Writers /\ maintainer \in Memory!Processes /\ \A w \in Writers : w \in Memory!Processes /\ w # maintainer
  BY <1>1, <1>2, ProcessFacts DEF PlacesApart
<1>4. PICK x \in MemoryActors : Moves(a, x) /\ x.at = "unlock"
  BY <1>1, <1>2, ToFacts DEF Places
<1>5. PlacesApart' /\ OneInside' /\ InterruptedIsPast' /\ LocksNewer' /\ JudgeKnows'
  BY <1>2, <1>3, <1>4, WriterInside
<1>6. actor[a].version \in Nat /\ actor[a].expires \in Nat
  BY <1>1 DEF IndexTyped, MemoryActors
<1>7. mmFile' \in [exists : BOOLEAN, version : Nat, expires : Nat] /\ mmFile'.exists /\ mmFile'.version = actor[a].version
  BY <1>2, <1>6
<1>8. IndexTyped'
  BY <1>1, <1>2, <1>4, <1>7 DEF IndexTyped, Moves
<1>9. actor[maintainer].at # "delete"
  <2>1. actor[a].at \in Holding
    BY <1>2 DEF Holding, Places
  <2>2. actor[maintainer].at \notin Holding
    BY <1>3, <2>1, InsideAlone
  <2> QED BY <2>2 DEF Holding, Places
<1>10. ReadsHold'
  BY <1>3, <1>4, <1>9 DEF ReadsHold, Moves
<1> QED BY <1>5, <1>8, <1>10 DEF IndexInv

LEMMA WriteFailed ==
  ASSUME IndexInv, NEW a \in Memory!Processes, Memory!WriteFails(a)
  PROVE  IndexInv'
<1>1. IndexTyped /\ PlacesApart /\ ReadsHold
  BY DEF IndexInv
<1>2. actor[a].at \in {"remove", "rename"} /\ Memory!To(a, "unlock") /\ UNCHANGED <<mmClock, mmLock, checkpoint, mmFile>>
  BY DEF Memory!WriteFails
<1>3. a \in Writers /\ maintainer \in Memory!Processes /\ a # maintainer
  BY <1>1, <1>2, ProcessFacts DEF PlacesApart
<1>4. PICK x \in MemoryActors : Moves(a, x) /\ x.at = "unlock"
  BY <1>1, <1>2, ToFacts DEF Places
<1>5. PlacesApart' /\ OneInside' /\ InterruptedIsPast' /\ LocksNewer' /\ JudgeKnows'
  BY <1>2, <1>3, <1>4, WriterInside
<1>6. IndexTyped' /\ ReadsHold'
  BY <1>1, <1>2, <1>3, <1>4 DEF IndexTyped, ReadsHold, Moves
<1> QED BY <1>5, <1>6 DEF IndexInv

-----------------------------------------------------------------------------
(* Maintenance.                                                              *)

\* The maintainer moves outside of the lock.
LEMMA MaintainerOutside ==
  ASSUME IndexInv, actor[maintainer].at \in {"idle", "judge"}, NEW x \in MemoryActors, Moves(maintainer, x),
         x.at \in {"judge", "recover", "acquire"}, x.now \in Nat, x.now <= mmClock,
         x.at \in {"judge", "recover"} =>
           checkpoint.status = "started" /\ x.seen = checkpoint.updated /\ mmClock > checkpoint.updated,
         x.at = "recover" => Deserted,
         UNCHANGED <<mmClock, mmLock, checkpoint, mmFile>>
  PROVE  IndexInv'
<1>1. IndexTyped /\ PlacesApart /\ OneInside /\ InterruptedIsPast /\ LocksNewer /\ ReadsHold
  BY DEF IndexInv
<1>2. maintainer \in Memory!Processes /\ \A w \in Writers : w \in Memory!Processes /\ w # maintainer
  BY ProcessFacts
<1>3. /\ actor' \in [Memory!Processes -> MemoryActors] /\ actor'[maintainer] = x
      /\ \A b \in Memory!Processes : b # maintainer => actor'[b] = actor[b]
  BY DEF Moves
<1>4. actor[maintainer].at \notin Holding /\ x.at \notin Holding
  BY DEF Holding, Places
<1>5. \A b \in Memory!Processes : actor'[b].at \in Holding => actor'[b] = actor[b]
  BY <1>3, <1>4
<1>6. IndexTyped' /\ PlacesApart'
  BY <1>1, <1>2, <1>3 DEF IndexTyped, PlacesApart
<1>7. OneInside'
  BY <1>1, <1>5 DEF OneInside
<1>8. Deserted => Deserted'
  BY <1>5 DEF Deserted
<1>9. InterruptedIsPast'
  BY <1>1, <1>8 DEF InterruptedIsPast
<1>10. LocksNewer' /\ ReadsHold'
  BY <1>1, <1>2, <1>3 DEF LocksNewer, ReadsHold
<1>11. JudgeKnows'
  BY <1>3, <1>8 DEF JudgeKnows
<1> QED BY <1>6, <1>7, <1>9, <1>10, <1>11 DEF IndexInv

LEMMA MaintenanceStarts ==
  ASSUME IndexInv, NEW a \in Memory!Processes, Memory!StartMaintenance(a)
  PROVE  IndexInv' /\ mmFile' = mmFile
<1>1. PICK place \in {"judge", "acquire"} : place = (IF Memory!StaleStarted(mmClock) THEN "judge" ELSE "acquire")
  OBVIOUS
<1>2. /\ a = maintainer /\ actor[maintainer].at = "idle"
      /\ actor' = [actor EXCEPT ![a] = [Memory!Idle EXCEPT !.at = place, !.now = mmClock, !.seen = checkpoint.updated]]
      /\ UNCHANGED <<mmClock, mmLock, checkpoint, mmFile>>
  BY <1>1 DEF Memory!StartMaintenance
<1>3. IndexTyped /\ mmClock \in Nat /\ checkpoint.updated \in Nat
  BY DEF IndexInv, IndexTyped
<1>4. PICK x : x = [Memory!Idle EXCEPT !.at = place, !.now = mmClock, !.seen = checkpoint.updated]
  OBVIOUS
<1>5. x \in MemoryActors /\ x.at = place /\ x.now = mmClock /\ x.seen = checkpoint.updated
  BY <1>3, <1>4, IdleFacts DEF MemoryActors, Places
<1>6. actor' = [actor EXCEPT ![maintainer] = x]
  BY <1>2, <1>4
<1>7. Moves(maintainer, x)
  BY <1>2, <1>3, <1>5, <1>6, MoveFacts
<1>8. ASSUME x.at = "judge" PROVE checkpoint.status = "started" /\ mmClock > checkpoint.updated
  <2>1. checkpoint.status = "started" /\ mmClock - checkpoint.updated >= StaleAfter
    BY <1>1, <1>5, <1>8 DEF Memory!StaleStarted
  <2> QED BY <1>3, <2>1, ProcessFacts
<1>9. x.now <= mmClock
  BY <1>3, <1>5
<1> QED BY <1>2, <1>3, <1>5, <1>7, <1>8, <1>9, MaintainerOutside

\* A lock that the interrupted maintenance may have left has nobody inside.
LEMMA LockJudged ==
  ASSUME IndexInv, NEW a \in Memory!Processes, Memory!JudgeLock(a)
  PROVE  IndexInv' /\ mmFile' = mmFile
<1>1. IndexTyped /\ PlacesApart /\ LocksNewer /\ JudgeKnows
  BY DEF IndexInv
<1>2. PICK place \in {"recover", "acquire"} :
        place = (IF mmLock.exists /\ Memory!BelongsToCheckpoint(a) THEN "recover" ELSE "acquire")
  OBVIOUS
<1>3. actor[a].at = "judge" /\ Memory!To(a, place) /\ UNCHANGED <<mmClock, mmLock, checkpoint, mmFile>>
  BY <1>2 DEF Memory!JudgeLock
<1>4. a = maintainer /\ \A b \in Memory!Processes : b = maintainer \/ b \in Writers
  BY <1>1, <1>3, ProcessFacts DEF PlacesApart
<1>5. PICK x \in MemoryActors : Moves(a, x) /\ x.at = place /\ x.now = actor[a].now /\ x.seen = actor[a].seen
  BY <1>1, <1>2, <1>3, ToFacts DEF Places
<1>6. /\ x.now <= mmClock /\ checkpoint.status = "started" /\ x.seen = checkpoint.updated
      /\ mmClock > checkpoint.updated /\ x.now \in Nat
  BY <1>1, <1>3, <1>4, <1>5 DEF JudgeKnows, MemoryActors
<1>7. ASSUME x.at = "recover" PROVE Deserted
  <2>1. mmLock.exists /\ mmLock.payload /\ mmLock.created <= checkpoint.updated
    BY <1>2, <1>4, <1>5, <1>6, <1>7 DEF Memory!BelongsToCheckpoint
  <2>2. mmLock.created \in Nat /\ checkpoint.updated \in Nat
    BY <1>1 DEF IndexTyped
  <2>3. ASSUME NEW w \in Writers PROVE actor[w].at \notin Holding
    <3>1. actor[w].at \notin {"sign", "load", "remove", "rename", "unlock"}
      BY <1>1, <1>6, <2>1, <2>2 DEF LocksNewer
    <3>2. actor[w].at = "idle"
      BY <1>1, <3>1 DEF PlacesApart
    <3> QED BY <3>2 DEF Holding
  <2>4. actor[maintainer].at \notin Holding
    BY <1>3, <1>4 DEF Holding
  <2> QED BY <1>4, <2>1, <2>3, <2>4 DEF Deserted
<1> QED BY <1>2, <1>3, <1>4, <1>5, <1>6, <1>7, MaintainerOutside

LEMMA LockRecovered ==
  ASSUME IndexInv, NEW a \in Memory!Processes, Memory!RecoverLock(a)
  PROVE  IndexInv' /\ mmFile' = mmFile
<1>1. IndexTyped /\ PlacesApart /\ OneInside /\ LocksNewer /\ JudgeKnows /\ ReadsHold
  BY DEF IndexInv
<1>2. PICK place \in {"acquire", "idle"} : place = (IF mmLock.exists THEN "acquire" ELSE "idle")
  OBVIOUS
<1>3. /\ actor[a].at = "recover" /\ mmLock' = Memory!NoLock /\ Memory!To(a, place)
      /\ UNCHANGED <<mmClock, checkpoint, mmFile>>
  BY <1>2 DEF Memory!RecoverLock
<1>4. a = maintainer /\ maintainer \in Memory!Processes /\ \A w \in Writers : w \in Memory!Processes /\ w # maintainer
  BY <1>1, <1>3, ProcessFacts DEF PlacesApart
<1>5. PICK x \in MemoryActors : Moves(a, x) /\ x.at = place /\ x.now = actor[a].now
  BY <1>1, <1>2, <1>3, ToFacts DEF Places
<1>6. /\ actor' \in [Memory!Processes -> MemoryActors] /\ actor'[a] = x
      /\ \A b \in Memory!Processes : b # a => actor'[b] = actor[b]
  BY <1>5 DEF Moves
<1>7. Deserted /\ mmClock > checkpoint.updated
  BY <1>1, <1>3, <1>4 DEF JudgeKnows
<1>8. \A b \in Memory!Processes : actor'[b].at \notin Holding
  BY <1>2, <1>5, <1>6, <1>7 DEF Deserted, Holding
<1>9. Memory!NoLock \in [exists : BOOLEAN, payload : BOOLEAN, created : Nat]
  BY DEF Memory!NoLock
<1>10. IndexTyped' /\ PlacesApart'
  BY <1>1, <1>2, <1>3, <1>4, <1>5, <1>6, <1>9 DEF IndexTyped, PlacesApart
<1>11. OneInside' /\ InterruptedIsPast'
  BY <1>3, <1>7, <1>8 DEF OneInside, InterruptedIsPast
<1>12. LocksNewer'
  BY <1>4, <1>8 DEF LocksNewer, Holding, Places
<1>13. JudgeKnows' /\ ReadsHold'
  BY <1>1, <1>2, <1>3, <1>4, <1>5, <1>6 DEF JudgeKnows, ReadsHold
<1> QED BY <1>3, <1>10, <1>11, <1>12, <1>13 DEF IndexInv

LEMMA CheckpointRemoved ==
  ASSUME IndexInv, NEW a \in Memory!Processes, Memory!RemoveCheckpoint(a)
  PROVE  IndexInv' /\ mmFile' = mmFile
<1>1. IndexTyped /\ PlacesApart /\ ReadsHold
  BY DEF IndexInv
<1>2. PICK place \in {"started", "completed"} : place = (IF actor[a].at = "begin" THEN "started" ELSE "completed")
  OBVIOUS
<1>3. /\ actor[a].at \in {"begin", "finish"} /\ checkpoint' = [status |-> "missing", updated |-> 0]
      /\ Memory!To(a, place) /\ UNCHANGED <<mmClock, mmLock, mmFile>>
  BY <1>2 DEF Memory!RemoveCheckpoint
<1>4. a = maintainer /\ \A w \in Writers : w \in Memory!Processes /\ w # maintainer
  BY <1>1, <1>3, ProcessFacts DEF PlacesApart
<1>5. PICK x \in MemoryActors : Moves(maintainer, x) /\ x.at = place /\ x.now = actor[maintainer].now
  BY <1>1, <1>2, <1>3, <1>4, ToFacts DEF Places
<1>6. /\ checkpoint' \in [status : {"missing", "started", "completed"}, updated : Nat] /\ checkpoint'.status = "missing"
  BY <1>3
<1>7. PlacesApart' /\ OneInside' /\ InterruptedIsPast' /\ LocksNewer' /\ JudgeKnows'
  BY <1>2, <1>3, <1>4, <1>5, <1>6, MaintainerInside
<1>8. IndexTyped' /\ ReadsHold'
  BY <1>1, <1>2, <1>3, <1>4, <1>5, <1>6 DEF IndexTyped, ReadsHold, Moves
<1> QED BY <1>3, <1>7, <1>8 DEF IndexInv

LEMMA CheckpointRenamed ==
  ASSUME IndexInv, NEW a \in Memory!Processes, Memory!RenameCheckpoint(a)
  PROVE  IndexInv' /\ mmFile' = mmFile
<1>1. IndexTyped /\ PlacesApart /\ ReadsHold
  BY DEF IndexInv
<1>2. PICK place \in {"scan", "unlock"} : place = (IF actor[a].at = "started" THEN "scan" ELSE "unlock")
  OBVIOUS
<1>3. /\ actor[a].at \in {"started", "completed"} /\ checkpoint' = [status |-> actor[a].at, updated |-> mmClock]
      /\ Memory!To(a, place) /\ UNCHANGED <<mmClock, mmLock, mmFile>>
  BY <1>2 DEF Memory!RenameCheckpoint
<1>4. a = maintainer /\ \A w \in Writers : w \in Memory!Processes /\ w # maintainer
  BY <1>1, <1>3, ProcessFacts DEF PlacesApart
<1>5. PICK x \in MemoryActors : Moves(maintainer, x) /\ x.at = place /\ x.now = actor[maintainer].now
  BY <1>1, <1>2, <1>3, <1>4, ToFacts DEF Places
<1>6. /\ checkpoint' \in [status : {"missing", "started", "completed"}, updated : Nat]
      /\ checkpoint'.status = "started" => x.at = "scan"
  BY <1>1, <1>2, <1>3, <1>5 DEF IndexTyped
<1>7. PlacesApart' /\ OneInside' /\ InterruptedIsPast' /\ LocksNewer' /\ JudgeKnows'
  BY <1>2, <1>3, <1>4, <1>5, <1>6, MaintainerInside
<1>8. IndexTyped' /\ ReadsHold'
  BY <1>1, <1>2, <1>3, <1>4, <1>5, <1>6 DEF IndexTyped, ReadsHold, Moves
<1> QED BY <1>3, <1>7, <1>8 DEF IndexInv

LEMMA DirectoryScanned ==
  ASSUME IndexInv, NEW a \in Memory!Processes, Memory!Scan(a)
  PROVE  IndexInv' /\ mmFile' = mmFile
<1>1. IndexTyped /\ PlacesApart /\ ReadsHold /\ JudgeKnows
  BY DEF IndexInv
<1>2. PICK place \in {"delete", "finish"} :
        place = (IF mmFile.exists /\ Memory!IsExpiredAt(mmFile.expires, actor[a].now) THEN "delete" ELSE "finish")
  OBVIOUS
<1>3. actor[a].at = "scan" /\ Memory!To(a, place) /\ UNCHANGED <<mmClock, mmLock, checkpoint, mmFile>>
  BY <1>2 DEF Memory!Scan
<1>4. a = maintainer /\ \A w \in Writers : w \in Memory!Processes /\ w # maintainer
  BY <1>1, <1>3, ProcessFacts DEF PlacesApart
<1>5. PICK x \in MemoryActors : Moves(maintainer, x) /\ x.at = place /\ x.now = actor[maintainer].now
  BY <1>1, <1>2, <1>3, <1>4, ToFacts DEF Places
<1>6. PlacesApart' /\ OneInside' /\ InterruptedIsPast' /\ LocksNewer' /\ JudgeKnows'
  BY <1>2, <1>3, <1>4, <1>5, MaintainerInside
<1>7. x.at = "delete" => mmFile.expires # 0 /\ mmFile.expires <= mmClock
  <2>1. mmFile.expires \in Nat /\ actor[maintainer].now \in Nat /\ mmClock \in Nat /\ actor[maintainer].now <= mmClock
    BY <1>1, <1>4 DEF IndexTyped, MemoryActors, JudgeKnows
  <2> QED BY <1>2, <1>4, <1>5, <2>1 DEF Memory!IsExpiredAt
<1>8. IndexTyped' /\ ReadsHold'
  BY <1>1, <1>3, <1>4, <1>5, <1>7 DEF IndexTyped, ReadsHold, Moves
<1> QED BY <1>3, <1>6, <1>8 DEF IndexInv

LEMMA ExpiredDeleted ==
  ASSUME IndexInv, NEW a \in Memory!Processes, Memory!DeleteExpired(a)
  PROVE  IndexInv'
<1>1. IndexTyped /\ PlacesApart /\ ReadsHold
  BY DEF IndexInv
<1>2. /\ actor[a].at = "delete" /\ mmFile' = [mmFile EXCEPT !.exists = FALSE] /\ Memory!To(a, "finish")
      /\ UNCHANGED <<mmClock, mmLock, checkpoint>>
  BY DEF Memory!DeleteExpired
<1>3. a = maintainer /\ \A w \in Writers : w \in Memory!Processes /\ w # maintainer
  BY <1>1, <1>2, ProcessFacts DEF PlacesApart
<1>4. PICK x \in MemoryActors : Moves(maintainer, x) /\ x.at = "finish" /\ x.now = actor[maintainer].now
  BY <1>1, <1>2, <1>3, ToFacts DEF Places
<1>5. PlacesApart' /\ OneInside' /\ InterruptedIsPast' /\ LocksNewer' /\ JudgeKnows'
  BY <1>2, <1>3, <1>4, MaintainerInside
<1>6. mmFile' \in [exists : BOOLEAN, version : Nat, expires : Nat] /\ ~mmFile'.exists /\ mmFile'.version = mmFile.version
  BY <1>1, <1>2 DEF IndexTyped
<1>7. IndexTyped' /\ ReadsHold'
  BY <1>1, <1>2, <1>3, <1>4, <1>6 DEF IndexTyped, ReadsHold, Moves
<1> QED BY <1>5, <1>7 DEF IndexInv

LEMMA MaintenanceFailed ==
  ASSUME IndexInv, NEW a \in Memory!Processes, Memory!MaintenanceFails(a)
  PROVE  IndexInv'
<1>1. IndexTyped /\ PlacesApart /\ ReadsHold
  BY DEF IndexInv
<1>2. /\ actor[a].at \in {"begin", "started", "scan", "delete", "finish", "completed"} /\ Memory!To(a, "unlock")
      /\ checkpoint.status = "started" => mmClock > checkpoint.updated
      /\ UNCHANGED <<mmClock, mmLock, checkpoint, mmFile>>
  BY DEF Memory!MaintenanceFails
<1>3. a = maintainer
  BY <1>1, <1>2, ProcessFacts DEF PlacesApart
<1>4. PICK x \in MemoryActors : Moves(maintainer, x) /\ x.at = "unlock" /\ x.now = actor[maintainer].now
  BY <1>1, <1>2, <1>3, ToFacts DEF Places
<1>5. PlacesApart' /\ OneInside' /\ InterruptedIsPast' /\ LocksNewer' /\ JudgeKnows'
  BY <1>2, <1>3, <1>4, MaintainerInside
<1>6. IndexTyped' /\ ReadsHold'
  BY <1>1, <1>2, <1>3, <1>4 DEF IndexTyped, ReadsHold, Moves
<1> QED BY <1>5, <1>6 DEF IndexInv

LEMMA IndexTicks ==
  ASSUME IndexInv, Memory!IndexTick
  PROVE  IndexInv' /\ mmFile' = mmFile
<1>1. mmClock' = mmClock + 1 /\ UNCHANGED <<mmLock, checkpoint, mmFile, actor>>
  BY DEF Memory!IndexTick
<1>2. IndexTyped /\ PlacesApart /\ OneInside /\ InterruptedIsPast /\ LocksNewer /\ JudgeKnows /\ ReadsHold
  BY DEF IndexInv
<1>3. mmClock \in Nat /\ checkpoint.updated \in Nat /\ mmFile.expires \in Nat /\ actor[maintainer].now \in Nat
  BY <1>2, ProcessFacts DEF IndexTyped, MemoryActors
<1>4. IndexTyped' /\ PlacesApart' /\ OneInside' /\ LocksNewer'
  BY <1>1, <1>2, <1>3 DEF IndexTyped, PlacesApart, OneInside, LocksNewer
<1>5. Deserted => Deserted'
  BY <1>1 DEF Deserted
<1>6. mmClock > checkpoint.updated => mmClock' > checkpoint'.updated
  BY <1>1, <1>3
<1>7. InterruptedIsPast'
  BY <1>1, <1>2, <1>5, <1>6 DEF InterruptedIsPast
<1>8. JudgeKnows' /\ ReadsHold'
  BY <1>1, <1>2, <1>3, <1>5, <1>6 DEF JudgeKnows, ReadsHold
<1> QED BY <1>1, <1>4, <1>7, <1>8 DEF IndexInv

LEMMA IndexStarts == Memory!IndexInit => IndexInv
<1> SUFFICES ASSUME Memory!IndexInit PROVE IndexInv
  OBVIOUS
<1>1. /\ mmClock = 0 /\ mmLock = Memory!NoLock /\ checkpoint = [status |-> "missing", updated |-> 0]
      /\ mmFile = [exists |-> FALSE, version |-> 0, expires |-> 0]
      /\ actor = [a \in Memory!Processes |-> Memory!Idle]
  BY DEF Memory!IndexInit
<1>2. Memory!NoLock \in [exists : BOOLEAN, payload : BOOLEAN, created : Nat] /\ checkpoint.status = "missing"
  BY <1>1 DEF Memory!NoLock
<1>3. \A a \in Memory!Processes : actor[a] \in MemoryActors /\ actor[a].at = "idle" /\ actor[a].now = 0
  BY <1>1, IdleFacts
<1>4. IndexTyped
  BY <1>1, <1>2, IdleFacts DEF IndexTyped
<1>5. maintainer \in Memory!Processes /\ \A w \in Writers : w \in Memory!Processes
  BY ProcessFacts
<1>6. PlacesApart /\ OneInside /\ InterruptedIsPast
  BY <1>2, <1>3, <1>5 DEF PlacesApart, OneInside, InterruptedIsPast, Holding
<1>7. LocksNewer /\ JudgeKnows /\ ReadsHold
  BY <1>1, <1>3, <1>5 DEF LocksNewer, JudgeKnows, ReadsHold
<1> QED BY <1>4, <1>6, <1>7 DEF IndexInv

LEMMA IndexSteps ==
  ASSUME IndexInv, Memory!IndexNext
  PROVE  IndexInv'
<1>1. CASE Memory!IndexTick
  BY <1>1, IndexTicks
<1>2. ASSUME NEW a \in Memory!Processes, Memory!WriterSteps(a) PROVE IndexInv'
  <2>1. CASE Memory!StartWrite(a)
    BY <2>1, LockTaken DEF Memory!StartWrite
  <2> QED BY <1>2, <2>1, DirectoryLoaded, TargetRemoved, TempRenamed, WriteFailed DEF Memory!WriterSteps
<1>3. ASSUME NEW a \in Memory!Processes, Memory!MaintainerSteps(a) PROVE IndexInv'
  <2>1. CASE Memory!AcquireForMaintenance(a)
    BY <2>1, LockTaken DEF Memory!AcquireForMaintenance
  <2> QED BY <1>3, <2>1, MaintenanceStarts, LockJudged, LockRecovered, CheckpointRemoved, CheckpointRenamed,
             DirectoryScanned, ExpiredDeleted, MaintenanceFailed DEF Memory!MaintainerSteps
<1>4. ASSUME NEW a \in Memory!Processes, Memory!SignLock(a) \/ Memory!Unlock(a) \/ Memory!Crash(a) PROVE IndexInv'
  <2>1. CASE Memory!Unlock(a)
    BY <2>1, ProcessLeaves DEF Memory!Unlock
  <2>2. CASE Memory!Crash(a)
    BY <2>2, ProcessLeaves DEF Memory!Crash
  <2> QED BY <1>4, <2>1, <2>2, LockSigned
<1> QED BY <1>1, <1>2, <1>3, <1>4 DEF Memory!IndexNext

-----------------------------------------------------------------------------
(* The record.                                                               *)

\* What a step may do to the record: the action of MemoryStores' KeptUntilExpired.
RecordKept ==
  /\ mmFile.exists /\ ~mmFile'.exists => Memory!IsExpiredAt(mmFile.expires, mmClock) \/ Memory!Replaced'
  /\ mmFile'.exists /\ mmFile' # mmFile =>
       mmFile'.version = mmFile.version + 1 \/ (mmFile'.version = 1 /\ ~mmFile.exists /\ Memory!Gone)

\* No writer gets to the record, and none that had removed it goes.
LEMMA RecordStays ==
  ASSUME RecordInv, UNCHANGED <<mmClock, mmFile, left>>,
         \A b \in Memory!Processes :
           actor'[b] = actor[b] \/ (actor[b].at # "rename" /\ actor'[b].at \notin {"remove", "rename"})
  PROVE  RecordInv' /\ RecordKept
<1>1. Memory!Gone' = Memory!Gone
  BY DEF Memory!Gone, Memory!IsExpiredAt
<1>2. Memory!Replaced => Memory!Replaced'
  BY DEF Memory!Replaced
<1>3. Memory!MissingIsExplained'
  BY <1>1, <1>2 DEF RecordInv, Memory!MissingIsExplained
<1>4. WritersHold'
  BY <1>1 DEF RecordInv, WritersHold, NextOrFirst
<1> QED BY <1>3, <1>4 DEF RecordInv, RecordKept

\* A process goes elsewhere, and only the writer that renames had something to lose.
LEMMA RecordLeft ==
  ASSUME IndexTyped, RecordInv, NEW a \in Memory!Processes, NEW place \in Places, Memory!To(a, place),
         actor[a].at # "rename", place \notin {"remove", "rename"}, UNCHANGED <<mmClock, mmFile, left>>
  PROVE  RecordInv' /\ RecordKept
<1>1. PICK x \in MemoryActors : Moves(a, x) /\ x.at = place
  BY ToFacts
<1> QED BY <1>1, RecordStays DEF Moves

\* A write that is cut leaves its version in the temporary file.
LEMMA RecordCut ==
  ASSUME IndexInv, RecordInv, NEW a \in Memory!Processes, Memory!Cut(a), NEW x \in MemoryActors, Moves(a, x),
         x.at \in {"idle", "unlock"}, UNCHANGED <<mmClock, mmFile>>
  PROVE  RecordInv' /\ RecordKept
<1>1. CASE actor[a].at # "rename"
  BY <1>1, RecordStays DEF Memory!Cut, Moves
<1>2. CASE actor[a].at = "rename"
  <2>1. actor[a].at \in Holding
    BY <1>2 DEF Holding, Places
  <2>2. \A b \in Memory!Processes : b # a => actor[b].at \notin {"remove", "rename"}
    BY <2>1, InsideAlone DEF Holding, Places
  <2>3. mmFile.version \in Nat /\ left' = actor[a].version
    BY <1>2 DEF IndexInv, IndexTyped, Memory!Cut
  <2>4. left' # 0
    BY <1>2, <2>3 DEF RecordInv, WritersHold, NextOrFirst
  <2>5. Memory!MissingIsExplained'
    BY <2>4 DEF Memory!MissingIsExplained, Memory!Gone
  <2>6. \A b \in Memory!Processes : actor'[b].at \notin {"remove", "rename"}
    BY <2>2 DEF Moves
  <2>7. WritersHold'
    BY <2>6 DEF WritersHold
  <2> QED BY <2>5, <2>7 DEF RecordInv, RecordKept
<1> QED BY <1>1, <1>2

LEMMA RecordRead ==
  ASSUME IndexInv, RecordInv, NEW a \in Memory!Processes, Memory!Load(a)
  PROVE  RecordInv' /\ RecordKept
<1>1. IndexTyped /\ actor[a] \in MemoryActors /\ mmFile.version \in Nat /\ mmClock \in Nat
  BY DEF IndexInv, IndexTyped
<1>2. actor[a].at = "load" /\ UNCHANGED <<mmClock, mmFile, left>>
  BY DEF Memory!Load
<1>3. CASE Memory!To(a, "unlock")
  BY <1>1, <1>2, <1>3, RecordLeft DEF Places
<1>4. CASE ~Memory!To(a, "unlock")
  <2>1. PICK ttl \in {0, 1} :
          actor' = [actor EXCEPT ![a].at = "remove", ![a].version = IF mmFile.exists THEN mmFile.version + 1 ELSE 1,
                                 ![a].expires = IF ttl = 0 THEN 0 ELSE mmClock + ttl]
    BY <1>4 DEF Memory!Load
  <2>2. PICK v \in Nat : v = (IF mmFile.exists THEN mmFile.version + 1 ELSE 1)
    BY <1>1
  <2>3. PICK e \in Nat : e = (IF ttl = 0 THEN 0 ELSE mmClock + ttl)
    BY <1>1
  <2>4. PICK x : x = [actor[a] EXCEPT !.at = "remove", !.version = v, !.expires = e]
    OBVIOUS
  <2>5. x \in MemoryActors /\ x.at = "remove" /\ x.version = v
    BY <1>1, <2>2, <2>3, <2>4 DEF MemoryActors, Places
  <2>6. actor' = [actor EXCEPT ![a] = x]
    BY <2>1, <2>2, <2>3, <2>4
  <2>7. Moves(a, x)
    BY <1>1, <2>5, <2>6, MoveFacts
  <2>8. actor[a].at \in Holding
    BY <1>2 DEF Holding, Places
  <2>9. \A b \in Memory!Processes : actor[b].at \notin {"remove", "rename"}
    BY <1>2, <2>8, InsideAlone DEF Holding, Places
  <2>10. ~mmFile.exists => Memory!Gone
    BY <2>9 DEF RecordInv, Memory!MissingIsExplained, Memory!Replaced
  <2>11. Memory!Gone' = Memory!Gone
    BY <1>2 DEF Memory!Gone, Memory!IsExpiredAt
  <2>12. Memory!MissingIsExplained'
    BY <1>2, <2>10, <2>11 DEF Memory!MissingIsExplained
  <2>13. WritersHold'
    BY <1>2, <2>2, <2>5, <2>7, <2>9, <2>10, <2>11 DEF WritersHold, Moves
  <2> QED BY <1>2, <2>12, <2>13 DEF RecordInv, RecordKept
<1> QED BY <1>3, <1>4

LEMMA RecordRemoved ==
  ASSUME IndexInv, RecordInv, NEW a \in Memory!Processes, Memory!RemoveTarget(a)
  PROVE  RecordInv' /\ RecordKept
<1>1. IndexTyped
  BY DEF IndexInv
<1>2. /\ actor[a].at = "remove" /\ mmFile' = [mmFile EXCEPT !.exists = FALSE] /\ Memory!To(a, "rename")
      /\ UNCHANGED <<mmClock, left>>
  BY DEF Memory!RemoveTarget
<1>3. PICK x \in MemoryActors : Moves(a, x) /\ x.at = "rename" /\ x.version = actor[a].version
  BY <1>1, <1>2, ToFacts DEF Places
<1>4. actor'[a] = x /\ \A b \in Memory!Processes : b # a => actor'[b] = actor[b]
  BY <1>3 DEF Moves
<1>5. ~mmFile'.exists /\ mmFile'.version = mmFile.version /\ mmFile'.expires = mmFile.expires
  BY <1>1, <1>2 DEF IndexTyped
<1>6. actor[a].at \in Holding
  BY <1>2 DEF Holding, Places
<1>7. \A b \in Memory!Processes : b # a => actor'[b].at \notin {"remove", "rename"}
  BY <1>4, <1>6, InsideAlone DEF Holding, Places
<1>8. Memory!Gone' = Memory!Gone
  BY <1>2, <1>5 DEF Memory!Gone, Memory!IsExpiredAt
<1>9. IF mmFile.exists THEN x.version = mmFile.version + 1 ELSE x.version = 1 /\ Memory!Gone
  BY <1>2, <1>3 DEF RecordInv, WritersHold
<1>10. mmFile.exists => Memory!Replaced'
  BY <1>3, <1>4, <1>5, <1>9 DEF Memory!Replaced
<1>11. Memory!MissingIsExplained'
  BY <1>8, <1>9, <1>10 DEF Memory!MissingIsExplained
<1>12. WritersHold'
  BY <1>3, <1>4, <1>5, <1>7, <1>8, <1>9 DEF WritersHold, NextOrFirst
<1> QED BY <1>5, <1>10, <1>11, <1>12 DEF RecordInv, RecordKept

LEMMA RecordReplaced ==
  ASSUME IndexInv, RecordInv, NEW a \in Memory!Processes, Memory!RenameTemp(a)
  PROVE  RecordInv' /\ RecordKept
<1>1. IndexTyped
  BY DEF IndexInv
<1>2. /\ actor[a].at = "rename" /\ mmFile' = [exists |-> TRUE, version |-> actor[a].version, expires |-> actor[a].expires]
      /\ Memory!To(a, "unlock")
  BY DEF Memory!RenameTemp
<1>3. PICK x \in MemoryActors : Moves(a, x) /\ x.at = "unlock"
  BY <1>1, <1>2, ToFacts DEF Places
<1>4. actor[a].at \in Holding
  BY <1>2 DEF Holding, Places
<1>5. \A b \in Memory!Processes : actor'[b].at \notin {"remove", "rename"}
  BY <1>3, <1>4, InsideAlone DEF Holding, Places, Moves
<1>6. mmFile'.exists /\ mmFile'.version = actor[a].version
  BY <1>2
<1>7. ~mmFile.exists /\ NextOrFirst(a)
  BY <1>2 DEF RecordInv, WritersHold
<1>8. Memory!MissingIsExplained' /\ WritersHold'
  BY <1>5, <1>6 DEF Memory!MissingIsExplained, WritersHold
<1> QED BY <1>6, <1>7, <1>8 DEF RecordInv, RecordKept, NextOrFirst

LEMMA RecordExpired ==
  ASSUME IndexInv, RecordInv, NEW a \in Memory!Processes, Memory!DeleteExpired(a)
  PROVE  RecordInv' /\ RecordKept
<1>1. IndexTyped /\ PlacesApart /\ ReadsHold
  BY DEF IndexInv
<1>2. /\ actor[a].at = "delete" /\ mmFile' = [mmFile EXCEPT !.exists = FALSE] /\ Memory!To(a, "finish")
      /\ UNCHANGED <<mmClock, left>>
  BY DEF Memory!DeleteExpired
<1>3. a = maintainer
  BY <1>1, <1>2, ProcessFacts DEF PlacesApart
<1>4. PICK x \in MemoryActors : Moves(a, x) /\ x.at = "finish"
  BY <1>1, <1>2, ToFacts DEF Places
<1>5. actor[a].at \in Holding
  BY <1>2 DEF Holding, Places
<1>6. \A b \in Memory!Processes : actor'[b].at \notin {"remove", "rename"}
  BY <1>4, <1>5, InsideAlone DEF Holding, Places, Moves
<1>7. ~mmFile'.exists /\ mmFile'.expires = mmFile.expires
  BY <1>1, <1>2 DEF IndexTyped
<1>8. Memory!IsExpiredAt(mmFile.expires, mmClock) /\ Memory!Gone'
  BY <1>1, <1>2, <1>3, <1>7 DEF ReadsHold, Memory!IsExpiredAt, Memory!Gone
<1>9. Memory!MissingIsExplained' /\ WritersHold'
  BY <1>6, <1>8 DEF Memory!MissingIsExplained, WritersHold
<1> QED BY <1>7, <1>8, <1>9 DEF RecordInv, RecordKept

LEMMA RecordAges ==
  ASSUME IndexInv, RecordInv, Memory!IndexTick
  PROVE  RecordInv' /\ RecordKept
<1>1. mmClock' = mmClock + 1 /\ UNCHANGED <<mmFile, left, actor>>
  BY DEF Memory!IndexTick
<1>2. mmClock \in Nat /\ mmFile.expires \in Nat
  BY DEF IndexInv, IndexTyped
<1>3. Memory!Gone => Memory!Gone'
  BY <1>1, <1>2 DEF Memory!Gone, Memory!IsExpiredAt
<1>4. Memory!Replaced => Memory!Replaced'
  BY <1>1 DEF Memory!Replaced
<1>5. Memory!MissingIsExplained'
  BY <1>1, <1>3, <1>4 DEF RecordInv, Memory!MissingIsExplained
<1>6. WritersHold'
  BY <1>1, <1>3 DEF RecordInv, WritersHold, NextOrFirst
<1> QED BY <1>1, <1>5, <1>6 DEF RecordInv, RecordKept

LEMMA RecordSteps ==
  ASSUME IndexInv, RecordInv, Memory!IndexNext
  PROVE  RecordInv' /\ RecordKept
<1>1. IndexTyped /\ PlacesApart
  BY DEF IndexInv
<1>2. ASSUME NEW a \in Memory!Processes, Memory!WriterSteps(a) PROVE RecordInv' /\ RecordKept
  <2>1. CASE Memory!StartWrite(a)
    <3>1. actor[a].at = "idle" /\ (Memory!To(a, "idle") \/ Memory!To(a, "sign")) /\ UNCHANGED <<mmClock, mmFile, left>>
      BY <2>1 DEF Memory!StartWrite, Memory!Acquire
    <3> QED BY <1>1, <3>1, RecordLeft DEF Places
  <2>2. CASE Memory!WriteFails(a)
    <3>1. Memory!To(a, "unlock") /\ Memory!Cut(a) /\ UNCHANGED <<mmClock, mmFile>>
      BY <2>2 DEF Memory!WriteFails
    <3>2. PICK x \in MemoryActors : Moves(a, x) /\ x.at = "unlock"
      BY <1>1, <3>1, ToFacts DEF Places
    <3> QED BY <3>1, <3>2, RecordCut
  <2> QED BY <1>2, <2>1, <2>2, RecordRead, RecordRemoved, RecordReplaced DEF Memory!WriterSteps
<1>3. ASSUME NEW a \in Memory!Processes, Memory!MaintainerSteps(a) PROVE RecordInv' /\ RecordKept
  <2>1. CASE Memory!StartMaintenance(a)
    <3>1. a = maintainer /\ UNCHANGED <<mmClock, mmFile, left>>
      BY <2>1 DEF Memory!StartMaintenance
    <3>2. PICK place \in {"judge", "acquire"} : place = (IF Memory!StaleStarted(mmClock) THEN "judge" ELSE "acquire")
      OBVIOUS
    <3>3. PICK x : x = [Memory!Idle EXCEPT !.at = place, !.now = mmClock, !.seen = checkpoint.updated]
      OBVIOUS
    <3>4. actor[a].at = "idle" /\ actor' = [actor EXCEPT ![a] = x]
      BY <2>1, <3>2, <3>3 DEF Memory!StartMaintenance
    <3>5. x.at = place
      BY <3>3 DEF Memory!Idle
    <3>6. actor'[a] = x /\ \A b \in Memory!Processes : b # a => actor'[b] = actor[b]
      BY <1>1, <3>4 DEF IndexTyped
    <3> QED BY <3>1, <3>2, <3>4, <3>5, <3>6, RecordStays
  <2>2. CASE /\ ~Memory!StartMaintenance(a) /\ ~Memory!DeleteExpired(a)
    <3>1. actor[a].at # "rename" /\ UNCHANGED <<mmClock, mmFile, left>>
      BY <1>3, <2>2 DEF Memory!MaintainerSteps, Memory!JudgeLock, Memory!RecoverLock, Memory!AcquireForMaintenance,
         Memory!RemoveCheckpoint, Memory!RenameCheckpoint, Memory!Scan, Memory!MaintenanceFails
    <3>2. \E place \in Places \ {"remove", "rename"} : Memory!To(a, place)
      BY <1>3, <2>2 DEF Memory!MaintainerSteps, Memory!JudgeLock, Memory!RecoverLock, Memory!AcquireForMaintenance,
         Memory!Acquire, Memory!RemoveCheckpoint, Memory!RenameCheckpoint, Memory!Scan, Memory!MaintenanceFails, Places
    <3> QED BY <1>1, <3>1, <3>2, RecordLeft
  <2> QED BY <1>3, <2>1, <2>2, RecordExpired
<1>4. ASSUME NEW a \in Memory!Processes, Memory!SignLock(a) \/ Memory!Unlock(a) \/ Memory!Crash(a)
      PROVE  RecordInv' /\ RecordKept
  <2>1. CASE Memory!SignLock(a)
    <3>1. actor[a].at = "sign" /\ (Memory!To(a, "begin") \/ Memory!To(a, "load")) /\ UNCHANGED <<mmClock, mmFile, left>>
      BY <2>1 DEF Memory!SignLock
    <3> QED BY <1>1, <3>1, RecordLeft DEF Places
  <2>2. CASE Memory!Unlock(a) \/ Memory!Crash(a)
    <3>1. actor' = [actor EXCEPT ![a] = Memory!Idle] /\ UNCHANGED <<mmClock, mmFile>> /\ Memory!Cut(a)
      BY <2>2 DEF Memory!Unlock, Memory!Crash, Memory!Cut
    <3>2. Moves(a, Memory!Idle)
      BY <1>1, <3>1, IdleFacts, MoveFacts
    <3> QED BY <3>1, <3>2, IdleFacts, RecordCut
  <2> QED BY <1>4, <2>1, <2>2
<1> QED BY <1>2, <1>3, <1>4, RecordAges DEF Memory!IndexNext

LEMMA RecordStarts == Memory!IndexInit => RecordInv
<1> SUFFICES ASSUME Memory!IndexInit PROVE RecordInv
  OBVIOUS
<1>1. mmFile.version = 0 /\ actor = [a \in Memory!Processes |-> Memory!Idle]
  BY DEF Memory!IndexInit
<1>2. \A a \in Memory!Processes : actor[a].at = "idle"
  BY <1>1, IdleFacts
<1> QED BY <1>1, <1>2 DEF RecordInv, WritersHold, Memory!MissingIsExplained, Memory!Gone

\* For any number of writers, callers and crashes: of the callers of a
\* maintenance schedule, whatever names they share, one has a claim that the
\* store would still complete or renew (schedule.rs); and a memory record is
\* missing from its file only if it has expired, while the writer with its next
\* version replaces it, or after a crash or a failing rename exactly between that
\* writer's removal and rename, which loses it (durable.rs); the versions written
\* follow each other, over stale locks that maintenance recovers, while one
\* maintenance runs.
THEOREM MemoryStaysKept == SystemSpec => MemoryIsKept
<1> DEFINE Inv == (part = "schedule" => ScheduleInv) /\ (part = "index" => IndexInv /\ RecordInv)
                  /\ (part # "index" => mmFile.version = 0)
           Kept == RecordKept \/ mmFile' = mmFile
<1>1. SystemInit => Inv
  BY ScheduleStarts, IndexStarts, RecordStarts DEF SystemInit, Memory!IndexInit
<1>2. Inv /\ [SystemNext]_all => Inv' /\ Kept
  <2> SUFFICES ASSUME Inv, [SystemNext]_all PROVE Inv' /\ Kept
    OBVIOUS
  <2>1. CASE SystemNext
    <3>1. CASE part = "schedule"
      <4>1. Memory!ScheduleNext /\ part' = part /\ UNCHANGED indexVars
        BY <2>1, <3>1 DEF SystemNext, Step, Idle
      <4>2. mmFile' = mmFile
        BY <4>1 DEF indexVars
      <4> QED BY <3>1, <4>1, <4>2, ScheduleSteps
    <3>2. CASE part = "index"
      <4>1. Memory!IndexNext /\ part' = part
        BY <2>1, <3>2 DEF SystemNext, Step
      <4> QED BY <3>2, <4>1, IndexSteps, RecordSteps
    <3>3. CASE part \notin {"schedule", "index"}
      <4>1. part' = part /\ UNCHANGED indexVars
        BY <2>1, <3>3 DEF SystemNext, Idle
      <4>2. mmFile' = mmFile
        BY <4>1 DEF indexVars
      <4> QED BY <3>3, <4>1, <4>2
    <3> QED BY <3>1, <3>2, <3>3
  <2>2. CASE UNCHANGED all
    <3>1. part' = part /\ UNCHANGED indexVars /\ UNCHANGED scheduleVars
      BY <2>2 DEF all
    <3>2. UNCHANGED <<mmNow, schedule, anchor, job>>
      BY <3>1 DEF scheduleVars
    <3>3. UNCHANGED <<mmClock, mmLock, checkpoint, mmFile, left, actor>>
      BY <3>1 DEF indexVars
    <3>4. ScheduleInv => ScheduleInv'
      BY <3>2 DEF ScheduleInv, ScheduleTyped, NextInHand, GenerationsPast, GenerationsDiffer
    <3>5. IndexTyped /\ PlacesApart /\ OneInside => IndexTyped' /\ PlacesApart' /\ OneInside'
      BY <3>3 DEF IndexTyped, PlacesApart, OneInside
    <3>6. InterruptedIsPast /\ LocksNewer => InterruptedIsPast' /\ LocksNewer'
      BY <3>3 DEF InterruptedIsPast, LocksNewer, Deserted
    <3>7. JudgeKnows /\ ReadsHold => JudgeKnows' /\ ReadsHold'
      BY <3>3 DEF JudgeKnows, ReadsHold, Deserted
    <3>8. RecordInv => RecordInv'
      BY <3>3, RecordStays
    <3> QED BY <3>1, <3>3, <3>4, <3>5, <3>6, <3>7, <3>8 DEF IndexInv
  <2> QED BY <2>1, <2>2
<1>3. Inv => (part = "schedule" => Memory!OneLiveClaim)
  BY ClaimsFenced
<1>4. Inv => Memory!MissingIsExplained
  BY DEF RecordInv, Memory!MissingIsExplained, Memory!Gone
<1>5. Kept =>
        [/\ mmFile.exists /\ ~mmFile'.exists => Memory!IsExpiredAt(mmFile.expires, mmClock) \/ Memory!Replaced'
         /\ mmFile'.exists /\ mmFile' # mmFile =>
              mmFile'.version = mmFile.version + 1 \/ (mmFile'.version = 1 /\ ~mmFile.exists /\ Memory!Gone)
        ]_<<mmClock, mmLock, checkpoint, mmFile, left, actor, mmCrashes>>
  BY DEF RecordKept
<1> QED
  BY <1>1, <1>2, <1>3, <1>4, <1>5, PTL DEF SystemSpec, MemoryIsKept, Memory!KeptUntilExpired, Memory!indexVars
=============================================================================
