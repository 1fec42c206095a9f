-------------------------- MODULE RuntimeLeaseProofs --------------------------
(***************************************************************************)
(* The runtime lease for every number of processes, every time to live and *)
(* every bound: the inductive invariant IInv and what follows from it.     *)
(***************************************************************************)
EXTENDS RuntimeLease, TLAPS

\* Where a process holds the writer lock, the anchor lock, a generation.
WriterPcs == {"generation", "advance", "owner", "lease"} \cup Serving
AnchorPcs == {"check", "lease", "probing"} \cup (Serving \ {"linger"})
GenPcs    == {"owner", "lease"} \cup Serving
FreePcs   == {"off", "exists", "open", "lock", "linger"}

\* What a process that passed CheckLease may rely on until it writes the lease.
Judged(p) ==
  IF lease = None THEN seen[p] = 0
  ELSE /\ seen[p] = lease.gen
       /\ lease.state = "released" \/ lease.exp <= at[p] \/ Identity(lease) = target[p]

\* A process's position determines its locks.
LocksHeld ==
  \A p \in Procs :
    /\ pc[p] \in WriterPcs => writer = p
    /\ pc[p] \in AnchorPcs => anchor = p
    /\ pc[p] \in FreePcs => anchor # p

\* Its position determines its generation, which is the current one.
GenerationHeld ==
  \A p \in Procs :
    /\ pc[p] \in GenPcs => gen[p] = genFile /\ gen[p] # 0
    /\ pc[p] = "advance" => gen[p] = genFile + 1
    /\ pc[p] \notin GenPcs \cup {"advance"} => gen[p] = 0
    /\ writing[p] => pc[p] \in Serving
    /\ pc[p] \in {"lease"} \cup Serving => owner = [proc |-> p, gen |-> gen[p]]

\* Its copy of the lease record, and the record itself.
LeaseHeld ==
  \A p \in Procs :
    /\ pc[p] \in Serving \ {"linger"} =>
         mine[p] # None /\ mine[p].gen = gen[p] /\ mine[p].proc = p
    /\ pc[p] \in {"held", "renewing", "releasing", "stopping"} => mine[p].state = "active"
    /\ pc[p] \in {"held", "renewing", "releasing"} => lease = mine[p]
    /\ pc[p] \in {"writer", "generation", "advance", "owner", "lease"} /\ anchor = p =>
         Judged(p)

\* The files among themselves.
FilesAgree ==
  /\ AlwaysRestartable
  /\ anchor # None => anchorFile
  /\ \A p \in Procs : pc[p] = "lock" => anchorFile
  /\ stamp <= genFile

IInv == TypeOK /\ LocksHeld /\ GenerationHeld /\ LeaseHeld /\ FilesAgree

USE DEF Serving, PcType, WriterPcs, AnchorPcs, GenPcs, FreePcs

\* The end of a process frees its locks and forgets what it knew.
LEMMA EndsStep ==
  ASSUME IInv, NEW p \in Procs, Ends(p)
  PROVE  IInv'
<1> USE LeaseAssumption DEF IInv, TypeOK, Ends, Close, GoTo, files, locks, local
<1>1. TypeOK'
  BY DEF OwnerType, LeaseType
<1>2. LocksHeld'
  BY DEF LocksHeld
<1>3. GenerationHeld'
  BY DEF LocksHeld, GenerationHeld
<1>4. LeaseHeld'
  BY DEF LocksHeld, GenerationHeld, LeaseHeld, Judged, Identity
<1>5. FilesAgree'
  BY DEF LocksHeld, GenerationHeld, LeaseHeld, FilesAgree, AlwaysRestartable
<1>. QED  BY <1>1, <1>2, <1>3, <1>4, <1>5

\* A start reads the clock and the anchor's existence.
LEMMA BeginStep ==
  ASSUME IInv, NEW p \in Procs, NEW id \in OwnerType \cup {None}, Begin(p, id)
  PROVE  IInv'
<1> USE LeaseAssumption DEF IInv, TypeOK, Begin, GoTo, files, locks, local
<1>1. TypeOK'
  BY DEF OwnerType, LeaseType
<1>2. LocksHeld'
  BY DEF LocksHeld
<1>3. GenerationHeld'
  BY DEF LocksHeld, GenerationHeld
<1>4. LeaseHeld'
  BY DEF LocksHeld, GenerationHeld, LeaseHeld, Judged, Identity
<1>5. FilesAgree'
  BY DEF LocksHeld, GenerationHeld, LeaseHeld, FilesAgree, AlwaysRestartable
<1>. QED  BY <1>1, <1>2, <1>3, <1>4, <1>5

\* The check of the two paths only moves on.
LEMMA CheckPathsStep ==
  ASSUME IInv, NEW p \in Procs, CheckPaths(p)
  PROVE  IInv'
<1> USE LeaseAssumption DEF IInv, TypeOK, CheckPaths, GoTo, files, locks, local
<1>1. TypeOK'
  BY DEF OwnerType, LeaseType
<1>2. LocksHeld'
  BY DEF LocksHeld
<1>3. GenerationHeld'
  BY DEF LocksHeld, GenerationHeld
<1>4. LeaseHeld'
  BY DEF LocksHeld, GenerationHeld, LeaseHeld, Judged, Identity
<1>5. FilesAgree'
  BY DEF LocksHeld, GenerationHeld, LeaseHeld, FilesAgree, AlwaysRestartable
<1>. QED  BY <1>1, <1>2, <1>3, <1>4, <1>5

\* Opening or publishing the anchor makes it exist.
LEMMA OpenAnchorStep ==
  ASSUME IInv, NEW p \in Procs, OpenAnchor(p)
  PROVE  IInv'
<1> USE LeaseAssumption DEF IInv, TypeOK, OpenAnchor, GoTo, files, locks, local
<1>1. TypeOK'
  BY DEF OwnerType, LeaseType
<1>2. LocksHeld'
  BY DEF LocksHeld
<1>3. GenerationHeld'
  BY DEF LocksHeld, GenerationHeld
<1>4. LeaseHeld'
  BY DEF LocksHeld, GenerationHeld, LeaseHeld, Judged, Identity
<1>5. FilesAgree'
  BY DEF LocksHeld, GenerationHeld, LeaseHeld, FilesAgree, AlwaysRestartable
<1>. QED  BY <1>1, <1>2, <1>3, <1>4, <1>5

\* The anchor lock is taken when it is free.
LEMMA LockAnchorStep ==
  ASSUME IInv, NEW p \in Procs, LockAnchor(p)
  PROVE  IInv'
<1> USE LeaseAssumption DEF IInv, TypeOK, LockAnchor, GoTo, files, locks, local
<1>1. TypeOK'
  BY DEF OwnerType, LeaseType
<1>2. LocksHeld'
  BY DEF LocksHeld
<1>3. GenerationHeld'
  BY DEF LocksHeld, GenerationHeld
<1>4. LeaseHeld'
  BY DEF LocksHeld, GenerationHeld, LeaseHeld, Judged, Identity
<1>5. FilesAgree'
  BY DEF LocksHeld, GenerationHeld, LeaseHeld, FilesAgree, AlwaysRestartable
<1>. QED  BY <1>1, <1>2, <1>3, <1>4, <1>5

\* Passing the check is what Judged records.
LEMMA CheckLeaseStep ==
  ASSUME IInv, NEW p \in Procs, CheckLease(p)
  PROVE  IInv'
<1> USE LeaseAssumption DEF IInv, TypeOK, CheckLease, LeaseAdmits, Identity,
                            GoTo, files, locks, local
<1>1. TypeOK'
  BY DEF OwnerType, LeaseType
<1>2. LocksHeld'
  BY DEF LocksHeld
<1>3. GenerationHeld'
  BY DEF LocksHeld, GenerationHeld
<1>4. LeaseHeld'
  BY DEF LocksHeld, GenerationHeld, LeaseHeld, LeaseType, Judged, Identity
<1>5. FilesAgree'
  BY DEF LocksHeld, GenerationHeld, LeaseHeld, FilesAgree, AlwaysRestartable
<1>. QED  BY <1>1, <1>2, <1>3, <1>4, <1>5

\* A store opened without a daemon goes for the writer lock.
LEMMA OpenStoreStep ==
  ASSUME IInv, NEW p \in Procs, OpenStore(p)
  PROVE  IInv'
<1> USE LeaseAssumption DEF IInv, TypeOK, OpenStore, GoTo, files, locks, local
<1>1. TypeOK'
  BY DEF OwnerType, LeaseType
<1>2. LocksHeld'
  BY DEF LocksHeld
<1>3. GenerationHeld'
  BY DEF LocksHeld, GenerationHeld
<1>4. LeaseHeld'
  BY DEF LocksHeld, GenerationHeld, LeaseHeld, Judged, Identity
<1>5. FilesAgree'
  BY DEF LocksHeld, GenerationHeld, LeaseHeld, FilesAgree, AlwaysRestartable
<1>. QED  BY <1>1, <1>2, <1>3, <1>4, <1>5

\* The writer lock is taken when it is free.
LEMMA LockWriterStep ==
  ASSUME IInv, NEW p \in Procs, LockWriter(p)
  PROVE  IInv'
<1> USE LeaseAssumption DEF IInv, TypeOK, LockWriter, GoTo, files, locks, local
<1>1. TypeOK'
  BY DEF OwnerType, LeaseType
<1>2. LocksHeld'
  BY DEF LocksHeld
<1>3. GenerationHeld'
  BY DEF LocksHeld, GenerationHeld
<1>4. LeaseHeld'
  BY DEF LocksHeld, GenerationHeld, LeaseHeld, Judged, Identity
<1>5. FilesAgree'
  BY DEF LocksHeld, GenerationHeld, LeaseHeld, FilesAgree, AlwaysRestartable
<1>. QED  BY <1>1, <1>2, <1>3, <1>4, <1>5

\* The holder of the writer lock draws the next generation; no other
\* process has one.
LEMMA ReadGenerationStep ==
  ASSUME IInv, NEW p \in Procs, ReadGeneration(p)
  PROVE  IInv'
<1> USE LeaseAssumption DEF IInv, TypeOK, ReadGeneration, GoTo, files, locks, local
<1>1. TypeOK'
  BY DEF OwnerType, LeaseType
<1>2. LocksHeld'
  BY DEF LocksHeld
<1>3. GenerationHeld'
  BY DEF LocksHeld, GenerationHeld
<1>4. LeaseHeld'
  BY DEF LocksHeld, GenerationHeld, LeaseHeld, Judged, Identity
<1>5. FilesAgree'
  BY DEF LocksHeld, GenerationHeld, LeaseHeld, FilesAgree, AlwaysRestartable
<1>. QED  BY <1>1, <1>2, <1>3, <1>4, <1>5

\* The generation file takes the number its only drawer read.
LEMMA AdvanceGenerationStep ==
  ASSUME IInv, NEW p \in Procs, AdvanceGeneration(p)
  PROVE  IInv'
<1> USE LeaseAssumption DEF IInv, TypeOK, AdvanceGeneration, GoTo, files, locks, local
<1>1. TypeOK'
  BY DEF OwnerType, LeaseType
<1>2. LocksHeld'
  BY DEF LocksHeld
<1>3. GenerationHeld'
  BY DEF LocksHeld, GenerationHeld
<1>4. LeaseHeld'
  BY DEF LocksHeld, GenerationHeld, LeaseHeld, Judged, Identity
<1>5. FilesAgree'
  BY DEF LocksHeld, GenerationHeld, LeaseHeld, FilesAgree, AlwaysRestartable,
         LeaseType, OwnerType
<1>. QED  BY <1>1, <1>2, <1>3, <1>4, <1>5

\* The owner record follows the generation.
LEMMA WriteOwnerStep ==
  ASSUME IInv, NEW p \in Procs, WriteOwner(p)
  PROVE  IInv'
<1> USE LeaseAssumption DEF IInv, TypeOK, WriteOwner, GoTo, files, locks, local
<1>g. gen[p] \in 1..MaxGen  BY DEF GenerationHeld
<1>o. owner' \in OwnerType  BY <1>g DEF OwnerType
<1>1. TypeOK'
  BY <1>o DEF OwnerType, LeaseType
<1>2. LocksHeld'
  BY DEF LocksHeld
<1>3. GenerationHeld'
  BY DEF LocksHeld, GenerationHeld
<1>4. LeaseHeld'
  BY DEF LocksHeld, GenerationHeld, LeaseHeld, Judged, Identity
<1>5. FilesAgree'
  BY DEF LocksHeld, GenerationHeld, LeaseHeld, FilesAgree, AlwaysRestartable
<1>. QED  BY <1>1, <1>2, <1>3, <1>4, <1>5

\* The lease follows the owner record, with the anchor held.
LEMMA WriteLeaseStep ==
  ASSUME IInv, NEW p \in Procs, WriteLease(p)
  PROVE  IInv'
<1> USE LeaseAssumption DEF IInv, TypeOK, WriteLease, ActiveLease, GoTo, files, locks, local
<1>1. TypeOK'
  BY DEF OwnerType, LeaseType
<1>2. LocksHeld'
  BY DEF LocksHeld
<1>3. GenerationHeld'
  BY DEF LocksHeld, GenerationHeld
<1>4. LeaseHeld'
  BY DEF LocksHeld, GenerationHeld, LeaseHeld, Judged, Identity
<1>5. FilesAgree'
  BY DEF LocksHeld, GenerationHeld, LeaseHeld, FilesAgree, AlwaysRestartable
<1>. QED  BY <1>1, <1>2, <1>3, <1>4, <1>5

\* A renewal verifies generation, owner and record.
LEMMA RenewStep ==
  ASSUME IInv, NEW p \in Procs, Renew(p)
  PROVE  IInv'
<1> USE LeaseAssumption DEF IInv, TypeOK, Renew, VerifyCurrentRecord, GoTo, files, locks, local
<1>1. TypeOK'
  BY DEF OwnerType, LeaseType
<1>2. LocksHeld'
  BY DEF LocksHeld
<1>3. GenerationHeld'
  BY DEF LocksHeld, GenerationHeld
<1>4. LeaseHeld'
  BY DEF LocksHeld, GenerationHeld, LeaseHeld, Judged, Identity
<1>5. FilesAgree'
  BY DEF LocksHeld, GenerationHeld, LeaseHeld, FilesAgree, AlwaysRestartable
<1>. QED  BY <1>1, <1>2, <1>3, <1>4, <1>5

\* The renewed record is the owner's, old or new.
LEMMA WriteRenewalStep ==
  ASSUME IInv, NEW p \in Procs, WriteRenewal(p)
  PROVE  IInv'
<1> USE LeaseAssumption DEF IInv, TypeOK, WriteRenewal, WriteRecord, GoTo, files, locks, local
<1>m. /\ mine[p] \in LeaseType /\ mine[p].gen = gen[p] /\ mine[p].proc = p
      /\ mine[p].state = "active" /\ lease = mine[p] /\ anchor = p /\ writer = p
      /\ gen[p] = genFile
  BY DEF LocksHeld, GenerationHeld, LeaseHeld
<1>h. Later(mine[p].hb, at[p]) \in 0..MaxTime  BY <1>m DEF Later, LeaseType
<1>n. PICK r : r = Renewed(p)  OBVIOUS
<1>e. r = [mine[p] EXCEPT !.state = "active", !.hb = Later(mine[p].hb, at[p]),
                       !.exp = Later(mine[p].hb, at[p]) + Ttl]
  BY <1>m, <1>n DEF Renewed, LeaseType
<1>x. Later(mine[p].hb, at[p]) + Ttl \in 0..MaxTime + Ttl  BY <1>h
<1>t. r \in LeaseType  BY <1>m, <1>h, <1>e, <1>x DEF LeaseType
<1>f. r.gen = gen[p] /\ r.proc = p /\ r.state = "active"  BY <1>m, <1>e DEF LeaseType
<1>r. r \in LeaseType /\ r.gen = gen[p] /\ r.proc = p /\ r.state = "active" /\ r # None
  BY <1>t, <1>f DEF LeaseType
<1>1. TypeOK'
  BY <1>m, <1>n, <1>r DEF OwnerType, LeaseType
<1>2. LocksHeld'
  BY DEF LocksHeld
<1>3. GenerationHeld'
  BY DEF LocksHeld, GenerationHeld
<1>4. LeaseHeld'
  BY <1>m, <1>n, <1>r DEF LocksHeld, GenerationHeld, LeaseHeld, Judged, Identity
<1>5. FilesAgree'
  BY <1>m, <1>n, <1>r DEF LocksHeld, GenerationHeld, LeaseHeld, FilesAgree, AlwaysRestartable
<1>. QED  BY <1>1, <1>2, <1>3, <1>4, <1>5

\* A release verifies generation, owner and record.
LEMMA ReleaseStep ==
  ASSUME IInv, NEW p \in Procs, Release(p)
  PROVE  IInv'
<1> USE LeaseAssumption DEF IInv, TypeOK, Release, VerifyCurrentRecord, GoTo,
                            files, locks, local
<1>1. TypeOK'
  BY DEF OwnerType, LeaseType
<1>2. LocksHeld'
  BY DEF LocksHeld
<1>3. GenerationHeld'
  BY DEF LocksHeld, GenerationHeld
<1>4. LeaseHeld'
  BY DEF LocksHeld, GenerationHeld, LeaseHeld, Judged, Identity
<1>5. FilesAgree'
  BY DEF LocksHeld, GenerationHeld, LeaseHeld, FilesAgree, AlwaysRestartable
<1>. QED  BY <1>1, <1>2, <1>3, <1>4, <1>5

\* The released record is the owner's, old or new.
LEMMA WriteReleaseStep ==
  ASSUME IInv, NEW p \in Procs, WriteRelease(p)
  PROVE  IInv'
<1> USE LeaseAssumption DEF IInv, TypeOK, WriteRelease, WriteRecord, GoTo, files, locks, local
<1>m. /\ mine[p] \in LeaseType /\ mine[p].gen = gen[p] /\ mine[p].proc = p
      /\ mine[p].state = "active" /\ lease = mine[p] /\ anchor = p /\ writer = p
      /\ gen[p] = genFile
  BY DEF LocksHeld, GenerationHeld, LeaseHeld
<1>h. Later(mine[p].hb, at[p]) \in 0..MaxTime  BY <1>m DEF Later, LeaseType
<1>n. PICK r : r = Released(p)  OBVIOUS
<1>e. r = [mine[p] EXCEPT !.state = "released", !.hb = Later(mine[p].hb, at[p]),
                       !.exp = Later(mine[p].hb, at[p])]
  BY <1>m, <1>n DEF Released, LeaseType
<1>x. Later(mine[p].hb, at[p]) \in 0..MaxTime + Ttl  BY <1>h
<1>t. r \in LeaseType  BY <1>m, <1>h, <1>e, <1>x DEF LeaseType
<1>f. r.gen = gen[p] /\ r.proc = p /\ r.state = "released"  BY <1>m, <1>e DEF LeaseType
<1>r. r \in LeaseType /\ r.gen = gen[p] /\ r.proc = p /\ r.state = "released" /\ r # None
  BY <1>t, <1>f DEF LeaseType
<1>1. TypeOK'
  BY <1>m, <1>n, <1>r DEF OwnerType, LeaseType
<1>2. LocksHeld'
  BY DEF LocksHeld
<1>3. GenerationHeld'
  BY DEF LocksHeld, GenerationHeld
<1>4. LeaseHeld'
  BY <1>m, <1>n, <1>r DEF LocksHeld, GenerationHeld, LeaseHeld, Judged, Identity
<1>5. FilesAgree'
  BY <1>m, <1>n, <1>r DEF LocksHeld, GenerationHeld, LeaseHeld, FilesAgree, AlwaysRestartable
<1>. QED  BY <1>1, <1>2, <1>3, <1>4, <1>5

\* Dropping the guard frees the anchor; the writer lock stays.
LEMMA DropGuardStep ==
  ASSUME IInv, NEW p \in Procs, DropGuard(p)
  PROVE  IInv'
<1> USE LeaseAssumption DEF IInv, TypeOK, DropGuard, GoTo, files, locks, local
<1>1. TypeOK'
  BY DEF OwnerType, LeaseType
<1>2. LocksHeld'
  BY DEF LocksHeld
<1>3. GenerationHeld'
  BY DEF LocksHeld, GenerationHeld
<1>4. LeaseHeld'
  BY DEF LocksHeld, GenerationHeld, LeaseHeld, Judged, Identity
<1>5. FilesAgree'
  BY DEF LocksHeld, GenerationHeld, LeaseHeld, FilesAgree, AlwaysRestartable
<1>. QED  BY <1>1, <1>2, <1>3, <1>4, <1>5

\* A verified store write begins.
LEMMA BeginWriteStep ==
  ASSUME IInv, NEW p \in Procs, BeginWrite(p)
  PROVE  IInv'
<1> USE LeaseAssumption DEF IInv, TypeOK, BeginWrite, VerifyCurrent, files, locks, local
<1>1. TypeOK'
  BY DEF OwnerType, LeaseType
<1>2. LocksHeld'
  BY DEF LocksHeld
<1>3. GenerationHeld'
  BY DEF LocksHeld, GenerationHeld
<1>4. LeaseHeld'
  BY DEF LocksHeld, GenerationHeld, LeaseHeld, Judged, Identity
<1>5. FilesAgree'
  BY DEF LocksHeld, GenerationHeld, LeaseHeld, FilesAgree, AlwaysRestartable
<1>. QED  BY <1>1, <1>2, <1>3, <1>4, <1>5

\* A store write carries the current generation.
LEMMA EndWriteStep ==
  ASSUME IInv, NEW p \in Procs, EndWrite(p)
  PROVE  IInv'
<1> USE LeaseAssumption DEF IInv, TypeOK, EndWrite, files, locks, local
<1>1. TypeOK'
  BY DEF OwnerType, LeaseType
<1>2. LocksHeld'
  BY DEF LocksHeld
<1>3. GenerationHeld'
  BY DEF LocksHeld, GenerationHeld
<1>4. LeaseHeld'
  BY DEF LocksHeld, GenerationHeld, LeaseHeld, Judged, Identity
<1>5. FilesAgree'
  BY DEF LocksHeld, GenerationHeld, LeaseHeld, FilesAgree, AlwaysRestartable
<1>. QED  BY <1>1, <1>2, <1>3, <1>4, <1>5

\* A probe holds a free anchor for a moment.
LEMMA ProbeStep ==
  ASSUME IInv, NEW p \in Procs, Probe(p)
  PROVE  IInv'
<1> USE LeaseAssumption DEF IInv, TypeOK, Probe, GoTo, files, locks, local
<1>1. TypeOK'
  BY DEF OwnerType, LeaseType
<1>2. LocksHeld'
  BY DEF LocksHeld
<1>3. GenerationHeld'
  BY DEF LocksHeld, GenerationHeld
<1>4. LeaseHeld'
  BY DEF LocksHeld, GenerationHeld, LeaseHeld, Judged, Identity
<1>5. FilesAgree'
  BY DEF LocksHeld, GenerationHeld, LeaseHeld, FilesAgree, AlwaysRestartable
<1>. QED  BY <1>1, <1>2, <1>3, <1>4, <1>5

\* A clock that is set changes nothing the processes rely on.
LEMMA SetClockStep ==
  ASSUME IInv, SetClock
  PROVE  IInv'
BY DEF IInv, TypeOK, LocksHeld, GenerationHeld, LeaseHeld, Judged, FilesAgree,
       AlwaysRestartable, SetClock, files, locks, local

\* Stuttering.
LEMMA StutterStep ==
  ASSUME IInv, UNCHANGED vars
  PROVE  IInv'
BY DEF IInv, TypeOK, LocksHeld, GenerationHeld, LeaseHeld, Judged, FilesAgree,
       AlwaysRestartable, vars, files, locks, local

\* Every step of the system keeps the invariant.
LEMMA NextStep ==
  ASSUME IInv, [Next]_vars
  PROVE  IInv'
<1>1. ASSUME NEW p \in Procs, Acquire(p) PROVE IInv'
  <2>1. CASE Start(p)
    BY <2>1, BeginStep DEF Start
  <2>2. CASE ReclaimFailedStart(p)
    <3>1. Identity(lease) \in OwnerType
      BY <2>2 DEF IInv, TypeOK, ReclaimFailedStart, Identity, LeaseType, OwnerType
    <3>. QED  BY <2>2, <3>1, BeginStep DEF ReclaimFailedStart
  <2>. QED  BY <1>1, <2>1, <2>2, CheckPathsStep, OpenAnchorStep, LockAnchorStep,
               CheckLeaseStep, OpenStoreStep, LockWriterStep, ReadGenerationStep,
               AdvanceGenerationStep, WriteOwnerStep, WriteLeaseStep DEF Acquire
<1>2. ASSUME NEW p \in Procs, Serve(p) PROVE IInv'
  BY <1>2, RenewStep, WriteRenewalStep, ReleaseStep, WriteReleaseStep, DropGuardStep,
     BeginWriteStep, EndWriteStep DEF Serve
<1>. QED  BY <1>1, <1>2, ProbeStep, EndsStep, SetClockStep, StutterStep DEF Next

\* An untouched data root with no process running.
LEMMA InitIInv == Init => IInv
<1> SUFFICES ASSUME Init PROVE IInv
  OBVIOUS
<1>0. 0 \in 0..MaxTime /\ 0 \in 0..MaxGen  BY LeaseAssumption
<1>1. TypeOK  BY <1>0, Zenon DEF Init, TypeOK
<1>2. LocksHeld
  BY LeaseAssumption DEF Init, LocksHeld
<1>3. GenerationHeld  BY DEF Init, GenerationHeld
<1>4. LeaseHeld  BY DEF Init, LeaseHeld
<1>5. FilesAgree  BY DEF Init, FilesAgree, AlwaysRestartable
<1>. QED  BY <1>1, <1>2, <1>3, <1>4, <1>5 DEF IInv

-----------------------------------------------------------------------------
\* The inductive invariant holds in every reachable state.
THEOREM Invariance == Spec => []IInv
<1>1. IInv /\ [Next]_vars => IInv'  BY NextStep
<1>. QED  BY <1>1, InitIInv, PTL DEF Spec

\* Files, locks and processes keep their declared shape.
THEOREM TypeCorrect == Spec => []TypeOK
<1>1. IInv => TypeOK  BY DEF IInv
<1>. QED  BY <1>1, Invariance, PTL

\* No two processes ever have the same writer generation: both would hold the
\* writer lock.
THEOREM UniqueGenerations == Spec => []GenerationsUnique
<1>1. IInv => GenerationsUnique
  BY DEF IInv, LocksHeld, GenerationHeld, GenerationsUnique
<1>. QED  BY <1>1, Invariance, PTL

\* The starts of others never fence a serving process off.
THEOREM LiveOwnersStay == Spec => []NeverFencedOff
<1>1. IInv => NeverFencedOff
  BY DEF IInv, GenerationHeld, LeaseHeld, NeverFencedOff, VerifyCurrent
<1>. QED  BY <1>1, Invariance, PTL

\* No crash between two file writes leaves a data root that cannot be started.
THEOREM Restartable == Spec => []AlwaysRestartable
<1>1. IInv => AlwaysRestartable  BY DEF IInv, FilesAgree
<1>. QED  BY <1>1, Invariance, PTL

\* A store write never follows one of a later generation.
THEOREM OrderedWrites == Spec => WritesOrdered
<1>1. IInv /\ [Next]_vars => [stamp' >= stamp]_vars
  <2> SUFFICES ASSUME IInv, [Next]_vars PROVE stamp' >= stamp \/ UNCHANGED vars
    OBVIOUS
  <2>0. stamp \in Nat /\ genFile \in Nat  BY LeaseAssumption DEF IInv, TypeOK
  <2>1. ASSUME NEW p \in Procs, EndWrite(p) PROVE stamp' >= stamp
    BY <2>0, <2>1 DEF IInv, GenerationHeld, FilesAgree, EndWrite
  <2>2. ASSUME NEW p \in Procs, Acquire(p) PROVE stamp' = stamp
    BY <2>2 DEF Acquire, Start, ReclaimFailedStart, Begin, CheckPaths, OpenAnchor, LockAnchor,
       CheckLease, OpenStore, LockWriter, ReadGeneration, AdvanceGeneration,
       WriteOwner, WriteLease, files
  <2>3. ASSUME NEW p \in Procs, Serve(p), ~EndWrite(p) PROVE stamp' = stamp
    BY <2>3 DEF Serve, Renew, WriteRenewal, WriteRecord, Release, WriteRelease, DropGuard,
       BeginWrite, files
  <2>4. ASSUME NEW p \in Procs, Probe(p) \/ Ends(p) PROVE stamp' = stamp
    BY <2>4 DEF Probe, Ends, Close, files
  <2>5. SetClock => stamp' = stamp  BY DEF SetClock, files
  <2>. QED  BY <2>0, <2>1, <2>2, <2>3, <2>4, <2>5 DEF Next
<1>. QED  BY <1>1, Invariance, PTL DEF Spec, WritesOrdered

\* Only WriteLease and the renewal and release of the owner touch the record.
LEMMA LeaseFrame ==
  ASSUME [Next]_vars, lease' # lease
  PROVE  \E p \in Procs : WriteLease(p) \/ WriteRenewal(p) \/ WriteRelease(p)
<1>1. ASSUME NEW p \in Procs, Acquire(p), ~WriteLease(p) PROVE FALSE
  BY <1>1 DEF Acquire, Start, ReclaimFailedStart, Begin, CheckPaths, OpenAnchor, LockAnchor,
     CheckLease, OpenStore, LockWriter, ReadGeneration, AdvanceGeneration, WriteOwner, files
<1>2. ASSUME NEW p \in Procs, Serve(p), ~WriteRenewal(p), ~WriteRelease(p) PROVE FALSE
  BY <1>2 DEF Serve, Renew, Release, DropGuard, BeginWrite, EndWrite, files
<1>3. ASSUME NEW p \in Procs, Probe(p) \/ Ends(p) PROVE FALSE
  BY <1>3 DEF Probe, Ends, Close, files
<1>4. ~SetClock /\ ~UNCHANGED vars  BY DEF SetClock, files, vars
<1>. QED  BY <1>1, <1>2, <1>3, <1>4 DEF Next

\* The owner rewrites its own active record, later than before.
LEMMA OwnRecord ==
  ASSUME IInv, NEW p \in Procs, WriteRenewal(p) \/ WriteRelease(p)
  PROVE  /\ lease # None /\ lease.state = "active"
         /\ lease' # lease => lease'.gen = lease.gen /\ lease'.hb >= lease.hb
<1>1. /\ lease = mine[p] /\ mine[p] \in LeaseType /\ mine[p] # None
      /\ mine[p].state = "active" /\ at[p] \in 0..MaxTime
  BY DEF IInv, TypeOK, LeaseHeld, WriteRenewal, WriteRelease
<1>2. lease' # lease => lease' \in {Renewed(p), Released(p)}
  BY DEF WriteRenewal, WriteRelease, WriteRecord
<1>3. /\ Renewed(p).gen = mine[p].gen /\ Released(p).gen = mine[p].gen
      /\ Renewed(p).hb = Later(mine[p].hb, at[p])
      /\ Released(p).hb = Later(mine[p].hb, at[p])
  BY <1>1 DEF Renewed, Released, LeaseType
<1>4. Later(mine[p].hb, at[p]) >= mine[p].hb
  BY <1>1, LeaseAssumption DEF Later, LeaseType
<1>. QED  BY <1>1, <1>2, <1>3, <1>4

\* A successor writes the lease of a process that is gone, with a later
\* generation.
LEMMA Takeover ==
  ASSUME IInv, NEW p \in Procs, WriteLease(p), lease # None
  PROVE  /\ ~Alive(lease) /\ lease'.gen > lease.gen /\ lease'.proc = p /\ pc[p] = "lease"
         /\ lease.state = "released" \/ lease.exp <= at[p] \/ Identity(lease) = target[p]
<1>1. anchor = p /\ writer = p /\ gen[p] = genFile
  BY DEF IInv, LocksHeld, GenerationHeld, WriteLease
<1>2. seen[p] = lease.gen /\ gen[p] > lease.gen
  BY <1>1 DEF IInv, LeaseHeld, Judged, WriteLease
<1>3. lease.state = "released" \/ lease.exp <= at[p] \/ Identity(lease) = target[p]
  BY <1>1 DEF IInv, LeaseHeld, Judged, WriteLease
<1>4. lease.proc \in Procs /\ lease.gen \in 1..MaxGen
  BY DEF IInv, TypeOK, LeaseType
<1>5. ~Alive(lease)
  <2>1. SUFFICES ASSUME gen[lease.proc] = lease.gen PROVE FALSE
    BY DEF Alive
  <2>2. gen[lease.proc] # 0  BY <1>4, <2>1, LeaseAssumption
  <2>3. writer = lease.proc  BY <1>4, <2>2 DEF IInv, LocksHeld, GenerationHeld
  <2>. QED  BY <1>1, <1>2, <1>4, <2>1, <2>3, LeaseAssumption
<1>6. lease'.gen = gen[p] /\ lease'.proc = p  BY DEF WriteLease, ActiveLease
<1>. QED  BY <1>2, <1>3, <1>5, <1>6 DEF WriteLease

\* A lease changes hands only when its owner is gone and the rules allow it.
THEOREM JustTakeovers == Spec => TakeoverJustified
<1> DEFINE A == lease # None /\ lease'.gen # lease.gen =>
                  /\ ~Alive(lease)
                  /\ \E p \in Procs : pc[p] = "lease" /\ lease'.proc = p /\
                       \/ lease.state = "released"
                       \/ lease.exp <= at[p]
                       \/ Identity(lease) = target[p]
<1>1. IInv /\ [Next]_vars => A
  BY LeaseFrame, OwnRecord, Takeover
<1>. QED  BY <1>1, Invariance, PTL DEF Spec, TakeoverJustified

\* Heartbeats never go back and a released lease stays released.
THEOREM SteadyHeartbeats == Spec => HeartbeatNeverRewinds
<1> DEFINE A == lease # None /\ lease'.gen = lease.gen =>
                  /\ lease'.hb >= lease.hb
                  /\ lease.state = "released" => lease' = lease
<1>1. IInv /\ [Next]_vars => A
  <2> SUFFICES ASSUME IInv, [Next]_vars, lease # None, lease'.gen = lease.gen
               PROVE  lease'.hb >= lease.hb /\ (lease.state = "released" => lease' = lease)
    OBVIOUS
  <2>1. lease.hb \in Int /\ lease.gen \in Int  BY LeaseAssumption DEF IInv, TypeOK, LeaseType
  <2>2. CASE lease' = lease  BY <2>1, <2>2
  <2>3. CASE lease' # lease
    <3>1. PICK p \in Procs : WriteLease(p) \/ WriteRenewal(p) \/ WriteRelease(p)
      BY <2>3, LeaseFrame
    <3>2. ~WriteLease(p)  BY <2>1, Takeover
    <3>. QED  BY <2>3, <3>1, <3>2, OwnRecord
  <2>. QED  BY <2>2, <2>3
<1>. QED  BY <1>1, Invariance, PTL DEF Spec, HeartbeatNeverRewinds
=============================================================================
