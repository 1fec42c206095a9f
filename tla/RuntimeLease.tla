----------------------------- MODULE RuntimeLease -----------------------------
(***************************************************************************)
(* eva-storage/src/durable_backend.rs: how processes come to own a data    *)
(* root.  A starting daemon locks the fixed anchor, judges the lease       *)
(* record, locks the writer file, advances the generation and writes the   *)
(* owner and the lease record, each with an atomic write of its own.  It   *)
(* renews the lease while it serves and releases it when it stops.  Every  *)
(* store write first verifies generation and owner record.                 *)
(*                                                                         *)
(* A process is slow, fails or dies at any step; the operating system then *)
(* frees its locks and the files stay as they are.  The wall clock may be  *)
(* set back.  Process start tokens are drawn once per acquisition, so the  *)
(* process and its generation identify a lease.                            *)
(***************************************************************************)
EXTENDS Integers

CONSTANTS
  Procs,      \* processes that use the data root
  None,       \* no record, no lock holder
  Ttl,        \* time to live of a lease
  MaxTime,    \* bound on the clock
  MaxGen      \* bound on writer generations

ASSUME LeaseAssumption ==
  /\ None \notin Procs /\ Ttl \in Nat \ {0} /\ MaxTime \in Nat /\ MaxGen \in Nat
  /\ None \notin [proc : Procs, gen : Int]
  /\ None \notin [proc : Procs, gen : Int, state : {"active", "released"}, hb : Int, exp : Int]

VARIABLES
  anchorFile, \* the anchor file exists
  genFile,    \* generation file, 0 when missing
  owner,      \* owner record: [proc, gen]
  lease,      \* lease record: [proc, gen, state, hb, exp]
  anchor,     \* process that holds the OS lock on the anchor
  writer,     \* process that holds the OS lock on the writer file
  stamp,      \* generation of the last store write
  now,        \* wall clock
  pc,         \* where each process stands
  at,         \* the clock it read for the call it is in
  missing,    \* it found no anchor, or it created the anchor
  target,     \* failed start it reclaims: [proc, gen], or None
  seen,       \* generation of the lease record it judged
  gen,        \* its writer generation, 0 without one
  mine,       \* DurableRuntimeLeaseGuard.record
  writing     \* a thread of it is between verification and store write

files == <<anchorFile, genFile, owner, lease, stamp>>
locks == <<anchor, writer>>
local == <<at, missing, target, seen, gen, mine, writing>>
vars  == <<files, locks, now, pc, local>>

Identity(r) == [proc |-> r.proc, gen |-> r.gen]

Init ==
  /\ anchorFile = FALSE /\ genFile = 0 /\ owner = None /\ lease = None /\ stamp = 0
  /\ anchor = None /\ writer = None /\ now = 0
  /\ pc = [p \in Procs |-> "off"]
  /\ at = [p \in Procs |-> 0] /\ missing = [p \in Procs |-> FALSE]
  /\ target = [p \in Procs |-> None] /\ seen = [p \in Procs |-> 0]
  /\ gen = [p \in Procs |-> 0] /\ mine = [p \in Procs |-> None]
  /\ writing = [p \in Procs |-> FALSE]

GoTo(p, where) == pc' = [pc EXCEPT ![p] = where]

\* The process ends or gives the attempt up: its handles are closed, which
\* frees its locks, and what it knew is gone.
Close(p) ==
  /\ GoTo(p, "off")
  /\ anchor' = IF anchor = p THEN None ELSE anchor
  /\ writer' = IF writer = p THEN None ELSE writer
  /\ at' = [at EXCEPT ![p] = 0] /\ missing' = [missing EXCEPT ![p] = FALSE]
  /\ target' = [target EXCEPT ![p] = None] /\ seen' = [seen EXCEPT ![p] = 0]
  /\ gen' = [gen EXCEPT ![p] = 0] /\ mine' = [mine EXCEPT ![p] = None]
  /\ writing' = [writing EXCEPT ![p] = FALSE]
  /\ UNCHANGED <<files, now>>

\* A refusal, an I/O error, a crash or the end of the process.  An I/O error of
\* an acquisition leaves the file old or new: the step before it, or it.
Ends(p) == pc[p] # "off" /\ Close(p)

-----------------------------------------------------------------------------
(* acquire_inner.                                                          *)

\* The clock is read before the call.  The launcher of a failed start probes
\* the anchor and reclaims the child's active lease by its exact identity.
Begin(p, id) ==
  /\ pc[p] = "off" /\ GoTo(p, "exists")
  /\ at' = [at EXCEPT ![p] = now]
  /\ missing' = [missing EXCEPT ![p] = ~anchorFile]
  /\ target' = [target EXCEPT ![p] = id]
  /\ UNCHANGED <<files, locks, now, seen, gen, mine, writing>>

Start(p) == Begin(p, None)

ReclaimFailedStart(p) ==
  /\ anchorFile /\ anchor = None /\ lease # None /\ lease.state = "active"
  /\ Begin(p, Identity(lease))

CheckPaths(p) ==
  /\ pc[p] = "exists" /\ ~(missing[p] /\ (lease # None \/ target[p] # None))
  /\ GoTo(p, "open") /\ UNCHANGED <<files, locks, now, local>>

\* open, or publish_runtime_lease_anchor, whose hard link creates the file or
\* finds it.
OpenAnchor(p) ==
  /\ pc[p] = "open" /\ GoTo(p, "lock")
  /\ anchorFile' = TRUE /\ missing' = [missing EXCEPT ![p] = ~anchorFile]
  /\ UNCHANGED <<genFile, owner, lease, stamp, locks, now>>
  /\ UNCHANGED <<at, target, seen, gen, mine, writing>>

\* While another process has the anchor this one polls until the settle timeout
\* and then gives up, or gives up at once when the record says active.
LockAnchor(p) ==
  /\ pc[p] = "lock" /\ anchor = None /\ GoTo(p, "check") /\ anchor' = p
  /\ UNCHANGED <<files, writer, now, local>>

\* Fault: the record's expiry is not looked at.
LeaseAdmitsFault(p) ==
  IF target[p] # None
  THEN lease # None /\ lease.state = "active" /\ Identity(lease) = target[p]
  ELSE TRUE

LeaseAdmits(p) ==
  IF target[p] # None
  THEN lease # None /\ lease.state = "active" /\ Identity(lease) = target[p]
  ELSE lease # None /\ lease.state = "active" => lease.exp <= at[p]

CheckLease(p) ==
  /\ pc[p] = "check"
  /\ ~(missing[p] /\ (target[p] # None \/ lease # None))
  /\ LeaseAdmits(p)
  /\ lease # None => lease.gen <= genFile
  /\ seen' = [seen EXCEPT ![p] = IF lease = None THEN 0 ELSE lease.gen]
  /\ missing' = [missing EXCEPT ![p] = FALSE] /\ GoTo(p, "writer")
  /\ UNCHANGED <<files, locks, now, at, target, gen, mine, writing>>

-----------------------------------------------------------------------------
(* DurableWriterGuard::acquire; stores opened without a daemon enter here. *)

OpenStore(p) ==
  /\ pc[p] = "off" /\ GoTo(p, "writer") /\ UNCHANGED <<files, locks, now, local>>

\* Fault: the writer file's lock is not exclusive.
LockWriterFault(p) ==
  /\ pc[p] = "writer" /\ GoTo(p, "generation") /\ writer' = p
  /\ UNCHANGED <<files, anchor, now, local>>

LockWriter(p) ==
  /\ pc[p] = "writer" /\ writer = None /\ GoTo(p, "generation") /\ writer' = p
  /\ UNCHANGED <<files, anchor, now, local>>

\* The generation is refused when the file went missing after an owner existed.
ReadGeneration(p) ==
  /\ pc[p] = "generation" /\ ~(genFile = 0 /\ owner # None) /\ genFile < MaxGen
  /\ gen' = [gen EXCEPT ![p] = genFile + 1] /\ GoTo(p, "advance")
  /\ UNCHANGED <<files, locks, now, at, missing, target, seen, mine, writing>>

\* Fault: the owner record is written before the generation file.
AdvanceGenerationFault(p) ==
  /\ pc[p] = "advance" /\ owner' = [proc |-> p, gen |-> gen[p]] /\ GoTo(p, "owner")
  /\ UNCHANGED <<anchorFile, genFile, lease, stamp, locks, now, local>>

AdvanceGeneration(p) ==
  /\ pc[p] = "advance" /\ genFile' = gen[p] /\ GoTo(p, "owner")
  /\ UNCHANGED <<anchorFile, owner, lease, stamp, locks, now, local>>

WriteOwner(p) ==
  /\ pc[p] = "owner" /\ owner' = [proc |-> p, gen |-> gen[p]]
  /\ GoTo(p, IF anchor = p THEN "lease" ELSE "linger")
  /\ UNCHANGED <<anchorFile, genFile, lease, stamp, locks, now, local>>

ActiveLease(p, time) ==
  [proc |-> p, gen |-> gen[p], state |-> "active", hb |-> time, exp |-> time + Ttl]

\* The call returns the guard; its arguments and locals are gone.
WriteLease(p) ==
  /\ pc[p] = "lease" /\ gen[p] > seen[p]
  /\ lease' = ActiveLease(p, at[p])
  /\ mine' = [mine EXCEPT ![p] = ActiveLease(p, at[p])] /\ GoTo(p, "held")
  /\ at' = [at EXCEPT ![p] = 0] /\ target' = [target EXCEPT ![p] = None]
  /\ seen' = [seen EXCEPT ![p] = 0]
  /\ UNCHANGED <<anchorFile, genFile, owner, stamp, locks, now, missing, gen, writing>>

-----------------------------------------------------------------------------
(* A serving process.                                                      *)

VerifyCurrent(p) == genFile = gen[p] /\ owner = [proc |-> p, gen |-> gen[p]]
VerifyCurrentRecord(p) == VerifyCurrent(p) /\ lease = mine[p]

\* renew_at; when it fails, or is refused, the control loop ends and the daemon
\* stops.
Renew(p) ==
  /\ pc[p] = "held"
  /\ GoTo(p, IF VerifyCurrentRecord(p) THEN "renewing" ELSE "stopping")
  /\ at' = [at EXCEPT ![p] = now]
  /\ UNCHANGED <<files, locks, now, missing, target, seen, gen, mine, writing>>

Later(a, b) == IF a >= b THEN a ELSE b

Renewed(p) ==
  [mine[p] EXCEPT !.hb = Later(@, at[p]), !.exp = Later(mine[p].hb, at[p]) + Ttl]

Released(p) ==
  [mine[p] EXCEPT !.state = "released", !.hb = Later(@, at[p]),
                  !.exp = Later(mine[p].hb, at[p])]

\* An atomic write of the record r that succeeds, or that fails before or after
\* its rename and leaves the guard with the old copy.
WriteRecord(p, r, next) ==
  /\ \/ lease' = r /\ mine' = [mine EXCEPT ![p] = r] /\ GoTo(p, next)
     \/ lease' \in {lease, r} /\ UNCHANGED mine /\ GoTo(p, "stopping")
  /\ at' = [at EXCEPT ![p] = 0]
  /\ UNCHANGED <<anchorFile, genFile, owner, stamp, locks, now>>
  /\ UNCHANGED <<missing, target, seen, gen, writing>>

WriteRenewal(p) == pc[p] = "renewing" /\ WriteRecord(p, Renewed(p), "held")

\* release_at, called on the way out and once more when the guard is dropped.
Release(p) ==
  /\ pc[p] \in {"held", "stopping"}
  /\ GoTo(p, IF VerifyCurrentRecord(p) THEN "releasing" ELSE "stopping")
  /\ at' = [at EXCEPT ![p] = now]
  /\ UNCHANGED <<files, locks, now, missing, target, seen, gen, mine, writing>>

WriteRelease(p) == pc[p] = "releasing" /\ WriteRecord(p, Released(p), "released")

\* Fault: the writer file's lock goes with the guard, not with its last clone.
DropGuardFault(p) ==
  /\ pc[p] \in {"stopping", "released"} /\ anchor' = None /\ writer' = None
  /\ GoTo(p, "linger")
  /\ UNCHANGED <<files, now, local>>

\* The guard is dropped, its last release done, refused or failed before the
\* rename; clones of its writer live on in other threads.
DropGuard(p) ==
  /\ pc[p] \in {"stopping", "released"} /\ anchor' = None /\ GoTo(p, "linger")
  /\ UNCHANGED <<files, writer, now, local>>

Serving == {"held", "renewing", "stopping", "releasing", "released", "linger"}

\* with_write_lock: verification and the store's own write.
BeginWrite(p) ==
  /\ pc[p] \in Serving /\ ~writing[p] /\ VerifyCurrent(p)
  /\ writing' = [writing EXCEPT ![p] = TRUE]
  /\ UNCHANGED <<files, locks, now, pc, at, missing, target, seen, gen, mine>>

EndWrite(p) ==
  /\ writing[p] /\ stamp' = gen[p] /\ writing' = [writing EXCEPT ![p] = FALSE]
  /\ UNCHANGED <<anchorFile, genFile, owner, lease, locks, now, pc>>
  /\ UNCHANGED <<at, missing, target, seen, gen, mine>>

\* probe_runtime_lease holds the anchor's lock for as long as its handle is open.
Probe(p) ==
  /\ pc[p] = "off" /\ anchorFile /\ anchor = None
  /\ anchor' = p /\ GoTo(p, "probing")
  /\ UNCHANGED <<files, writer, now, local>>

\* The wall clock moves on or is set.
SetClock ==
  /\ now' \in 0..MaxTime /\ now' # now
  /\ UNCHANGED <<files, locks, pc, local>>

-----------------------------------------------------------------------------
Acquire(p) ==
  \/ Start(p)
  \/ ReclaimFailedStart(p)
  \/ CheckPaths(p)
  \/ OpenAnchor(p)
  \/ LockAnchor(p)
  \/ CheckLease(p)
  \/ OpenStore(p)
  \/ LockWriter(p)
  \/ ReadGeneration(p)
  \/ AdvanceGeneration(p)
  \/ WriteOwner(p)
  \/ WriteLease(p)

Serve(p) ==
  \/ Renew(p)
  \/ WriteRenewal(p)
  \/ Release(p)
  \/ WriteRelease(p)
  \/ DropGuard(p)
  \/ BeginWrite(p)
  \/ EndWrite(p)

Next ==
  \/ \E p \in Procs : Acquire(p) \/ Serve(p) \/ Probe(p) \/ Ends(p)
  \/ SetClock

Spec == Init /\ [][Next]_vars

-----------------------------------------------------------------------------
(* Properties.                                                             *)

OwnerType == [proc : Procs, gen : 1..MaxGen]
LeaseType == [proc : Procs, gen : 1..MaxGen, state : {"active", "released"},
              hb : 0..MaxTime, exp : 0..MaxTime + Ttl]
PcType == {"off", "exists", "open", "lock", "check", "writer", "generation", "advance",
           "owner", "lease", "probing"} \cup Serving

\* The shape of the files, the locks and the processes.
TypeOK ==
  /\ anchorFile \in BOOLEAN /\ genFile \in 0..MaxGen /\ stamp \in 0..MaxGen
  /\ owner \in OwnerType \cup {None} /\ lease \in LeaseType \cup {None}
  /\ anchor \in Procs \cup {None} /\ writer \in Procs \cup {None} /\ now \in 0..MaxTime
  /\ pc \in [Procs -> PcType] /\ at \in [Procs -> 0..MaxTime]
  /\ missing \in [Procs -> BOOLEAN] /\ target \in [Procs -> OwnerType \cup {None}]
  /\ seen \in [Procs -> 0..MaxGen] /\ gen \in [Procs -> 0..MaxGen]
  /\ mine \in [Procs -> LeaseType \cup {None}] /\ writing \in [Procs -> BOOLEAN]

\* However many processes start, stall and fail, no two have the same writer
\* generation.
GenerationsUnique ==
  \A p, q \in Procs : gen[p] # 0 /\ gen[p] = gen[q] => p = q

\* A process that serves is never fenced off by the attempts of others: the
\* generation file and the owner record stay its own, and the lease record too
\* until one of its own writes of it fails.
NeverFencedOff ==
  \A p \in Procs :
    /\ pc[p] \in Serving => VerifyCurrent(p)
    /\ pc[p] \in {"held", "renewing", "releasing"} => lease = mine[p]

\* Whatever step of an acquisition was the last one of a process, the files
\* never get into a state in which every later start is refused: a lease record
\* without its anchor, ahead of the generation file, or an owner record without
\* a generation.
AlwaysRestartable ==
  /\ lease # None => anchorFile /\ lease.gen <= genFile
  /\ owner # None => genFile > 0

\* Store writes reach the files in the order of their generations: once a
\* successor has written, no predecessor does.
WritesOrdered == [][stamp' >= stamp]_vars

Alive(r) == gen[r.proc] = r.gen

\* A lease is replaced by another process's only when its owner is gone, and it
\* was released, was expired for the clock the successor read, or is the exact
\* failed start the successor reclaims.
TakeoverJustified ==
  [][lease # None /\ lease'.gen # lease.gen =>
       /\ ~Alive(lease)
       /\ \E p \in Procs : pc[p] = "lease" /\ lease'.proc = p /\
            \/ lease.state = "released"
            \/ lease.exp <= at[p]
            \/ Identity(lease) = target[p]]_vars

\* A released lease is not revived, and a heartbeat does not go back although
\* the clock may.
HeartbeatNeverRewinds ==
  [][lease # None /\ lease'.gen = lease.gen =>
       /\ lease'.hb >= lease.hb
       /\ lease.state = "released" => lease' = lease]_vars

\* The processes are interchangeable: any two may change places.
Symmetry ==
  {[c \in Procs |-> CASE c = a -> b [] c = b -> a [] OTHER -> c] : a, b \in Procs}
=============================================================================
