-------------------------- MODULE McpHttpLifecycle --------------------------
(***************************************************************************)
(* The supervisor-owned authority over MCP HTTP calls and their credential *)
(* leases (McpHttpLifecycleHandle of eva-adapter/src/supervisor.rs) and    *)
(* the call sequence that uses it (eva-adapter/src/transports/mcp.rs):     *)
(* begin_operation, open the credentials, register a session, call the     *)
(* tool, shut the session down, release the credentials.  Calls run in     *)
(* parallel with each other, with the release workers and with a drain.    *)
(*                                                                         *)
(* The state mutex is taken with try_lock by calls (busy is an error) and  *)
(* held across network I/O.  Release workers run vault callbacks outside   *)
(* it.  An owner id is the call it belongs to: a session's id and the      *)
(* detached id are never both in use for one call's credentials.           *)
(*                                                                         *)
(*  closed    admission_closed          ops    active permits (the gate)   *)
(*  lock      holder of the state mutex ("none", a call, "drain")          *)
(*  sess      registry sessions: call -> "active" | "cleanup_pending"      *)
(*  leases    credential_leases         tasks  credential_releases         *)
(*  held      credentials still owned by the calling stack frame           *)
(*  opened    credentials the vault has opened                             *)
(*  released  credentials whose vault release succeeded                    *)
(***************************************************************************)
EXTENDS Naturals, FiniteSets, Functions

CONSTANTS
    Calls,      \* concurrent invocations of the MCP HTTP transport
    MaxDrains,  \* bound on drain attempts
    MaxFails    \* bound on failing vault releases

VARIABLES closed, ops, lock, sess, leases, tasks, held, opened, released, pc, drain, drains, fails

vars == <<closed, ops, lock, sess, leases, tasks, held, opened, released, pc, drain, drains, fails>>

Steps == {"begin", "gate", "open", "build", "register", "call", "calling", "shutdown",
          "closing", "prepare", "launch", "wait", "exit", "done"}
TaskStates == {"pending", "running", "released", "failed"}
DrainSteps == {"idle", "wait_ops", "lock", "sessions", "launch", "complete", "residual", "ok", "error"}

TypeOK ==
    /\ closed \in BOOLEAN /\ ops \subseteq Calls
    /\ lock \in Calls \cup {"none", "drain"}
    /\ DOMAIN sess \subseteq Calls /\ Range(sess) \subseteq {"active", "cleanup_pending"}
    /\ leases \subseteq Calls
    /\ DOMAIN tasks \subseteq Calls /\ Range(tasks) \subseteq TaskStates
    /\ held \subseteq Calls /\ opened \subseteq Calls /\ released \subseteq opened
    /\ pc \in [Calls -> Steps]
    /\ drain.pc \in DrainSteps /\ drain.failed \in BOOLEAN /\ drain.late \in BOOLEAN
    /\ drains \in 0..MaxDrains /\ fails \in 0..MaxFails

NoDrain == [pc |-> "idle", failed |-> FALSE, late |-> FALSE]

Init ==
    /\ closed = FALSE /\ ops = {} /\ lock = "none"
    /\ sess = << >> /\ leases = {} /\ tasks = << >> /\ held = {} /\ opened = {} /\ released = {}
    /\ pc = [c \in Calls |-> "begin"]
    /\ drain = NoDrain /\ drains = 0 /\ fails = 0

Put(f, x, v) == [y \in DOMAIN f \cup {x} |-> IF y = x THEN v ELSE f[y]]
Forget(f, x) == Restrict(f, DOMAIN f \ {x})
Goto(c, step) == pc' = [pc EXCEPT ![c] = step]

\* begin_operation: admission is read before and again under the gate lock.
begin_operation(c) ==
    /\ pc[c] = "begin"
    /\ Goto(c, IF closed THEN "done" ELSE "gate")
    /\ UNCHANGED <<closed, ops, lock, sess, leases, tasks, held, opened, released, drain, drains, fails>>

EnterGate(c) ==
    /\ pc[c] = "gate"
    /\ IF closed THEN Goto(c, "done") /\ UNCHANGED ops
                 ELSE Goto(c, "open") /\ ops' = ops \cup {c}
    /\ UNCHANGED <<closed, lock, sess, leases, tasks, held, opened, released, drain, drains, fails>>

\* Opening the credential lease: it may fail with nothing to give back, or fail
\* keeping the owner of what was already opened, which is then released detached.
OpenCredentials(c) ==
    /\ pc[c] = "open"
    /\ \/ /\ Goto(c, "build") \/ Goto(c, "prepare")
          /\ held' = held \cup {c} /\ opened' = opened \cup {c}
       \/ Goto(c, "exit") /\ UNCHANGED <<held, opened>>
    /\ UNCHANGED <<closed, ops, lock, sess, leases, tasks, released, drain, drains, fails>>

\* call_http_with_lifecycle: headers, TLS material and the session object are
\* built before anything is registered; a failure releases the credentials.
BuildSession(c) ==
    /\ pc[c] = "build"
    /\ Goto(c, "register") \/ Goto(c, "prepare")
    /\ UNCHANGED <<closed, ops, lock, sess, leases, tasks, held, opened, released, drain, drains, fails>>

\* register_starting_session: a busy state lock releases the credentials; under
\* the lock the session is inserted and takes over the credentials.
register_starting_session(c) ==
    /\ pc[c] = "register"
    /\ IF lock # "none"
       THEN Goto(c, "prepare") /\ UNCHANGED <<sess, leases, held>>
       ELSE /\ sess' = Put(sess, c, "active")
            /\ leases' = leases \cup {c} /\ held' = held \ {c}
            /\ Goto(c, "call")
    /\ UNCHANGED <<closed, ops, lock, tasks, opened, released, drain, drains, fails>>

\* call_tool: the lock is held for the whole exchange.  A failed exchange fences
\* the session; the call always goes on to shutdown.
call_tool(c) ==
    /\ pc[c] = "call"
    /\ IF lock # "none" THEN Goto(c, "shutdown") /\ UNCHANGED lock
                        ELSE Goto(c, "calling") /\ lock' = c
    /\ UNCHANGED <<closed, ops, sess, leases, tasks, held, opened, released, drain, drains, fails>>

CallReturns(c) ==
    /\ pc[c] = "calling"
    /\ lock' = "none"
    /\ sess' = sess \/ sess' = [sess EXCEPT ![c] = "cleanup_pending"]
    /\ Goto(c, "shutdown")
    /\ UNCHANGED <<closed, ops, leases, tasks, held, opened, released, drain, drains, fails>>

\* shutdown_session: busy is an error and leaves session and lease to the drain;
\* under the lock the registry's shutdown may fail (fenced, kept) or remove the
\* session and turn its lease into a pending release.
shutdown_session(c) ==
    /\ pc[c] = "shutdown"
    /\ IF lock # "none" THEN Goto(c, "exit") /\ UNCHANGED lock
                        ELSE Goto(c, "closing") /\ lock' = c
    /\ UNCHANGED <<closed, ops, sess, leases, tasks, held, opened, released, drain, drains, fails>>

ShutdownReturns(c) ==
    /\ pc[c] = "closing"
    /\ lock' = "none"
    /\ \/ /\ sess' = [sess EXCEPT ![c] = "cleanup_pending"]
          /\ Goto(c, "exit")
          /\ UNCHANGED <<leases, tasks>>
       \/ /\ sess' = Forget(sess, c)
          /\ leases' = leases \ {c} /\ tasks' = Put(tasks, c, "pending")
          /\ Goto(c, "launch")
    /\ UNCHANGED <<closed, ops, held, opened, released, drain, drains, fails>>

\* release_detached_credentials: waits for the lock and registers the release.
release_detached_credentials(c) ==
    /\ pc[c] = "prepare" /\ lock = "none"
    /\ held' = held \ {c} /\ tasks' = Put(tasks, c, "pending")
    /\ Goto(c, "launch")
    /\ UNCHANGED <<closed, ops, lock, sess, leases, opened, released, drain, drains, fails>>

\* launch_credential_release: a worker that cannot be spawned leaves the task
\* pending for a later drain.
launch_credential_release(c) ==
    /\ pc[c] = "launch"
    /\ \/ Goto(c, "wait") /\ tasks' = [tasks EXCEPT ![c] = "running"]
       \/ Goto(c, "exit") /\ UNCHANGED tasks
    /\ UNCHANGED <<closed, ops, lock, sess, leases, held, opened, released, drain, drains, fails>>

\* The release worker: the vault callback succeeds, or fails or panics.  A worker
\* launched by a drain whose deadline has passed does not call the vault at all.
ReleaseWorker(c) ==
    /\ c \in DOMAIN tasks /\ tasks[c] = "running"
    /\ \/ /\ tasks' = [tasks EXCEPT ![c] = "released"]
          /\ released' = released \cup {c}
          /\ UNCHANGED fails
       \/ /\ fails < MaxFails /\ fails' = fails + 1
          /\ tasks' = [tasks EXCEPT ![c] = "failed"]
          /\ UNCHANGED released
    /\ UNCHANGED <<closed, ops, lock, sess, leases, held, opened, pc, drain, drains>>

\* Fault: a release that failed is forgotten like one that succeeded.
CompleteFault(c) == tasks' = Forget(tasks, c) /\ UNCHANGED leases

\* complete_credential_release: joins the worker and forgets the task; a failed
\* release puts the lease back so that a drain can try again.
Complete(c) ==
    /\ tasks' = Forget(tasks, c)
    /\ leases' = IF tasks[c] = "failed" THEN leases \cup {c} ELSE leases

complete_credential_release(c) ==
    /\ pc[c] = "wait"
    /\ IF c \notin DOMAIN tasks THEN UNCHANGED <<tasks, leases>>     \* a drain completed it
       ELSE lock = "none" /\ tasks[c] \in {"released", "failed"} /\ Complete(c)
    /\ Goto(c, "exit")
    /\ UNCHANGED <<closed, ops, lock, sess, held, opened, released, drain, drains, fails>>

DropPermit(c) ==
    /\ pc[c] = "exit"
    /\ ops' = ops \ {c} /\ Goto(c, "done")
    /\ UNCHANGED <<closed, lock, sess, leases, tasks, held, opened, released, drain, drains, fails>>

CallSteps(c) ==
    \/ begin_operation(c) \/ EnterGate(c) \/ BuildSession(c)
    \/ register_starting_session(c) \/ call_tool(c) \/ CallReturns(c)
    \/ shutdown_session(c) \/ ShutdownReturns(c) \/ release_detached_credentials(c)
    \/ launch_credential_release(c) \/ complete_credential_release(c) \/ DropPermit(c)

DrainGoto(step)   == drain' = [drain EXCEPT !.pc = step]
DrainFails(step)  == drain' = [drain EXCEPT !.pc = step, !.failed = TRUE]

\* drain_all_until under the drain lock: close admission, then wait for permits.
StartDrain ==
    /\ drain.pc \in {"idle", "ok", "error"} /\ drains < MaxDrains
    /\ drains' = drains + 1
    /\ closed' = TRUE
    /\ drain' = [NoDrain EXCEPT !.pc = "wait_ops"]
    /\ UNCHANGED <<ops, lock, sess, leases, tasks, held, opened, released, pc, fails>>

close_operation_admission_and_wait_until ==
    /\ drain.pc = "wait_ops"
    /\ \/ drain.late /\ DrainFails("error")
       \/ ~drain.late /\ ops = {} /\ DrainGoto("lock")
    /\ UNCHANGED <<closed, ops, lock, sess, leases, tasks, held, opened, released, pc, drains, fails>>

lock_until ==
    /\ drain.pc = "lock"
    /\ \/ drain.late /\ DrainFails("error") /\ UNCHANGED lock
       \/ ~drain.late /\ lock = "none" /\ lock' = "drain" /\ DrainGoto("sessions")
    /\ UNCHANGED <<closed, ops, sess, leases, tasks, held, opened, released, pc, drains, fails>>

\* The registry drain removes the sessions it could end and keeps the rest fenced;
\* leases whose session has gone become pending releases.
DrainSessions ==
    /\ drain.pc = "sessions"
    /\ \E gone \in SUBSET DOMAIN sess :
          /\ sess' = [c \in DOMAIN sess \ gone |-> "cleanup_pending"]
          /\ LET orphan == leases \ DOMAIN sess'
             IN  /\ leases' = leases \ orphan
                 /\ tasks' = [c \in DOMAIN tasks \cup orphan |->
                                 IF c \in orphan THEN "pending" ELSE tasks[c]]
          /\ drain' = [drain EXCEPT !.pc = "launch", !.failed = @ \/ DOMAIN sess # gone]
    /\ lock' = "none"
    /\ UNCHANGED <<closed, ops, held, opened, released, pc, drains, fails>>

DrainLaunch ==
    /\ drain.pc = "launch"
    /\ \/ \E c \in DOMAIN tasks :
             /\ tasks[c] = "pending" /\ ~drain.late
             /\ tasks' = [tasks EXCEPT ![c] = "running"]
             /\ UNCHANGED drain
       \/ /\ \A c \in DOMAIN tasks : tasks[c] # "pending"
          /\ DrainGoto("complete") /\ UNCHANGED tasks
       \/ /\ \E c \in DOMAIN tasks : tasks[c] = "pending"       \* deadline, or no worker
          /\ DrainFails("complete") /\ UNCHANGED tasks
    /\ UNCHANGED <<closed, ops, lock, sess, leases, held, opened, released, pc, drains, fails>>

DrainComplete ==
    /\ drain.pc = "complete"
    /\ \/ drain.late /\ DrainFails("residual") /\ UNCHANGED <<tasks, leases>>
       \/ /\ ~drain.late /\ lock = "none"
          /\ \E c \in DOMAIN tasks :
                /\ tasks[c] \in {"released", "failed"} /\ Complete(c)
                /\ drain' = [drain EXCEPT !.failed = @ \/ tasks[c] = "failed"]
       \/ /\ \A c \in DOMAIN tasks : tasks[c] = "pending"
          /\ DrainGoto("residual") /\ UNCHANGED <<tasks, leases>>
    /\ UNCHANGED <<closed, ops, lock, sess, held, opened, released, pc, drains, fails>>

\* lifecycle_residual_until: success needs no permit, no lease and no release left.
DrainResidual ==
    /\ drain.pc = "residual"
    /\ LET clean == ops = {} /\ leases = {} /\ tasks = << >>
       IN  drain' = [drain EXCEPT !.pc = IF clean /\ ~drain.failed /\ ~drain.late
                                         THEN "ok" ELSE "error"]
    /\ UNCHANGED <<closed, ops, lock, sess, leases, tasks, held, opened, released, pc, drains, fails>>

Deadline ==
    /\ drain.pc \notin {"idle", "ok", "error"} /\ ~drain.late
    /\ drain' = [drain EXCEPT !.late = TRUE]
    /\ UNCHANGED <<closed, ops, lock, sess, leases, tasks, held, opened, released, pc, drains, fails>>

Drain ==
    \/ close_operation_admission_and_wait_until \/ lock_until \/ DrainSessions
    \/ DrainLaunch \/ DrainComplete \/ DrainResidual

Next ==
    \/ \E c \in Calls : CallSteps(c) \/ OpenCredentials(c) \/ ReleaseWorker(c)
    \/ StartDrain \/ Drain \/ Deadline

\* The vault has the call: its open or its release has not returned.  Neither has
\* a time limit, so nothing says that they do.
InVault(c) ==
    \/ pc[c] = "open"
    \/ pc[c] = "wait" /\ c \in DOMAIN tasks /\ tasks[c] = "running"

Spec == Init /\ [][Next]_vars

\* Who can still release a call's credentials: its stack frame, a lease or a
\* release task.
Owners(c) == {o \in {"frame", "lease", "task"} :
                 \/ o = "frame" /\ c \in held
                 \/ o = "lease" /\ c \in leases
                 \/ o = "task" /\ c \in DOMAIN tasks}

\* Credentials never drop out of the lifecycle: from the moment the vault opened
\* them until their release succeeded they have exactly one owner, whatever
\* failed to launch, was put back or was completed by a drain; a finished call
\* has none in its stack frame, and a session has its lease.
CredentialHasOneOwner ==
    \A c \in Calls :
        /\ c \in opened \ released => Cardinality(Owners(c)) = 1
        /\ c \notin opened => Owners(c) = {}
        /\ c \in released => Owners(c) \subseteq {"task"}
        /\ pc[c] = "done" => c \notin held
        /\ c \in DOMAIN sess => c \in leases

\* A drain that reports success leaves nothing: no permit, session, lease or
\* running release, and no call gets in behind it.
DrainLeavesNothing ==
    drain.pc = "ok" => /\ closed /\ ops = {} /\ sess = << >> /\ leases = {}
                       /\ tasks = << >> /\ held = {}

=============================================================================
