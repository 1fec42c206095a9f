----------------------------- MODULE ServiceHost -----------------------------
(***************************************************************************)
(* The process side of a hosted service: the entrypoint's readiness and    *)
(* stop protocol (service_entry.rs), the bounded execution of a manager's  *)
(* command line tool (service_command.rs) and the identity of the argv it  *)
(* is installed with (service_manager.rs).                                 *)
(*                                                                         *)
(*  token    ServiceStopToken.requested                                    *)
(*  state    the shared atomic of ServiceEntryContext                      *)
(*  scm      what the manager was told last; final once it is "stopped"    *)
(*  ready    the handler thread's position in report_ready                 *)
(*  stop     the control handler's position                                *)
(*  dog      the state the watchdog sampled and has yet to report          *)
(*  failed   whose reports of the stop the manager did not take            *)
(*  stale    the watchdog's reports that undid RUNNING                     *)
(***************************************************************************)
EXTENDS Naturals, Sequences

VARIABLES token, state, scm, ready, stop, dog, failed, stale

vars == <<token, state, scm, ready, stop, dog, failed, stale>>

EntryStates == {"start_pending", "running", "stop_pending", "stopped"}

TypeOK ==
    /\ token \in BOOLEAN /\ state \in EntryStates /\ scm \in EntryStates
    /\ ready \in {"start", "unasked", "swapped", "checked", "told", "late", "ok", "err", "stopping", "ended"}
    /\ stop \in {"none", "token", "state", "done"} /\ dog \in EntryStates \cup {"none", "off"}
    /\ failed \subseteq {"reporter", "control", "main"} /\ stale \in Nat

Init ==
    /\ token = FALSE /\ state = "start_pending" /\ scm = "start_pending"
    /\ ready = "start" /\ stop = "none" /\ dog = "none" /\ failed = {} /\ stale = 0

Tell(s) == scm' = IF scm = "stopped" THEN scm ELSE s
\* SetServiceStatus may fail; the stop goes on without the report.
Report(s, who) == (Tell(s) /\ UNCHANGED failed) \/ (failed' = failed \cup {who} /\ UNCHANGED scm)
Swap(from, to) == state' = IF state = from THEN to ELSE state

-----------------------------------------------------------------------------
(* report_ready, called once by the daemon when it serves *)

\* A stop request that is already visible refuses readiness.
Ask ==
    /\ ready = "start" /\ ready' = IF token THEN "err" ELSE "unasked"
    /\ UNCHANGED <<token, state, scm, stop, dog, failed, stale>>

\* compare_exchange(START_PENDING, RUNNING).
Exchange ==
    /\ ready = "unasked" /\ Swap("start_pending", "running")
    /\ ready' = IF state = "start_pending" THEN "swapped" ELSE "err"
    /\ UNCHANGED <<token, scm, stop, dog, failed, stale>>

\* The reporter refuses if a stop arrived since.
ReporterCheck ==
    /\ ready = "swapped"
    /\ IF token \/ state # "running"
       THEN Swap("running", "start_pending") /\ ready' = "err"
       ELSE UNCHANGED state /\ ready' = "checked"
    /\ UNCHANGED <<token, scm, stop, dog, failed, stale>>

\* SetServiceStatus(RUNNING), which may fail.
TellRunning ==
    /\ ready = "checked"
    /\ \/ Tell("running") /\ ready' = "told" /\ UNCHANGED state
       \/ Swap("running", "start_pending") /\ ready' = "err" /\ UNCHANGED scm
    /\ UNCHANGED <<token, stop, dog, failed, stale>>

\* Fault: the reporter does not look again after RUNNING.
ReporterRecheckFault ==
    /\ ready = "told" /\ ready' = "late" /\ UNCHANGED <<token, state, scm, stop, dog, failed, stale>>

\* The second check: a stop that raced RUNNING takes it back.
ReporterRecheck ==
    /\ ready = "told"
    /\ IF token \/ state # "running"
       THEN state' = "stop_pending" /\ Report("stop_pending", "reporter") /\ ready' = "err"
       ELSE UNCHANGED <<state, scm, failed>> /\ ready' = "late"
    /\ UNCHANGED <<token, stop, dog, stale>>

\* report_ready's own last check.
LastCheck ==
    /\ ready = "late"
    /\ IF token THEN Swap("running", "stop_pending") /\ ready' = "err"
                ELSE UNCHANGED state /\ ready' = "ok"
    /\ UNCHANGED <<token, scm, stop, dog, failed, stale>>

\* The handler returns: at once after an error, otherwise when it polls the
\* token; mark_stopped, then the watchdog is joined and STOPPED is reported.
MarkStopped ==
    /\ ready = "err" \/ (ready = "ok" /\ token)
    /\ state' = "stopped" /\ ready' = "stopping" /\ UNCHANGED <<token, scm, stop, dog, failed, stale>>
TellStopped ==
    /\ ready = "stopping" /\ dog = "off" /\ Report("stopped", "main") /\ ready' = "ended"
    /\ UNCHANGED <<token, state, stop, dog, stale>>

-----------------------------------------------------------------------------
(* The manager's stop control (or the Unix signal, which only sets the token
   of its generation) and the watchdog that keeps pending states alive *)
RequestStop ==
    /\ stop \in {"none", "done"} /\ token' = TRUE /\ stop' = "token"
    /\ UNCHANGED <<state, scm, ready, dog, failed, stale>>
StoreStopPending ==
    /\ stop = "token" /\ state' = "stop_pending" /\ stop' = "state"
    /\ UNCHANGED <<token, scm, ready, dog, failed, stale>>
TellStopPending ==
    /\ stop = "state" /\ Report("stop_pending", "control") /\ stop' = "done"
    /\ UNCHANGED <<token, state, ready, dog, stale>>

WatchdogSample ==
    /\ dog = "none" /\ state \in {"start_pending", "stop_pending"} /\ ready # "stopping"
    /\ dog' = state /\ UNCHANGED <<token, state, scm, ready, stop, failed, stale>>
\* The sampled state is reported whatever happened since, and a failure ignored.
WatchdogTell ==
    /\ dog \in EntryStates /\ dog' = "none"
    /\ \/ Tell(dog) /\ stale' = IF scm = "running" /\ dog = "start_pending" THEN stale + 1 ELSE stale
       \/ UNCHANGED <<scm, stale>>
    /\ UNCHANGED <<token, state, ready, stop, failed>>
WatchdogJoin ==
    /\ ready = "stopping" /\ dog = "none" /\ dog' = "off"
    /\ UNCHANGED <<token, state, scm, ready, stop, failed, stale>>

HandlerSteps == Ask \/ Exchange \/ ReporterCheck \/ TellRunning \/ ReporterRecheck \/ LastCheck \/ MarkStopped \/ TellStopped
StopSteps    == RequestStop \/ StoreStopPending \/ TellStopPending
Watchdog     == WatchdogSample \/ WatchdogTell \/ WatchdogJoin

Next == HandlerSteps \/ StopSteps \/ Watchdog

Spec == Init /\ [][Next]_vars

\* Once the stop control has been handled and readiness is settled, the
\* entrypoint does not run, and the manager believes that it does only if a
\* report of the stop failed; when the entrypoint has ended the manager knows,
\* or STOPPED itself failed.
StopOutlivesReady ==
    /\ stop = "done" /\ ready \notin {"unasked", "swapped", "checked", "told", "late"} =>
         state # "running" /\ (scm = "running" => failed \cap {"reporter", "control"} # {})
    /\ ready = "ended" => scm = "stopped" \/ "main" \in failed

\* A service that is ready is known to run, up to one report: the watchdog may
\* have sampled START_PENDING before and report it after RUNNING, which nothing
\* then corrects, but that happens once.
ReadyIsKnown == stale <= 1 /\ (ready = "ok" /\ ~token => scm = "running" \/ stale = 1)

-----------------------------------------------------------------------------
(* ProcessServiceCommandExecutor::execute, from what its readers and its poll
   observe: the bytes each stream produced, and why the loop ended *)
Least(a, b) == IF a < b THEN a ELSE b

\* ServiceCommandLimits::new.
LimitsOk(limits) == limits.timeout > 0 /\ limits.output > 0

\* capture_stream: keep the first `limit` bytes, count all of them.
Capture(size, limit) == [kept |-> Least(size, limit), seen |-> size, truncated |-> size > limit]

\* The digest of what was kept; a stream is named by how much of it was kept.
DigestOf(stream) == stream.kept

\* execute: a truncated stream overrides how the child ended, and anything but
\* an exit marks both streams truncated.
Execution(ended, code, out, err, limit) ==
    LET o    == Capture(out, limit)
        e    == Capture(err, limit)
        over == o.truncated \/ e.truncated
        how  == IF over THEN "output_limit_exceeded" ELSE ended
        cut(s) == [kept |-> s.kept, seen |-> s.seen, truncated |-> s.truncated \/ how # "exited", digest |-> DigestOf(s)]
    IN [termination |-> how, code |-> IF over THEN "none" ELSE code, stdout |-> cut(o), stderr |-> cut(e)]

\* ServiceCommandExecution::success.
Success(x) == x.termination = "exited" /\ x.code = "0"

\* validate_stream_integrity and validate_integrity.
StreamIntact(s) ==
    /\ s.kept <= s.seen /\ (s.truncated \/ s.kept = s.seen)
    /\ s.digest = DigestOf(s)
Intact(x) ==
    /\ StreamIntact(x.stdout) /\ StreamIntact(x.stderr)
    /\ x.termination = "exited" => ~x.stdout.truncated /\ ~x.stderr.truncated
    /\ x.termination = "timed_out" => x.code = "none" /\ x.stdout.truncated /\ x.stderr.truncated
    /\ x.termination = "output_limit_exceeded" => x.code = "none" /\ (x.stdout.truncated \/ x.stderr.truncated)

\* ProcessTreeGuard::terminate, unix: what killpg, wait and the second probe say.
TerminateOk(kill, wait, probe) ==
    \/ kill \in {"ok", "ESRCH"} /\ wait = "ok"
    \/ kill = "EPERM" /\ wait = "ok" /\ probe = "ESRCH"

\* command_result_digest: termination, exit code and both streams in order.
ResultDigest(x) == <<x.termination, x.code, x.stdout, x.stderr>>

\* An executor exists for limits above zero; it reports only after the whole tree
\* of the command was ended, also when the command itself has exited.
Execute(i, tree) ==
    IF LimitsOk([timeout |-> i.timeout, output |-> i.limit]) /\ TerminateOk(tree.kill, tree.wait, tree.probe)
    THEN <<Execution(i.ended, IF i.ended = "exited" THEN i.code ELSE "none", i.out, i.err, i.limit)>>
    ELSE <<>>

\* What the executor reports is consistent evidence, a command that did not
\* exit by itself is never a success, and nothing was cut from a success.  No
\* report is made while the child is not reaped or somebody of its group may
\* live, and two reports of one digest are one outcome.
CommandEvidence(i, trees, others) ==
    \A t \in trees : Execute(i, t) # <<>> =>
        LET x == Execute(i, t)[1] IN
        /\ Intact(x)
        /\ Success(x) => i.ended = "exited" /\ i.code = "0" /\ x.stdout.kept = i.out /\ x.stderr.kept = i.err
        /\ t.wait = "ok" /\ (t.kill \in {"ok", "ESRCH"} \/ t.probe = "ESRCH")
        /\ \A o \in others : Execute(o, t) # <<>> /\ ResultDigest(Execute(o, t)[1]) = ResultDigest(x) =>
               Execute(o, t)[1] = x

-----------------------------------------------------------------------------
(* ServiceManagerEntryPoint: argv and its digest *)
Identity == <<"--service-identity">>
IsDaemonEntry(args) == Len(args) >= 2 /\ args[1] = <<"daemon">> /\ args[2] = <<"__service-entry">>
HasIdentity(args)   == Len(args) >= 4 /\ IsDaemonEntry(args) /\ args[Len(args) - 1] = Identity

\* compute_service_argv_digest over the arguments without the trailing identity.
\* An argument is the sequence of its one word, a digest is collision free.
DigestArgs(args) == <<"sha256", IF HasIdentity(args) THEN SubSeq(args, 1, Len(args) - 2) ELSE args>>

\* for_daemon: the base argv, then the identity of the base.
ForDaemon(base) == [args |-> base \o <<Identity, DigestArgs(base)>>, digest |-> DigestArgs(base)]

\* validate: the digest fits the argv, and a daemon entry has exactly one
\* trailing identity argument that names it.
EntryValid(p) ==
    /\ \A i \in 1..Len(p.args) : p.args[i] \notin {<<"">>, <<"nul">>}
    /\ p.digest = DigestArgs(p.args)
    /\ IsDaemonEntry(p.args) =>
         /\ {i \in 1..Len(p.args) : p.args[i] = Identity} = {Len(p.args) - 1} /\ Len(p.args) >= 4
         /\ p.args[Len(p.args)] = p.digest

\* The entry point built for a daemon is valid, and no longer is once any of its
\* arguments was changed or its identity was dropped.
EntryNamesItself(base) ==
    LET p == ForDaemon(base)
        n == Len(p.args) IN
    /\ EntryValid(p)
    /\ \A i \in 1..n : ~EntryValid([p EXCEPT !.args[i] = <<"changed">>])
    /\ ~EntryValid([p EXCEPT !.args = SubSeq(@, 1, n - 2)])
=============================================================================
