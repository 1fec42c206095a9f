--------------------------- MODULE ServiceManagers ---------------------------
(***************************************************************************)
(* The service-manager adapters of eva-lifecycle (systemd.rs, launchd.rs,  *)
(* windows_service.rs and the fake of service_manager.rs).  An operation   *)
(* is a program of checks, queries and commands of the host's manager; the *)
(* adapters differ in their programs, the instructions are shared.  A      *)
(* command may fail, with or without having had its effect (a timeout),    *)
(* the service may change state by itself between two instructions, and    *)
(* the eva process may die between any two.                                *)
(*                                                                         *)
(*  kind    which adapter runs                                             *)
(*  file    the definition: unit file, plist or the manager's own entry;   *)
(*          "ours" is byte for byte what the definition asks for           *)
(*  tomb    an uninstalled file waiting for deletion                       *)
(*  load    the manager knows the service                                  *)
(*  active  what the service does; "moving" is a transitional state        *)
(*  mode    start on boot enabled or not, or masked                        *)
(*  op      the running operation                                          *)
(***************************************************************************)
EXTENDS Naturals, Sequences

CONSTANTS StartOnBoot,  \* the definition's start_on_boot
          MaxOps        \* bound on operations

VARIABLES kind, file, tomb, load, active, mode, op, last, ops

vars == <<kind, file, tomb, load, active, mode, op, last, ops>>

Kinds    == {"systemd", "launchd", "windows", "fake"}
OpNames  == {"install", "uninstall", "start", "stop", "restart", "status"}
Observed == {"none", "stopped", "running", "moving"}
Idle     == [name |-> "idle", at |-> 1, seen |-> "none", prev |-> "none", pub |-> FALSE, had |-> "none"]
NoReport == [op |-> "none", result |-> "none", state |-> "none", had |-> "none"]

TypeOK ==
    /\ kind \in Kinds /\ file \in {"none", "ours", "other"} /\ tomb \in BOOLEAN
    /\ load \in BOOLEAN /\ active \in Observed \ {"none"}
    /\ mode \in {"on", "off", "masked"} /\ ops \in 0..MaxOps
    /\ op.name \in OpNames \cup {"idle", "cleanup", "restore"}
    /\ last.result \in {"none", "ok", "err", "undone", "late"}

Init ==
    /\ kind \in Kinds /\ tomb = FALSE
    /\ mode \in {"on", "off"} \cup (IF kind = "systemd" THEN {"masked"} ELSE {})
    /\ \/ file = "none" /\ load = FALSE /\ active = "stopped"
       \/ file = "none" /\ load = TRUE /\ active = "running" /\ kind \in {"systemd", "launchd"}
       \/ file = "other" /\ load = TRUE /\ active \in {"stopped", "running"} /\ kind # "fake"
       \/ file = "ours" /\ load = TRUE /\ active \in {"stopped", "running"}
    /\ op = Idle /\ last = NoReport /\ ops = 0

\* query_observed_state, query_snapshot.
Now     == IF load THEN active ELSE "none"
Desired == IF StartOnBoot THEN "on" ELSE "off"

-----------------------------------------------------------------------------
(* Programs.  An instruction is skipped unless the last observed state, the
   state observed before the operation and "the file was published by this
   operation" are in its sets. *)
Ins(do)           == [do |-> do, seen |-> Observed, prev |-> Observed, pub |-> BOOLEAN]
When(seen, do)    == [Ins(do) EXCEPT !.seen = seen]
Was(prev, seen, do) == [Ins(do) EXCEPT !.prev = prev, !.seen = seen]
IfPub(b, do)      == [Ins(do) EXCEPT !.pub = {b}]

SystemdInstall   == <<Ins("unclaimed"), Ins("publish"), IfPub(TRUE, "reload"), Ins("loaded"),
                      Ins("set_mode"), Ins("check_mode"), Ins("stable"), Ins("present")>>
SystemdUninstall == <<Ins("owned"), Ins("query"), Ins("gone"), Ins("loaded"), Ins("stable"),
                      When({"running"}, "stop"), When({"running"}, "await_stopped"),
                      Ins("unmasked"), Ins("disable"), Ins("bury"), Ins("reload"), Ins("verify_none"), Ins("erase")>>
SystemdStart     == <<Ins("managed"), Ins("stable"), Ins("present"), When({"stopped"}, "start"), When({"stopped"}, "await_running")>>
SystemdStop      == <<Ins("owned"), Ins("gone"), Ins("stable"), When({"running"}, "stop"), When({"running"}, "await_stopped")>>
SystemdRestart   == <<Ins("managed"), Ins("stable"), Ins("present"), Ins("restart"), Ins("await_running")>>
SystemdStatus    == <<Ins("owned"), Ins("query"), Ins("gone"), Ins("loaded"), Ins("unmasked"), Ins("settled")>>

LaunchdInstall   == <<Ins("unclaimed"), Ins("publish"), IfPub(FALSE, "query"), When({"none"}, "bootstrap"),
                      Ins("stable"), Ins("present")>>
                    \o IF StartOnBoot THEN <<When({"stopped"}, "start"), When({"stopped"}, "await_running")>> ELSE << >>
LaunchdUninstall == <<Ins("owned"), Ins("stable"), Ins("gone"),
                      When({"stopped", "running"}, "bootout"), When({"stopped", "running"}, "await_none"),
                      Ins("bury"), Ins("verify_none"), Ins("erase")>>
LaunchdStart     == <<Ins("managed"), Ins("stable"), When({"none"}, "bootstrap"), When({"none"}, "stable"),
                      When({"none", "stopped"}, "start"), When({"none", "stopped"}, "await_running")>>
LaunchdStop      == <<Ins("owned"), Ins("stable"), Ins("gone"),
                      When({"running"}, "bootout"), When({"running"}, "await_none")>>
LaunchdRestart   == <<Ins("managed"), Ins("stable"), When({"running"}, "bootout"), When({"running"}, "await_none"),
                      When({"none", "running"}, "bootstrap"), When({"none", "running"}, "stable"),
                      Ins("start"), Ins("await_running")>>
LaunchdStatus    == <<Ins("owned"), Ins("query"), Ins("gone"), Ins("settled")>>
\* restore_failed_uninstall: back to the file and the state before.
LaunchdRestore   == <<Ins("unbury"), Ins("query"),
                      Was({"none"}, {"stopped", "running", "moving"}, "bootout"), Was({"none"}, {"stopped", "running", "moving"}, "await_none"),
                      Was({"stopped", "running"}, {"none"}, "bootstrap"),
                      Was({"stopped", "running"}, {"none", "moving"}, "stable"),
                      Was({"running"}, {"stopped", "none"}, "start"), Was({"running"}, {"stopped", "none"}, "await_running"),
                      Was({"stopped"}, {"running"}, "stop"), Was({"stopped"}, {"running"}, "await_stopped")>>

WindowsInstall   == <<Ins("config"), When({"none"}, "create"), Ins("set_mode"), Ins("check_mode"), Ins("stable"), Ins("present")>>
WindowsUninstall == <<Ins("owned"), Ins("stable"), When({"running"}, "stop"), When({"running"}, "await_stopped"),
                      When({"stopped", "running"}, "delete"), When({"stopped", "running"}, "await_none")>>
WindowsStart     == <<Ins("owned"), Ins("stable"), Ins("present"), When({"stopped"}, "start"), When({"stopped"}, "await_running")>>
WindowsStop      == <<Ins("owned"), Ins("stable"), When({"running"}, "stop"), When({"running"}, "await_stopped")>>
WindowsRestart   == <<Ins("owned"), Ins("stable"), Ins("present"), When({"running"}, "stop"), When({"running"}, "await_stopped"),
                      Ins("start"), Ins("await_running")>>
WindowsStatus    == <<Ins("owned"), Ins("query"), Ins("settled")>>

\* FakeServiceManagerAdapter: a map of two booleans, no host.
FakeInstall      == <<Ins("query"), When({"none"}, "create")>>
FakeStart        == <<Ins("query"), Ins("present"), Ins("start"), Ins("await_running")>>
FakeStop         == <<Ins("query"), When({"running"}, "stop")>>

Pick(name, install, uninstall, start, stop, restart, status) ==
    CASE name = "install"   -> install
      [] name = "uninstall" -> uninstall
      [] name = "start"     -> start
      [] name = "stop"      -> stop
      [] name = "restart"   -> restart
      [] OTHER              -> status

Program(name) ==
    IF name = "cleanup" THEN LaunchdUninstall
    ELSE IF name = "restore" THEN LaunchdRestore
    ELSE IF kind = "systemd"
    THEN Pick(name, SystemdInstall, SystemdUninstall, SystemdStart,
              SystemdStop, SystemdRestart, SystemdStatus)
    ELSE IF kind = "launchd"
    THEN Pick(name, LaunchdInstall, LaunchdUninstall, LaunchdStart,
              LaunchdStop, LaunchdRestart, LaunchdStatus)
    ELSE IF kind = "windows"
    THEN Pick(name, WindowsInstall, WindowsUninstall, WindowsStart,
              WindowsStop, WindowsRestart, WindowsStatus)
    ELSE Pick(name, FakeInstall, <<Ins("delete")>>, FakeStart, FakeStop, FakeStart, <<Ins("query")>>)

-----------------------------------------------------------------------------
Report(result, state) == /\ last' = [op |-> op.name, result |-> result, state |-> state, had |-> op.had]
                         /\ op' = Idle
Go(seen)  == op' = [op EXCEPT !.at = @ + 1, !.seen = seen] /\ UNCHANGED last
Advance   == Go(op.seen)
\* An error: launchd removes what its install published, and puts back what a
\* failed uninstall buried; systemd puts the file back, best effort.
Fail ==
    IF kind = "launchd" /\ op.name = "install" /\ op.pub
      THEN op' = [Idle EXCEPT !.name = "cleanup"] /\ UNCHANGED <<last, file, tomb>>
    ELSE IF kind = "launchd" /\ op.name \in {"uninstall", "cleanup"} /\ tomb /\ file = "none"
      THEN op' = [Idle EXCEPT !.name = "restore", !.prev = op.prev, !.had = op.had] /\ UNCHANGED <<last, file, tomb>>
    ELSE IF kind = "systemd" /\ op.name = "uninstall" /\ tomb /\ file = "none"
      THEN \/ file' = "ours" /\ tomb' = FALSE /\ Report("err", "none")
           \/ UNCHANGED <<file, tomb>> /\ Report("err", "none")
    ELSE Report("err", "none") /\ UNCHANGED <<file, tomb>>
Keep == UNCHANGED <<file, tomb, load, active, mode>>
Host == UNCHANGED <<load, active, mode>>

\* A command of the manager: its effect, then success or an error; or an error
\* without effect.
Command(effect) ==
    \/ effect /\ Advance /\ UNCHANGED <<file, tomb>>
    \/ effect /\ Fail
    \/ Host /\ Fail
To(a) == /\ active' \in {a, "moving"} /\ UNCHANGED <<load, mode>>
Bootstrap == load' = TRUE /\ active' \in (IF mode = "on" THEN {"running", "moving"} ELSE {"stopped"}) /\ UNCHANGED mode

-----------------------------------------------------------------------------
Applies(ins) == op.seen \in ins.seen /\ op.prev \in ins.prev /\ op.pub \in ins.pub

\* The instruction the operation is at, or the end of its program.
Current == LET program == Program(op.name)
           IN IF op.at <= Len(program) THEN program[op.at] ELSE [do |-> "end"]

Running(do) == /\ op.name # "idle"
               /\ LET ins == Current IN ins.do = do /\ Applies(ins)
               /\ UNCHANGED <<kind, ops>>

Begin(name) ==
    /\ op = Idle /\ ops < MaxOps
    /\ ops' = ops + 1 /\ op' = [Idle EXCEPT !.name = name, !.had = file] /\ last' = NoReport
    /\ UNCHANGED <<kind>> /\ Keep

Skip ==
    /\ op.name # "idle"
    /\ LET ins == Current IN ins.do # "end" /\ ~Applies(ins)
    /\ Advance /\ UNCHANGED <<kind, ops>> /\ Keep

\* The end of a program: the report names the state it established.
Finish ==
    /\ op.name # "idle" /\ Current.do = "end"
    /\ UNCHANGED <<kind, ops>> /\ Keep
    /\ CASE op.name = "cleanup"   -> Report("undone", "none")
         [] op.name = "restore"   -> Report("err", "none")
         [] op.name = "uninstall" -> Report("ok", "none")
         [] OTHER -> Report("ok", IF op.seen = "none" /\ file # "none" THEN "stopped" ELSE op.seen)

\* Fault: whatever definition is found counts as the manager's own.
OwnedFault == Running("owned") /\ Keep /\ Advance

\* Checks of the definition.
Owned == Running("owned") /\ Keep /\ IF file = "other" THEN Fail ELSE Advance
Managed == Running("managed") /\ Keep /\ IF file # "ours" THEN Fail ELSE Advance
Unclaimed == Running("unclaimed") /\ Keep /\ IF file = "none" /\ load THEN Fail ELSE Advance
Gone == /\ Running("gone") /\ Keep
        /\ IF file # "none" THEN Advance
           ELSE IF load THEN Fail ELSE Report("ok", "none")
Config == Running("config") /\ Keep /\ IF file = "other" THEN Fail ELSE Go(Now)

\* Queries; a query fails when the command does.
Query       == Running("query") /\ Keep /\ (Go(Now) \/ Fail)
Loaded      == Running("loaded") /\ Keep /\ IF load THEN Advance ELSE Fail
Present     == Running("present") /\ Keep /\ IF op.seen # "none" THEN Advance ELSE Fail
Unmasked    == Running("unmasked") /\ Keep /\ IF mode = "masked" THEN Fail ELSE Advance
Settled     == Running("settled") /\ Keep /\ IF op.seen = "moving" THEN Fail ELSE Advance
Stable      == /\ Running("stable") /\ Keep
               /\ \/ Now # "moving" /\ op' = [op EXCEPT !.at = @ + 1, !.seen = Now,
                                              !.prev = IF op.name \in {"uninstall", "cleanup"} THEN Now ELSE @]
                     /\ UNCHANGED last
                  \/ Fail
Await(do, s) == Running(do) /\ Keep /\ ((Now = s /\ Go(s)) \/ Fail)
VerifyNone  == /\ Running("verify_none") /\ Host
               /\ \/ ~load /\ Advance /\ UNCHANGED <<file, tomb>>
                  \/ Fail

\* Files.
\* The link of the finished temporary file; what fails after it leaves the file of
\* systemd, and launchd takes its own back, best effort.
Publish ==
    /\ Running("publish") /\ Host
    /\ CASE file = "none"  -> \/ file' = "ours" /\ op' = [op EXCEPT !.at = @ + 1, !.pub = TRUE] /\ UNCHANGED <<tomb, last>>
                              \/ file' \in {"none", "ours"} /\ Report("err", "none") /\ UNCHANGED tomb
         [] file = "ours"  -> Advance /\ UNCHANGED <<file, tomb>>
         [] OTHER          -> Fail
\* Link to the tombstone, remove, sync; an error undoes what it can of them.
Bury   == /\ Running("bury") /\ Host
          /\ \/ file # "none" /\ file' = "none" /\ tomb' = TRUE /\ Advance
             \/ file' = file /\ tomb' \in {tomb, TRUE} /\ Report("err", "none")
             \/ file # "none" /\ file' = "none" /\ tomb' = TRUE /\ Report("err", "none")
Unbury == /\ Running("unbury") /\ Host
          /\ \/ file' = "ours" /\ tomb' = FALSE /\ Advance
             \/ Report("err", "none") /\ UNCHANGED <<file, tomb>>
             \/ Report("err", "none") /\ file' = "ours" /\ tomb' \in BOOLEAN
\* Remove the tombstone, then sync: the error of the sync comes too late to undo
\* anything.
Erase  == /\ Running("erase") /\ Host
          /\ \/ tomb' = FALSE /\ Advance /\ UNCHANGED file
             \/ tomb' = FALSE /\ Report("late", "none") /\ UNCHANGED file
             \/ kind = "launchd" /\ Fail
             \/ kind # "launchd" /\ Report("err", "none") /\ UNCHANGED <<file, tomb>>

\* Commands.
Reload    == Running("reload") /\ Command(load' = (file # "none") /\ UNCHANGED <<active, mode>>)
SetMode   == /\ Running("set_mode")
             /\ CASE mode = Desired  -> Keep /\ Advance
                  [] mode = "masked" -> Keep /\ Fail
                  [] OTHER -> Command(mode' = Desired /\ UNCHANGED <<load, active>>)
CheckMode == Running("check_mode") /\ Keep /\ IF mode = Desired THEN Advance ELSE Fail
Disable   == /\ Running("disable")
             /\ IF mode = "on" THEN Command(mode' = "off" /\ UNCHANGED <<load, active>>) ELSE Keep /\ Advance
StartCmd  == /\ op.name # "idle" /\ (Running("start") \/ Running("restart"))
             /\ IF kind = "fake" THEN active' = "running" /\ Advance /\ UNCHANGED <<file, tomb, load, mode>>
                ELSE IF load THEN Command(To("running")) ELSE Keep /\ Fail
StopCmd   == /\ Running("stop")
             /\ IF kind = "fake" THEN active' = "stopped" /\ Advance /\ UNCHANGED <<file, tomb, load, mode>>
                ELSE Command(To("stopped"))
BootCmd   == Running("bootstrap") /\ Command(Bootstrap)
Bootout   == Running("bootout") /\ Command(load' = FALSE /\ active' = "stopped" /\ UNCHANGED mode)
Create    == /\ Running("create")
             /\ \/ file' = "ours" /\ load' = TRUE /\ active' = "stopped" /\ mode' = Desired
                   /\ op' = [op EXCEPT !.at = @ + 1, !.seen = "stopped"] /\ UNCHANGED <<tomb, last>>
                \/ kind # "fake" /\ file' = "ours" /\ load' = TRUE /\ active' = "stopped" /\ mode' = Desired
                   /\ UNCHANGED tomb /\ Report("err", "none")
                \/ kind # "fake" /\ Keep /\ Fail
Delete    == /\ Running("delete")
             /\ \/ file' = "none" /\ load' = FALSE /\ active' = "stopped" /\ Advance /\ UNCHANGED <<tomb, mode>>
                \/ kind # "fake" /\ file' = "none" /\ load' = FALSE /\ active' = "stopped" /\ UNCHANGED <<tomb, mode>> /\ Report("err", "none")
                \/ kind # "fake" /\ Keep /\ Fail

-----------------------------------------------------------------------------
\* The service by itself: a transition ends, it crashes, the host starts it.
Drift ==
    /\ load /\ kind # "fake"
    /\ active' \in Observed \ {"none", active}
    /\ UNCHANGED <<kind, file, tomb, load, mode, op, last, ops>>
\* The eva process dies in the middle of an operation.
Die ==
    /\ op # Idle /\ op' = Idle /\ last' = NoReport
    /\ UNCHANGED <<kind, ops>> /\ Keep

Step == \/ Owned \/ Managed \/ Unclaimed \/ Gone \/ Config \/ Query \/ Loaded \/ Present \/ Unmasked \/ Settled \/ Stable
        \/ Await("await_running", "running") \/ Await("await_stopped", "stopped") \/ Await("await_none", "none")
        \/ VerifyNone \/ Publish \/ Bury \/ Unbury \/ Erase
        \/ Reload \/ SetMode \/ CheckMode \/ Disable \/ StartCmd \/ StopCmd \/ BootCmd \/ Bootout
        \/ Create \/ Delete
Next == (\E name \in OpNames : Begin(name)) \/ Skip \/ Finish \/ Step \/ Drift \/ Die

Spec == Init /\ [][Next]_vars

-----------------------------------------------------------------------------
\* A definition this project did not write is never overwritten, moved or deleted.
ForeignKept == [][file = "other" => file' = "other"]_vars

\* An uninstall that fails leaves the definition in place or in its tombstone,
\* whatever failed after it was moved, the recovery included.  Only the error of the
\* last sync comes when both are gone, and then nothing is left to uninstall: the
\* manager does not know the service any more.
DefinitionNeverLost ==
    /\ last.op \in {"uninstall", "restore"} /\ last.result = "err" /\ last.had = "ours" /\ kind \in {"systemd", "launchd"}
         => file # "none" \/ tomb
    /\ last.result = "late" => file = "none" /\ ~load

\* An operation that reports success left the manager as it says: uninstalled means no
\* file and nothing loaded; installed means our file is known.
SuccessIsTrue ==
    last.result = "ok" =>
        /\ last.op = "uninstall" => file = "none" /\ ~load
        /\ last.op = "install" => file = "ours" /\ load
        /\ last.op \in {"start", "restart"} => file = "ours"

\* A failed launchd install that reports no cleanup error left neither plist nor job.
FailedInstallUndone == last.result = "undone" => file = "none" /\ ~load
=============================================================================
