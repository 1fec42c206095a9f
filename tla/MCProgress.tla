------------------------------ MODULE MCProgress ------------------------------
(* Small instances of the state machines that promise to come to an end, with *)
(* the fairness each of them is given: the threads of a living process run and *)
(* the clock moves.  Nothing is assumed of those they hand work to - the       *)
(* handlers of events and tools, provider processes, the credential vault, the *)
(* clients - and nobody starts a daemon that has died: a step that waits for   *)
(* one of them has no fairness, and the properties say where work may wait.    *)
EXTENDS Naturals, Sequences

CONSTANTS Parts, None

VARIABLE part

\* EventRedrive
VARIABLES
  log, letters, task, summaries, wbus, wpc, wjob, sbus, spc, todo, evCur, at,
  evNow, evFailures, evCrashes

\* DaemonStartup
VARIABLES
  suLease, suLock, expired, genFile, suPidFile, stateFile, frames, suChild,
  suGen, launch, seen, stop, suFailures, suCrashes

\* DaemonControl
VARIABLES
  ctGen, ctLease, live, status, ctPidFile, ctEvidence, requests, responses,
  rejected, ctPc, scan, ctCur, token, client, executed, drained, errors

\* ProviderSupervisor
VARIABLES
  rec, resv, psLock, procs, daemon, inv, circuit, rate, psDrain, psNow, pids,
  faults, starts

\* McpHttpLifecycle
VARIABLES
  closed, ops, caLock, sess, leases, tasks, held, opened, released, caPc,
  caDrain, drains, fails

\* McpServer
VARIABLES
  sessions, requested, slot, svPc, conn, reply, late, handle, told, report

\* ProviderTransports
VARIABLES
  run, trChild, pipe, reader, trEvidence, group, cleaner

\* CredentialSessions
VARIABLES
  session, progress, channel, finalizer, csDrain

-----------------------------------------------------------------------------
Events == INSTANCE EventRedrive WITH
  Events <- {"e1"}, Plan <- [e \in {"e1"} |-> 2],
  Delay <- [e \in {"e1"} |-> 1], Routable <- {"e1"}, MaxTime <- 1,
  MaxCount <- 3, MaxFailures <- 2, MaxCrashes <- 2, cur <- evCur,
  now <- evNow, failures <- evFailures, crashes <- evCrashes

Startup == INSTANCE DaemonStartup WITH
  Launchers <- {"l1", "l2"}, MaxFailures <- 0, MaxCrashes <- 0,
  lease <- suLease, lock <- suLock, pidFile <- suPidFile, child <- suChild,
  gen <- suGen, failures <- suFailures, crashes <- suCrashes

Control == INSTANCE DaemonControl WITH
  Clients <- {"c1", "c2"}, Id <- [c \in {"c1", "c2"} |-> 1],
  Op <- [c \in {"c1", "c2"} |-> "mutate"], MaxSends <- 1, MaxGen <- 2,
  MaxErrors <- 1, gen <- ctGen, lease <- ctLease, pidFile <- ctPidFile,
  evidence <- ctEvidence, pc <- ctPc, cur <- ctCur

Provider == INSTANCE ProviderSupervisor WITH
  Sessions <- {"s1", "s2"},
  MaxAttempts <- <<[s \in {"s1", "s2"} |-> IF s = "s1" THEN 1 ELSE 0]>>,
  Concurrency <- 1, Ttl <- 2, Backoff <- 1, StableWindow <- 2, Threshold <- 2,
  RecoveryWindow <- 1, RateMax <- 2, RateWindow <- 2, MaxClock <- 2,
  MaxGen <- 1, MaxFaults <- 1, MaxPid <- 2, lock <- psLock, drain <- psDrain,
  now <- psNow

Calls == INSTANCE McpHttpLifecycle WITH
  Calls <- {"c1", "c2"}, MaxDrains <- 2, MaxFails <- 1, lock <- caLock,
  pc <- caPc, drain <- caDrain

Server == INSTANCE McpServer WITH
  SessionIds <- {"s1", "s2"}, Peers <- {"p", "q"}, MaxSessions <- 1,
  MaxConnections <- 2, pc <- svPc

Transport == INSTANCE ProviderTransports WITH
  InputSize <- 2, OutputSize <- 2, OutputLimit <- 1, PipeSize <- 1,
  child <- trChild, evidence <- trEvidence

Credentials == INSTANCE CredentialSessions WITH
  Sessions <- {"s1", "s2"}, Drains <- {"d1"}, MaxWorkers <- 1,
  drain <- csDrain

-----------------------------------------------------------------------------
eventsVars ==
  <<log, letters, task, summaries, wbus, wpc, wjob, sbus, spc, todo, evCur,
    at, evNow, evFailures, evCrashes>>
startupVars ==
  <<suLease, suLock, expired, genFile, suPidFile, stateFile, frames,
    suChild, suGen, launch, seen, stop, suFailures, suCrashes>>
controlVars ==
  <<ctGen, ctLease, live, status, ctPidFile, ctEvidence, requests,
    responses, rejected, ctPc, scan, ctCur, token, client, executed,
    drained, errors>>
providerVars ==
  <<rec, resv, psLock, procs, daemon, inv, circuit, rate, psDrain, psNow,
    pids, faults, starts>>
callsVars ==
  <<closed, ops, caLock, sess, leases, tasks, held, opened, released, caPc,
    caDrain, drains, fails>>
serverVars ==
  <<sessions, requested, slot, svPc, conn, reply, late, handle, told,
    report>>
transportVars == <<run, trChild, pipe, reader, trEvidence>>
credentialsVars == <<session, progress, channel, finalizer, csDrain>>

all ==
  <<part, eventsVars, startupVars, controlVars, providerVars, callsVars,
    serverVars, transportVars, credentialsVars, group, cleaner>>

ProgressInit ==
  /\ part \in Parts
  /\ Events!Init
  /\ Startup!Init
  /\ Control!Init
  /\ Provider!Init
  /\ Calls!Init
  /\ Server!Init
  /\ Transport!RunInit
  /\ part # "transport" => run.kind = "stdio" /\ run.input = 0
  /\ Credentials!Init
  /\ group = {} /\ Transport!CleanInit

Step ==
  \/ part = "events" /\ Events!Next
  \/ part = "startup" /\ Startup!Next /\ stop' = "off"
  \/ part = "control" /\ Control!Next
  \/ part = "provider" /\ Provider!Next
  \/ part = "calls" /\ Calls!Next
  \/ part = "server" /\ Server!Next
  \/ part = "transport" /\ Transport!RunNext
  \/ part = "credentials" /\ Credentials!Next

Idle ==
  /\ part = "events" \/ UNCHANGED eventsVars
  /\ part = "startup" \/ UNCHANGED startupVars
  /\ part = "control" \/ UNCHANGED controlVars
  /\ part = "provider" \/ UNCHANGED providerVars
  /\ part = "calls" \/ UNCHANGED callsVars
  /\ part = "server" \/ UNCHANGED serverVars
  /\ part = "transport" \/ UNCHANGED transportVars
  /\ part = "credentials" \/ UNCHANGED credentialsVars

ProgressNext == Step /\ Idle /\ UNCHANGED <<part, group, cleaner>>

-----------------------------------------------------------------------------
(* Fairness.  A behaviour has one part, so the fairness of the threads that   *)
(* stand on one line of the parts' lists is one condition:                    *)
(*   events       the worker between handlers, recovery, scheduler, health    *)
(*                check, clock                                                *)
(*   startup      the launcher l1, whose deadline comes; its child may hang   *)
(*   control      the loop of a living daemon                                 *)
(*   provider     the invocation outside vault and provider, drain, clock     *)
(*   calls        two calls outside the vault, drain, deadline                *)
(*   server       the serving thread outside tools, with its read deadline    *)
(*   transport    runner with its reader threads, clock                       *)
(*   credentials  finalizer, drain, the drain's deadline                      *)

\* The variables of the part that runs.
own ==
  CASE part = "events" -> eventsVars
    [] part = "startup" -> startupVars
    [] part = "control" -> controlVars
    [] part = "provider" -> providerVars
    [] part = "calls" -> callsVars
    [] part = "server" -> serverVars
    [] part = "transport" -> transportVars
    [] part = "credentials" -> credentialsVars

Thread1 ==
  /\ \/ part = "events" /\ Events!Evidence
     \/ part = "startup" /\ Startup!LauncherSteps("l1")
     \/ part = "control" /\ Control!DaemonSteps
     \/ part = "provider" /\ Provider!SupervisorSteps
     \/ part = "calls" /\ Calls!CallSteps("c1")
     \/ part = "server" /\ Server!ServerSteps
     \/ part = "transport" /\ Transport!RunnerSteps
     \/ part = "credentials" /\ Credentials!FinalizerSteps
  /\ UNCHANGED part

Thread2 ==
  /\ \/ part = "events" /\ Events!Recover
     \/ part = "provider" /\ Provider!DrainSteps
     \/ part = "calls" /\ Calls!CallSteps("c2")
     \/ part = "transport" /\ Transport!Tick
     \/ part = "credentials" /\ Credentials!DrainSteps
  /\ UNCHANGED part

Thread3 ==
  /\ \/ part = "events" /\ Events!Scheduler
     \/ part = "provider" /\ Provider!Tick
     \/ part = "calls" /\ Calls!Drain
     \/ part = "credentials" /\ Credentials!Expire("d1")
  /\ UNCHANGED part

Thread4 ==
  /\ \/ part = "events" /\ Events!StopUnhealthy
     \/ part = "calls" /\ Calls!Deadline
  /\ UNCHANGED part

Thread5 == part = "events" /\ Events!Tick /\ UNCHANGED part

StartDeadline == part = "startup" /\ Startup!Deadline("l1") /\ UNCHANGED part

ProgressSpec ==
  /\ ProgressInit /\ [][ProgressNext]_all
  /\ WF_own(Thread1) /\ WF_own(Thread2) /\ WF_own(Thread3)
  /\ WF_own(Thread4) /\ WF_own(Thread5)
  /\ SF_own(StartDeadline)

-----------------------------------------------------------------------------
(* Properties.  Launchers, calls and sessions are interchangeable: the first  *)
(* of each stands for all.                                                    *)

Asked ==
  \/ part = "events" /\ letters["e1"] # None /\ spc # "off"
  \/ part = "startup"
  \/ part = "control" /\ requests[1] # None /\ ctPc # "off"

Answered ==
  \/ part = "events" /\ (Events!Done("e1") \/ Events!HandedOver("e1") \/ spc = "off")
  \/ part = "startup" /\ Startup!Settled("l1")
  \/ part = "control" /\ (requests[1] = None \/ ctPc = "off")

\* What a living daemon was given is not left lying: a routable dead letter is
\* delivered, rejected for good or waits in the queue of the worker, again after
\* every failure; a start comes to an end even when its child hangs; a request
\* does not stay in the control mailbox.  A daemon that dies owes nothing.
RequestsAreAnswered == Asked ~> Answered

Calling ==
  \/ part = "provider" /\ inv.phase # "idle"
  \/ part = "calls" /\ caPc["c1"] \notin {"begin", "done"}
  \/ part = "server" /\ requested
  \/ part = "transport" /\ run.expired /\ run.at \in {"receive", "wait"}
  \/ part = "credentials" /\ session["s1"].at = "sent"

Called ==
  \/ part = "provider" /\ inv.phase = "idle"
  \/ part = "calls" /\ caPc["c1"] = "done"
  \/ part = "server" /\ svPc \in {"stopped", "failed"}
  \/ part = "transport" /\ run.at = "done"
  \/ part = "credentials" /\ session["s1"].attempted

\* The work is with the vault, the provider or a tool, none of which has a time
\* limit where it is called.
WithOthers ==
  \/ part = "provider" /\ inv.phase \in {"slot", "running"}
  \/ part = "calls" /\ Calls!InVault("c1")
  \/ part = "server" /\ svPc = "handling"
  \/ part = "credentials" /\ Credentials!At("running") # {}

Draining ==
  \/ part = "calls" /\ caDrain.pc = "wait_ops"
  \/ part = "credentials" /\ csDrain["d1"].at \in {"send", "sent"}

Drained ==
  \/ part = "calls" /\ caDrain.pc \in {"ok", "error"}
  \/ part = "credentials" /\ csDrain["d1"].at = "done"

\* Nothing of Eva's own keeps work from its end: a provider invocation, an MCP
\* call, a server that is shut down, a provider run whose input is written and
\* whose time is up, and a deferred credential release are over or with the
\* vault, the provider or the tool they wait for, and go on when it returns.  The
\* drains of calls and of credentials end though the vault never does.
CallsEnd == (Calling ~> (Called \/ WithOthers)) /\ (Draining ~> Drained)

=============================================================================
