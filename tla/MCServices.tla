------------------------------ MODULE MCServices ------------------------------
(* Small instances of the state machines that live in one process each and   *)
(* talk to the outside: providers, MCP sessions in both directions, the       *)
(* service host and the Agent dispatch.  part says which one runs, the others *)
(* stay where they start.                                                     *)
EXTENDS Naturals, Sequences

CONSTANT Parts

VARIABLE part

\* ProviderSupervisor
VARIABLES
  rec, resv, psLock, procs, daemon, inv, circuit, rate, psDrain, now, pids,
  faults, starts

\* McpHttpRegistry
VARIABLES
  rgSess, nextId, admissionClosed, draining, threads, reaper, remote, op

\* McpHttpLifecycle
VARIABLES
  closed, ops, caLock, caSess, leases, tasks, held, opened, released, caPc,
  caDrain, drains, fails

\* McpClient
VARIABLES
  link, at, client, server, clChild, result, opening, deletes

\* McpStream
VARIABLES
  wire, parsed, replies, peers, pending, pendingBytes, waiting, disconnected, out

\* McpServer
VARIABLES
  sessions, requested, slot, svPc, conn, reply, late, handle, told, report

\* ServiceHost
VARIABLES
  token, state, scm, ready, stop, dog, hsFailed, stale

\* ProviderTransports
VARIABLES
  trRun, trChild, pipe, reader, evidence, group, cleaner

\* CredentialSessions
VARIABLES
  session, progress, channel, finalizer, csDrain

\* AgentDispatch
VARIABLES
  project, options, mailbox, log, letters, agRun

-----------------------------------------------------------------------------
\* Routing tables: fanout and compete rules, rules that do not match and rules
\* that name an Agent more often than its mailbox holds.
Rule(matches, delivery, agents) ==
  [matches |-> matches, delivery |-> delivery, agents |-> agents]
RoutingRules ==
  { <<Rule(TRUE, "fanout", <<"a", "b">>)>>,
    <<Rule(TRUE, "compete", <<"a", "b">>), Rule(TRUE, "fanout", <<"a">>)>>,
    <<Rule(TRUE, "fanout", <<"a">>), Rule(TRUE, "fanout", <<"a">>), Rule(TRUE, "fanout", <<"a">>)>>,
    <<Rule(FALSE, "fanout", <<"a">>), Rule(TRUE, "compete", <<>>)>> }
Unused ==
  [rules |-> <<Rule(TRUE, "fanout", <<"a", "b">>)>>, enabled |-> {},
   script |-> [a \in {"a", "b"} |-> "missing"]]

Provider == INSTANCE ProviderSupervisor WITH
  Sessions <- {"s1", "s2"},
  MaxAttempts <- [g \in 1..3 |-> [s \in {"s1", "s2"} |->
                    IF s = "s2" THEN 0 ELSE IF g = 1 THEN 1 ELSE 2]],
  Concurrency <- 1, Ttl <- 2, Backoff <- 1, StableWindow <- 1, Threshold <- 2,
  RecoveryWindow <- 1, RateMax <- 2, RateWindow <- 2, MaxClock <- 2,
  MaxGen <- 3, MaxFaults <- 2, MaxPid <- 3, lock <- psLock, drain <- psDrain

Registry == INSTANCE McpHttpRegistry WITH
  MaxSessions <- 2, Streams <- {"a"}, QueueItems <- 1, sess <- rgSess

Calls == INSTANCE McpHttpLifecycle WITH
  Calls <- {"c1", "c2"}, MaxDrains <- 2, MaxFails <- 1, lock <- caLock,
  sess <- caSess, pc <- caPc, drain <- caDrain

Client == INSTANCE McpClient WITH
  child <- clChild

Stream == INSTANCE McpStream WITH
  StreamIds <- {"r1", "r2"}, PendingLimit <- 2, ByteLimit <- 3

Server == INSTANCE McpServer WITH
  SessionIds <- {"s1", "s2"}, Peers <- {"p", "q"}, MaxSessions <- 1,
  MaxConnections <- 3, pc <- svPc

Host == INSTANCE ServiceHost WITH
  failed <- hsFailed

Transport == INSTANCE ProviderTransports WITH
  InputSize <- 2, OutputSize <- 2, OutputLimit <- 1, PipeSize <- 1,
  run <- trRun, child <- trChild

Credentials == INSTANCE CredentialSessions WITH
  Sessions <- {"s1", "s2"}, Drains <- {"d1", "d2"}, MaxWorkers <- 1,
  drain <- csDrain

Dispatch == INSTANCE AgentDispatch WITH
  Agents <- {"a", "b"}, RuleSets <- RoutingRules,
  Scripts <- {"missing", "forbidden", "handler", "broken"},
  Attempts <- {0, 2}, Capacity <- 2, run <- agRun

-----------------------------------------------------------------------------
providerVars ==
  <<rec, resv, psLock, procs, daemon, inv, circuit, rate, psDrain, now,
    pids, faults, starts>>
registryVars ==
  <<rgSess, nextId, admissionClosed, draining, threads, reaper, remote, op>>
callsVars ==
  <<closed, ops, caLock, caSess, leases, tasks, held, opened, released,
    caPc, caDrain, drains, fails>>
clientVars == <<link, at, client, server, clChild, result, opening, deletes>>
streamVars ==
  <<wire, parsed, replies, peers, pending, pendingBytes, waiting, disconnected,
    out>>
serverVars ==
  <<sessions, requested, slot, svPc, conn, reply, late, handle, told,
    report>>
hostVars == <<token, state, scm, ready, stop, dog, hsFailed, stale>>
transportVars == <<trRun, trChild, pipe, reader, evidence>>
cleanupVars == <<group, cleaner>>
credentialsVars == <<session, progress, channel, finalizer, csDrain>>
dispatchVars == <<project, options, mailbox, log, letters, agRun>>

all ==
  <<part, providerVars, registryVars, callsVars, clientVars, streamVars,
    serverVars, hostVars, transportVars, cleanupVars, credentialsVars,
    dispatchVars>>

ServicesInit ==
  /\ part \in Parts
  /\ Provider!Init
  /\ Registry!Init
  /\ Calls!Init
  /\ Client!Init
  /\ part # "client" => link = "http"
  /\ Stream!Init
  /\ part # "stream" => wire = [n \in 1..3 |-> CHOOSE m \in Stream!Sent(n) : TRUE]
  /\ Server!Init
  /\ Host!Init
  /\ Transport!RunInit
  /\ part # "transport" => trRun.kind = "stdio" /\ trRun.input = 0
  /\ Transport!CleanInit
  /\ part # "cleanup" => group = {}
  /\ Credentials!Init
  /\ Dispatch!DispatchInit
  /\ part # "dispatch" => project = Unused /\ options.timeout = "none" /\ options.attempts = 0
       /\ ~options.cancel /\ ~options.replay

Step ==
  \/ part = "provider" /\ Provider!Next
  \/ part = "registry" /\ Registry!Next
  \/ part = "calls" /\ Calls!Next
  \/ part = "client" /\ Client!Next
  \/ part = "stream" /\ Stream!Next
  \/ part = "server" /\ Server!Next
  \/ part = "host" /\ Host!Next
  \/ part = "transport" /\ Transport!RunNext
  \/ part = "cleanup" /\ Transport!CleanNext
  \/ part = "credentials" /\ Credentials!Next
  \/ part = "dispatch" /\ Dispatch!DispatchNext

Idle ==
  /\ part # "provider" => UNCHANGED providerVars
  /\ part # "registry" => UNCHANGED registryVars
  /\ part # "calls" => UNCHANGED callsVars
  /\ part # "client" => UNCHANGED clientVars
  /\ part # "stream" => UNCHANGED streamVars
  /\ part # "server" => UNCHANGED serverVars
  /\ part # "host" => UNCHANGED hostVars
  /\ part # "transport" => UNCHANGED transportVars
  /\ part # "cleanup" => UNCHANGED cleanupVars
  /\ part # "credentials" => UNCHANGED credentialsVars
  /\ part # "dispatch" => UNCHANGED dispatchVars

ServicesNext == Step /\ Idle /\ UNCHANGED part

ServicesSpec == ServicesInit /\ [][ServicesNext]_all

-----------------------------------------------------------------------------
(* Properties.                                                               *)

\* A session has one registered provider process at a time, is not started more
\* often than its durable budget allows, keeps its admission while its record is
\* active, and a drain that reports success leaves nothing of it behind; over
\* crashes, restarts and an admission file that expires.
ProvidersAreBounded ==
  /\ [](part = "provider" =>
          /\ Provider!TypeOK /\ Provider!OneRegisteredProcess
          /\ Provider!BudgetBoundsStarts /\ Provider!DrainLeavesNothing)
  /\ Provider!HeldWhileActive

\* Whatever a provider call opened has one owner who will release it: reader
\* threads and server-side sessions, credential leases, deferred releases.  The
\* counters a drain decides by are exact and its success means that all is gone.
SessionsAreReleased ==
  /\ [](part = "registry" =>
          Registry!TypeOK /\ Registry!NothingLeaks /\ Registry!DrainedMeansQuiet)
  /\ [](part = "calls" =>
          Calls!TypeOK /\ Calls!CredentialHasOneOwner /\ Calls!DrainLeavesNothing)
  /\ [](part = "credentials" =>
          Credentials!CountersAreTrue /\ Credentials!RetriesAreAuthorized)
  /\ Credentials!DrainedMeansReleased

\* MCP in both directions: a client call follows the handshake, leaves no process
\* it did not try to end and no session it knew of, and delivers responses in
\* order within its limits; a server session is one its client was told of, is
\* accounted for, and is ready when called.
McpIsOrderly ==
  /\ part = "client" =>
       /\ Client!TypeOK /\ Client!CallLeavesNothing
       /\ Client!HandshakeFirst /\ Client!SuccessIsComplete
  /\ part = "stream" => Stream!CountersAreTrue /\ Stream!ResponsesInOrder
  /\ part = "server" =>
       Server!NoGhostSession /\ Server!SessionsAreAccounted /\ Server!CallsAreReady

\* A provider run leaves no process it could end and no open credential session
\* and is completed only with all of its output, a clean-up reports an end only
\* when no process of the provider is left and signals no group it could have
\* known for a stranger's, and a stopped service looks running only where the
\* report of the stop itself failed.
ProcessesEndClean ==
  /\ part = "transport" => Transport!RunLeavesNothing /\ Transport!CompletedIsWhole
  /\ part = "cleanup" => Transport!ReportedGoneIsGone /\ Transport!StrangersAreFenced
  /\ part = "host" => Host!TypeOK /\ Host!StopOutlivesReady /\ Host!ReadyIsKnown

\* A reported dispatch ran every Agent it planned, emptied the mailboxes and kept
\* a dead letter for each failed run; a cancelled one called no handler.
DispatchIsRecorded ==
  part = "dispatch" =>
    Dispatch!TypeOK /\ Dispatch!ReportedMeansRun /\ Dispatch!CancelledNeverCalls

\* basic.rs:106-107 says that every Agent's delivery is acknowledged once the
\* Agent succeeded: a run that handled the event has its acknowledgement.
HandledIsAcked == Dispatch!HandledIsAcked

=============================================================================
