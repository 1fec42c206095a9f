----------------------------- MODULE DaemonControl -----------------------------
(***************************************************************************)
(* The control mailbox of a daemon (eva-runtime/src/daemon.rs): a client   *)
(* puts a request file into a directory and waits for the response file of *)
(* the same id; the daemon's loop reads the requests in order of their     *)
(* names, executes each, writes the response and removes the request.      *)
(* Requests it cannot use are moved out of the way.  A shutdown drains the *)
(* daemon, writes drain evidence, stops the state, removes the pid file    *)
(* and is answered before the lease is released; a service manager's stop  *)
(* token makes the loop do the same.                                       *)
(*                                                                         *)
(* The daemon dies between any two of these steps and a successor, with    *)
(* the next lease generation, finds the files.  Clients time out, send     *)
(* again under the same id and overwrite each other's files.               *)
(***************************************************************************)
EXTENDS Integers, FiniteSets, FiniteSetsExt

CONSTANTS
  Clients,
  None,
  Id,          \* request id of a client; file names sort like numbers
  Op,          \* operation of a client: "status", "mutate" or "shutdown"
  MaxSends,    \* bound on the sends of a client
  MaxGen,      \* bound on daemon generations
  MaxErrors    \* bound on failing operations and crashes

VARIABLES
  gen,        \* generation of the newest daemon
  lease,      \* state of its lease record
  live,       \* a process holds the lease's lock
  status,     \* state file: "none", "running" or "stopped"
  pidFile,    \* generation the pid file names, 0 without one
  evidence,   \* generation the drain evidence names, 0 without any
  requests,   \* request files: id -> send
  responses,  \* response files: id -> response
  rejected,   \* sends moved out of the mailbox
  pc,         \* where the daemon stands
  scan,       \* ids of the pass it has not visited
  cur,        \* id and send in hand
  token,      \* the service manager's stop token
  client,     \* where each client stands: [pc, n, target]
  executed,   \* executions of a mutation so far: [send, gen] -> number
  drained,    \* generations whose worker and providers are drained
  errors

daemon == <<pc, scan, cur, token>>
owner  == <<gen, lease, live, status, pidFile, evidence, drained>>
files  == <<requests, responses, rejected>>
vars   == <<owner, files, daemon, client, executed, errors>>

Ids == {Id[c] : c \in Clients}
NoSend == [client |-> None, n |-> 0, target |-> 0, op |-> "none"]
Sends  == [client : Clients, n : 1..MaxSends]
Key(s) == [client |-> s.client, n |-> s.n]
NoWork == [id |-> 0, send |-> NoSend]

Init ==
  /\ gen = 0 /\ lease = "none" /\ live = FALSE /\ status = "none" /\ pidFile = 0 /\ evidence = 0
  /\ requests = [i \in Ids |-> None] /\ responses = [i \in Ids |-> None] /\ rejected = {}
  /\ pc = "off" /\ scan = {} /\ cur = NoWork /\ token = FALSE
  /\ client = [c \in Clients |-> [pc |-> "idle", n |-> 0, target |-> 0]]
  /\ executed = [s \in Sends |-> 0] /\ drained = {} /\ errors = 0

-----------------------------------------------------------------------------
(* daemon_status and the clients: send_daemon_control_request.             *)

Available == status = "running" /\ lease = "active" /\ live /\ pidFile = gen

\* DaemonShutdownDrainEvidence::matches_status.
MatchesStatus == evidence = gen

FullyReleased == status = "stopped" /\ pidFile = 0 /\ lease = "released" /\ ~live /\ MatchesStatus

Go(c, where) == client' = [client EXCEPT ![c].pc = where]

\* The request is bound to the generation that is available now.
Bind(c) ==
  /\ client[c].pc \in {"idle", "timed_out"} /\ client[c].n < MaxSends
  /\ \/ Available /\ client' = [client EXCEPT ![c] = [pc |-> "clear", n |-> @.n + 1, target |-> gen]]
     \/ ~Available /\ Op[c] = "shutdown" /\ FullyReleased /\ Go(c, "answered")
     \/ ~Available /\ (Op[c] = "shutdown" => ~FullyReleased) /\ Go(c, "refused")
  /\ UNCHANGED <<owner, files, daemon, executed, errors>>

ClearResponse(c) ==
  /\ client[c].pc = "clear" /\ Go(c, "write") /\ responses' = [responses EXCEPT ![Id[c]] = None]
  /\ UNCHANGED <<owner, requests, rejected, daemon, executed, errors>>

\* bind_to_lease_generation.
SendOf(c) == [client |-> c, n |-> client[c].n, target |-> client[c].target, op |-> Op[c]]

WriteRequest(c) ==
  /\ client[c].pc = "write" /\ Go(c, "wait") /\ requests' = [requests EXCEPT ![Id[c]] = SendOf(c)]
  /\ UNCHANGED <<owner, responses, rejected, daemon, executed, errors>>

\* A response ends the wait, unless it says shutdown: then the daemon must be
\* fully released, which also ends the wait of a shutdown without a response.
Receive(c) ==
  /\ client[c].pc = "wait" /\ Go(c, "answered")
  /\ \/ responses[Id[c]] # None /\ responses[Id[c]].op # "shutdown" /\ UNCHANGED requests
     \/ /\ Op[c] = "shutdown" /\ FullyReleased /\ responses[Id[c]] # None /\ UNCHANGED requests
     \/ /\ Op[c] = "shutdown" /\ FullyReleased /\ responses[Id[c]] = None
        /\ requests' = IF requests[Id[c]] = SendOf(c) THEN [requests EXCEPT ![Id[c]] = None] ELSE requests
  /\ UNCHANGED <<owner, responses, rejected, daemon, executed, errors>>

Timeout(c) ==
  /\ client[c].pc = "wait" /\ Go(c, "timed_out")
  /\ UNCHANGED <<owner, files, daemon, executed, errors>>

ClientSteps(c) == Bind(c) \/ ClearResponse(c) \/ WriteRequest(c) \/ Receive(c) \/ Timeout(c)

-----------------------------------------------------------------------------
(* The daemon's life; DaemonStartup and RuntimeLease detail it.            *)

GoDaemon(where) == pc' = where
Fails == errors < MaxErrors /\ errors' = errors + 1

Start ==
  /\ pc = "off" /\ ~live /\ gen < MaxGen
  /\ gen' = gen + 1 /\ lease' = "active" /\ live' = TRUE /\ status' = "running" /\ pidFile' = gen + 1
  /\ GoDaemon("loop") /\ scan' = {} /\ cur' = NoWork /\ token' = FALSE
  /\ UNCHANGED <<evidence, drained, files, client, executed, errors>>

Crash ==
  /\ pc # "off" /\ Fails /\ GoDaemon("off") /\ live' = FALSE /\ scan' = {} /\ cur' = NoWork
  /\ UNCHANGED <<gen, lease, status, pidFile, evidence, drained, files, token, client, executed>>

\* The loop ends with an error: start_daemon_inner cleans up, drained or not.
EndWithError ==
  /\ pc = "error" /\ GoDaemon("off") /\ scan' = {} /\ cur' = NoWork
  /\ status' = "stopped" /\ pidFile' = 0 /\ lease' = "released" /\ live' = FALSE
  /\ UNCHANGED <<gen, evidence, drained, files, token, client, executed, errors>>

\* Health check, lease renewal, scheduler tick, maintenance, reload.
TickFails ==
  /\ pc = "loop" /\ Fails /\ GoDaemon("error")
  /\ UNCHANGED <<owner, files, scan, cur, token, client, executed>>

RequestStop ==
  /\ pc # "off" /\ ~token /\ token' = TRUE
  /\ UNCHANGED <<owner, files, pc, scan, cur, client, executed, errors>>

-----------------------------------------------------------------------------
(* run_control_loop.                                                       *)

Pending == {i \in Ids : requests[i] # None}

PendingControlRequests ==
  /\ pc = "loop" /\ ~token /\ scan' = Pending /\ GoDaemon(IF Pending = {} THEN "loop" ELSE "scan")
  /\ UNCHANGED <<owner, files, cur, token, client, executed, errors>>

\* Fault: the generation of a request is not compared.
ValidGenerationFault(s) == TRUE

\* validate_control_request_generation.  A legacy request has its creation time
\* instead: made before this daemon started, it is as good as of an older target.
ValidGeneration(s) == s.target = gen

\* Requests are visited in the order of their names.  One that is gone when it
\* is read is passed over.
ReadControlRequest ==
  /\ pc = "scan"
  /\ LET i == Min(scan)
     IN /\ scan' = scan \ {i}
        /\ \/ requests[i] = None /\ GoDaemon(IF scan = {i} THEN "loop" ELSE "scan") /\ cur' = NoWork
           \/ /\ requests[i] # None /\ cur' = [id |-> i, send |-> requests[i]]
              /\ GoDaemon(IF ValidGeneration(requests[i]) THEN "execute" ELSE "quarantine")
  /\ UNCHANGED <<owner, files, token, client, executed, errors>>

\* quarantine_control_request renames the path, whoever wrote it last.
Quarantine ==
  /\ pc = "quarantine" /\ cur' = NoWork
  /\ GoDaemon(CASE token /\ scan = {} -> "synthesise"
                [] token /\ scan # {} -> "service_scan"
                [] OTHER -> IF scan = {} THEN "loop" ELSE "scan")
  /\ requests' = [requests EXCEPT ![cur.id] = None]
  /\ rejected' = IF requests[cur.id] = None THEN rejected ELSE rejected \cup {Key(requests[cur.id])}
  /\ UNCHANGED <<owner, responses, scan, token, client, executed, errors>>

\* handle_control_request for everything but a shutdown.
Execute ==
  /\ pc = "execute" /\ cur.send.op # "shutdown"
  /\ \/ /\ GoDaemon("respond") /\ UNCHANGED errors
        /\ executed' = IF cur.send.op = "mutate" THEN [executed EXCEPT ![Key(cur.send)] = @ + 1] ELSE executed
     \/ Fails /\ GoDaemon("quarantine") /\ UNCHANGED executed
  /\ UNCHANGED <<owner, files, scan, cur, token, client>>

WriteResponse ==
  /\ pc = "respond" /\ GoDaemon("remove")
  /\ responses' = IF cur.id \in Ids THEN [responses EXCEPT ![cur.id] = [send |-> Key(cur.send), op |-> cur.send.op]]
                  ELSE responses
  /\ UNCHANGED <<owner, requests, rejected, scan, cur, token, client, executed, errors>>

RemoveRequest ==
  /\ pc = "remove" /\ cur' = NoWork
  /\ GoDaemon(IF cur.send.op = "shutdown" THEN "release" ELSE IF scan = {} THEN "loop" ELSE "scan")
  /\ requests' = IF cur.id \in Ids THEN [requests EXCEPT ![cur.id] = None] ELSE requests
  /\ UNCHANGED <<owner, responses, rejected, scan, token, client, executed, errors>>

-----------------------------------------------------------------------------
(* Shutdown, one durable effect at a time.                                 *)

\* Providers and tasks; an error ends the loop.
Drain ==
  /\ pc = "execute" /\ cur.send.op = "shutdown"
  /\ \/ GoDaemon("evidence") /\ drained' = drained \cup {gen} /\ UNCHANGED errors
     \/ Fails /\ GoDaemon("error") /\ UNCHANGED drained
  /\ UNCHANGED <<gen, lease, live, status, pidFile, evidence, files, scan, cur, token, client, executed>>

WriteEvidence ==
  /\ pc = "evidence" /\ GoDaemon("stop") /\ evidence' = gen
  /\ UNCHANGED <<gen, lease, live, status, pidFile, drained, files, scan, cur, token, client, executed, errors>>

WriteStopped ==
  /\ pc = "stop" /\ GoDaemon("pid") /\ status' = "stopped"
  /\ UNCHANGED <<gen, lease, live, pidFile, evidence, drained, files, scan, cur, token, client, executed, errors>>

RemovePid ==
  /\ pc = "pid" /\ GoDaemon("respond") /\ pidFile' = 0
  /\ UNCHANGED <<gen, lease, live, status, evidence, drained, files, scan, cur, token, client, executed, errors>>

Release ==
  /\ pc = "release" /\ GoDaemon("off") /\ lease' = "released" /\ live' = FALSE /\ scan' = {}
  /\ UNCHANGED <<gen, status, pidFile, evidence, drained, files, cur, token, client, executed, errors>>

-----------------------------------------------------------------------------
(* process_service_stop_request.                                           *)

ServiceStop ==
  /\ pc = "loop" /\ token /\ scan' = Pending /\ GoDaemon(IF Pending = {} THEN "synthesise" ELSE "service_scan")
  /\ UNCHANGED <<owner, files, cur, token, client, executed, errors>>

\* A pending shutdown of this generation is taken; other requests stay.
PendingServiceShutdown ==
  /\ pc = "service_scan"
  /\ LET i == Min(scan)
     IN /\ scan' = scan \ {i}
        /\ \/ /\ requests[i] # None /\ ~ValidGeneration(requests[i])
              /\ GoDaemon("quarantine") /\ cur' = [id |-> i, send |-> requests[i]]
           \/ /\ requests[i] # None /\ ValidGeneration(requests[i]) /\ requests[i].op = "shutdown"
              /\ GoDaemon("execute") /\ cur' = [id |-> i, send |-> requests[i]]
           \/ /\ requests[i] = None \/ (ValidGeneration(requests[i]) /\ requests[i].op # "shutdown")
              /\ GoDaemon(IF scan = {i} THEN "synthesise" ELSE "service_scan") /\ UNCHANGED cur
  /\ UNCHANGED <<owner, files, token, client, executed, errors>>

\* Without one the daemon makes a request of its own, which has no file.
Synthesise ==
  /\ pc = "synthesise" /\ GoDaemon("execute")
  /\ cur' = [id |-> -1, send |-> [NoSend EXCEPT !.op = "shutdown", !.target = gen]]
  /\ UNCHANGED <<owner, files, scan, token, client, executed, errors>>

-----------------------------------------------------------------------------
DaemonSteps ==
  \/ PendingControlRequests \/ ReadControlRequest \/ Quarantine \/ Execute \/ WriteResponse
  \/ RemoveRequest \/ Drain \/ WriteEvidence \/ WriteStopped \/ RemovePid \/ Release
  \/ ServiceStop \/ PendingServiceShutdown \/ Synthesise \/ EndWithError

Next ==
  \/ \E c \in Clients : ClientSteps(c)
  \/ DaemonSteps \/ Start \/ Crash \/ TickFails \/ RequestStop

Spec == Init /\ [][Next]_vars

\* The loop of a living daemon runs.
Fairness == WF_vars(DaemonSteps)
FairSpec == Spec /\ Fairness

-----------------------------------------------------------------------------
(* Properties.                                                             *)

SendType == [client : Clients, n : 1..MaxSends, target : 1..MaxGen, op : {"status", "mutate", "shutdown"}]

\* Every variable has its type.
TypeOK ==
  /\ gen \in 0..MaxGen /\ pidFile \in 0..MaxGen /\ evidence \in 0..MaxGen /\ drained \subseteq 1..MaxGen
  /\ lease \in {"none", "active", "released"} /\ status \in {"none", "running", "stopped"}
  /\ live \in BOOLEAN /\ token \in BOOLEAN /\ rejected \subseteq Sends /\ scan \subseteq Ids
  /\ \A i \in Ids : /\ requests[i] \in SendType \cup {None}
                    /\ responses[i] \in [send : Sends \cup {Key(NoSend)}, op : {"status", "mutate", "shutdown"}] \cup {None}
  /\ pc \in {"off", "loop", "scan", "quarantine", "execute", "respond", "remove", "evidence", "stop", "pid",
             "release", "service_scan", "synthesise", "error"}
  /\ \A c \in Clients : client[c].pc \in {"idle", "clear", "write", "wait", "answered", "timed_out", "refused"}

\* A request file is executed at most once, although its daemon may die after
\* the execution and before the removal and its successors find the file.
ExecutedOnce == \A s \in Sends : executed[s] <= 1

\* A client with an id of its own that gets an answer to a mutation has had the
\* mutation executed: by this send or by an earlier one that timed out.
AnswerIsOwn ==
  \A c \in Clients : client[c].pc = "answered" /\ Op[c] = "mutate" /\ (\A b \in Clients \ {c} : Id[b] # Id[c])
    => \E n \in 1..client[c].n : executed[[client |-> c, n |-> n]] > 0

\* A shutdown is reported only of a drained daemon: state, pid file and lease
\* also look stopped after an error or an operator's stop, and evidence of an
\* earlier generation's shutdown may be there.
ReleasedMeansDrained == FullyReleased => gen \in drained

=============================================================================
