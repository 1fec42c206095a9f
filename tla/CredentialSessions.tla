------------------------- MODULE CredentialSessions -------------------------
(***************************************************************************)
(* Credential sessions of a provider vault (credential_vault.rs): a lease  *)
(* owns the session it opened until it is released; a lease dropped with   *)
(* its session hands it to the one finalizer thread of the process, which  *)
(* releases it on a worker thread.  A release that fails is tried again    *)
(* only when a drain authorizes it.                                        *)
(*                                                                         *)
(* A session is at one place at a time: "none", "open" (its lease owns     *)
(* it), "deferring" (counted, not yet sent), "sent", "pending", "running", *)
(* "finished" (its worker has an outcome), "quarantined" (its worker       *)
(* panicked with it), "guarded" (a background owner outside the            *)
(* finalizer), "released".                                                 *)
(***************************************************************************)
EXTENDS Naturals, Sequences, FiniteSets, SequencesExt

CONSTANTS Sessions, Drains, MaxWorkers

VARIABLES session,   \* where each session is, the epoch of its last attempt, its outcome
          progress,  \* CredentialFinalizerProgress of the one scope there is
          channel,   \* commands sent to the finalizer: a session or a drain each
          finalizer, \* its place in the loop, pending sessions, authorization
          drain      \* where each drain is, whether its deadline has passed

vars == <<session, progress, channel, finalizer, drain>>
NoSession == [at |-> "none", attempted |-> FALSE, epoch |-> 0, deadline |-> {}, end |-> "none", tries |-> 0]
Init ==
    /\ session = [s \in Sessions |-> NoSession]
    /\ progress = [outstanding |-> 0, pending |-> 0, running |-> 0, quarantined |-> 0]
    /\ channel = <<>>
    /\ finalizer = [at |-> "receive", pending |-> <<>>, left |-> 0, epoch |-> 0, deadline |-> {}, acks |-> {}]
    /\ drain = [d \in Drains |-> [at |-> "idle", acked |-> FALSE, expired |-> FALSE, result |-> "none"]]

At(place) == {s \in Sessions : session[s].at = place}
Moved(s, place) == [session EXCEPT ![s].at = place]
UpdateProgress(outstanding, pending, running) ==
    progress' = [progress EXCEPT !.outstanding = @ + outstanding, !.pending = @ + pending,
                                 !.running = @ + running]

-----------------------------------------------------------------------------
(* A lease.                                                                  *)

\* open: the finalizer is started first, then the session is opened and its references fetched.
Open(s) == /\ session[s].at = "none" /\ session' = Moved(s, "open")
           /\ UNCHANGED <<progress, channel, finalizer, drain>>
\* CredentialSessionLease::release; on an error the lease keeps its session, and is dropped with it.
Release(s) == /\ session[s].at = "open" /\ session' = Moved(s, "released")
              /\ UNCHANGED <<progress, channel, finalizer, drain>>
\* Drop and defer_credential_release: the counters first, then the command.
Defer(s) ==
    /\ session[s].at = "open"
    /\ session' = Moved(s, "deferring") /\ UpdateProgress(1, 1, 0)
    /\ UNCHANGED <<channel, finalizer, drain>>
SendEnqueue(s) ==
    /\ session[s].at = "deferring"
    /\ session' = Moved(s, "sent") /\ channel' = Append(channel, <<"enqueue", s>>)
    /\ UNCHANGED <<progress, finalizer, drain>>
\* track_running_credential_finalizer_owner and the guard's Drop: a release under way elsewhere counts as running.
TrackRunning(s) ==
    /\ session[s].at = "open"
    /\ session' = Moved(s, "guarded") /\ UpdateProgress(1, 0, 1)
    /\ UNCHANGED <<channel, finalizer, drain>>
DropGuard(s) ==
    /\ session[s].at = "guarded"
    /\ session' = Moved(s, "released")
    /\ progress' = [progress EXCEPT !.outstanding = @ - 1, !.running = @ - 1]
    /\ UNCHANGED <<channel, finalizer, drain>>

-----------------------------------------------------------------------------
(* The finalizer thread, one turn of its loop, and its workers.              *)

\* apply_credential_finalizer_command, to everything the channel holds.
ApplyCommand(f, command) ==
    IF command[1] = "enqueue" THEN [f EXCEPT !.pending = Append(@, command[2])]
    ELSE [f EXCEPT !.epoch = @ + 1, !.deadline = {command[2]}, !.acks = @ \cup {command[2]}]
ReceiveCommands ==
    /\ finalizer.at = "receive"
    /\ finalizer' = [FoldLeft(ApplyCommand, finalizer, channel) EXCEPT !.at = "reap"]
    /\ session' = [s \in Sessions |-> IF session[s].at = "sent" THEN [session[s] EXCEPT !.at = "pending"] ELSE session[s]]
    /\ channel' = <<>>
    /\ UNCHANGED <<progress, drain>>
\* reap_credential_release_workers, one finished worker at a time; a failed release is pending
\* again, and a session lost in a panic stays outstanding for good.
ReapWorker(s) ==
    /\ finalizer.at = "reap" /\ session[s].at = "finished"
    /\ \/ /\ session[s].end = "released" /\ session' = Moved(s, "released") /\ UNCHANGED finalizer
          /\ progress' = [progress EXCEPT !.outstanding = @ - 1, !.running = @ - 1]
       \/ /\ session[s].end = "failed" /\ session' = Moved(s, "pending")
          /\ finalizer' = [finalizer EXCEPT !.pending = Append(@, s)]
          /\ progress' = [progress EXCEPT !.pending = @ + 1, !.running = @ - 1]
       \/ /\ session[s].end = "panicked" /\ session' = Moved(s, "quarantined") /\ UNCHANGED finalizer
          /\ progress' = [progress EXCEPT !.quarantined = @ + 1, !.running = @ - 1]
    /\ UNCHANGED <<channel, drain>>
ReapEnds ==
    /\ finalizer.at = "reap" /\ At("finished") = {}
    /\ finalizer' = [finalizer EXCEPT !.at = "launch", !.left = Len(finalizer.pending)]
    /\ UNCHANGED <<session, progress, channel, drain>>
Live(deadline) == \E d \in deadline : ~drain[d].expired
Workers == Cardinality(At("running") \cup At("finished"))
RetryIsAuthorized(s) ==
    session[s].attempted => session[s].epoch < finalizer.epoch /\ Live(finalizer.deadline)
\* One pass over what was pending when the pass began; what may not run now goes to the back.
LaunchNext ==
    /\ finalizer.at = "launch" /\ finalizer.left > 0
    /\ LET s == Head(finalizer.pending)
           rest == Tail(finalizer.pending)
       IN \/ /\ Workers >= MaxWorkers \/ ~RetryIsAuthorized(s)
             /\ finalizer' = [finalizer EXCEPT !.pending = Append(rest, s), !.left = @ - 1]
             /\ UNCHANGED <<session, progress>>
          \/ /\ Workers < MaxWorkers /\ RetryIsAuthorized(s)
             /\ finalizer' = [finalizer EXCEPT !.pending = rest, !.left = @ - 1]
             /\ session' = [session EXCEPT ![s].at = "running", ![s].attempted = TRUE, ![s].epoch = finalizer.epoch,
                                           ![s].deadline = IF session[s].attempted THEN finalizer.deadline ELSE {}]
             /\ progress' = [progress EXCEPT !.pending = @ - 1, !.running = @ + 1]
          \* The worker thread could not be started: an attempt all the same, and still pending.
          \/ /\ Workers < MaxWorkers /\ RetryIsAuthorized(s)
             /\ finalizer' = [finalizer EXCEPT !.pending = Append(rest, s), !.left = @ - 1]
             /\ session' = [session EXCEPT ![s].attempted = TRUE, ![s].epoch = finalizer.epoch]
             /\ UNCHANGED progress
    /\ UNCHANGED <<channel, drain>>
Acknowledge ==
    /\ finalizer.at = "launch" /\ finalizer.left = 0
    /\ finalizer' = [finalizer EXCEPT !.at = "receive", !.acks = {}]
    /\ drain' = [d \in Drains |-> IF d \in finalizer.acks THEN [drain[d] EXCEPT !.acked = TRUE] ELSE drain[d]]
    /\ UNCHANGED <<session, progress, channel>>
\* The worker: a retry whose deadline has passed fails without calling release.
RunRelease(s) ==
    /\ session[s].at = "running"
    /\ \E end \in {"released", "failed", "panicked"} :
         /\ (session[s].deadline # {} /\ ~Live(session[s].deadline)) => end = "failed"
         /\ session' = [session EXCEPT ![s].at = "finished", ![s].end = end, ![s].tries = @ + 1]
    /\ UNCHANGED <<progress, channel, finalizer, drain>>

-----------------------------------------------------------------------------
(* drain_deferred_credential_releases_until.                                 *)

DrainTo(d, at, result) == drain' = [drain EXCEPT ![d].at = at, ![d].result = result]
StartDrain(d) ==
    /\ drain[d].at = "idle"
    /\ IF progress.outstanding = 0
       THEN DrainTo(d, "done", IF drain[d].expired THEN "timeout" ELSE "ok")
       ELSE DrainTo(d, "send", "none")
    /\ UNCHANGED <<session, progress, channel, finalizer>>
SendRetry(d) ==
    /\ drain[d].at = "send" /\ DrainTo(d, "sent", "none")
    /\ channel' = Append(channel, <<"retry", d>>)
    /\ UNCHANGED <<session, progress, finalizer>>
\* The acknowledgement, then the counters, until the deadline.
AwaitAck(d) ==
    /\ drain[d].at = "sent"
    /\ \/ drain[d].expired /\ DrainTo(d, "done", "timeout")
       \/ drain[d].acked /\ ~drain[d].expired /\ DrainTo(d, "wait", "none")
    /\ UNCHANGED <<session, progress, channel, finalizer>>
AwaitOutstanding(d) ==
    /\ drain[d].at = "wait"
    /\ \/ drain[d].expired /\ DrainTo(d, "done", "timeout")
       \/ ~drain[d].expired /\ progress.outstanding = 0 /\ DrainTo(d, "done", "ok")
    /\ UNCHANGED <<session, progress, channel, finalizer>>
Expire(d) == /\ ~drain[d].expired /\ drain[d].at # "done"
             /\ drain' = [drain EXCEPT ![d].expired = TRUE]
             /\ UNCHANGED <<session, progress, channel, finalizer>>

FinalizerSteps == ReceiveCommands \/ ReapEnds \/ LaunchNext \/ Acknowledge \/ \E s \in Sessions : ReapWorker(s)
WorkerSteps == \E s \in Sessions : RunRelease(s)
DrainSteps == \E d \in Drains : SendRetry(d) \/ AwaitAck(d) \/ AwaitOutstanding(d)
Next ==
    \/ FinalizerSteps \/ WorkerSteps \/ DrainSteps
    \/ \E s \in Sessions : Open(s) \/ Release(s) \/ Defer(s) \/ SendEnqueue(s) \/ TrackRunning(s) \/ DropGuard(s)
    \/ \E d \in Drains : StartDrain(d) \/ Expire(d)
Spec == Init /\ [][Next]_vars

-----------------------------------------------------------------------------
(* Properties.                                                               *)

Owed == At("deferring") \cup At("sent") \cup At("pending") \cup At("running") \cup At("finished") \cup At("guarded")
        \cup At("quarantined")
\* The counters a drain decides by are the sessions that still have to be released, at every moment.
CountersAreTrue ==
    /\ progress.outstanding = Cardinality(Owed)
    /\ progress.quarantined = Cardinality(At("quarantined"))
    /\ progress.running = Cardinality(At("running") \cup At("finished") \cup At("guarded"))
    /\ progress.pending = Cardinality(At("deferring") \cup At("sent") \cup At("pending"))
    /\ \A s \in Sessions : (session[s].at = "pending") = (s \in ToSet(finalizer.pending))
\* A drain that reports success does so when no session is left to release.
DrainedMeansReleased ==
    [][\A d \in Drains : (drain[d].result # "ok" /\ drain'[d].result = "ok") => Owed = {}]_vars
\* A failing release is not hammered: beyond its first attempt, every further one was paid for by a drain.
RetriesAreAuthorized == \A s \in Sessions : session[s].tries <= 1 + Cardinality({d \in Drains : drain[d].at \notin {"idle", "send"}})

-----------------------------------------------------------------------------
(* What a lease resolves.  refs is a sequence of [env, ref]; fetched gives   *)
(* a secret for every reference, "" for an empty and "none" for a missing    *)
(* one.  A lease is [values, redactions, allowed], <<>> a failed open.       *)

OpenWithLazyEnv(refs, legacy, lazy, fetched) ==
    LET envOf   == [i \in DOMAIN refs |-> refs[i].env]
        first   == [e \in ToSet(envOf) |-> fetched[refs[SelectLastInSeq(envOf, LAMBDA x : x = e)].ref]]
        legacyOnly == legacy \ DOMAIN first
        used    == {fetched[refs[i].ref] : i \in DOMAIN refs} \cup {fetched[e] : e \in legacyOnly}
    IN IF {"", "none"} \cap used # {} THEN <<>>
       ELSE <<[values |-> [e \in DOMAIN first \cup legacyOnly |-> IF e \in DOMAIN first THEN first[e] ELSE fetched[e]],
               redactions |-> used, allowed |-> ToSet(envOf) \cup legacy \cup lazy]>>
\* resolve_env: an allowed name not yet read is fetched, and remembered for redaction.
ResolveEnv(lease, name, fetched) ==
    IF name \notin lease.allowed THEN <<"denied", lease>>
    ELSE IF name \in DOMAIN lease.values THEN <<lease.values[name], lease>>
    ELSE IF fetched[name] \in {"", "none"} THEN <<"denied", lease>>
    ELSE <<fetched[name], [lease EXCEPT !.values = [e \in DOMAIN @ \cup {name} |-> IF e = name THEN fetched[name] ELSE @[e]],
                                        !.redactions = @ \cup {fetched[name]}]>>
\* resolve_reference: a vault reference must be declared once, and stands for its environment name.
ResolveReference(lease, reference, refs, fetched) ==
    LET declared == {i \in DOMAIN refs : refs[i].ref = reference}
    IN IF Cardinality(declared) # 1 THEN <<"denied", lease>>
       ELSE ResolveEnv(lease, refs[CHOOSE i \in declared : TRUE].env, fetched)
\* Every secret a provider was given, by injection or by a lookup, is known to the redaction that
\* guards its output, and is the secret of a declared name; a reference gives what its one name gives.
GivenIsRedacted(refs, legacy, lazy, fetched, name) ==
    LET lease == OpenWithLazyEnv(refs, legacy, lazy, fetched)
        after == ResolveEnv(lease[1], name, fetched)
    IN lease # <<>> =>
         /\ {lease[1].values[e] : e \in DOMAIN lease[1].values} \subseteq lease[1].redactions
         /\ DOMAIN lease[1].values \subseteq lease[1].allowed
         /\ after[1] # "denied" => after[1] \in after[2].redactions /\ name \in lease[1].allowed
         /\ \A i \in DOMAIN refs :
               LET found == ResolveReference(lease[1], refs[i].ref, refs, fetched)
               IN  IF \E j \in DOMAIN refs \ {i} : refs[j].ref = refs[i].ref THEN found[1] = "denied"
                   ELSE found = ResolveEnv(lease[1], refs[i].env, fetched) /\ (found[1] # "denied" => found[1] \in found[2].redactions)
=============================================================================
