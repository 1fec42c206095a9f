---------------------------- MODULE AgentDispatch ----------------------------
(***************************************************************************)
(* One event from its route to the Agents' answers: the topic scheduler    *)
(* and its bounded mailboxes (eva-scheduler), the Agent runtime with its   *)
(* attempts and its Lua handler (eva-agent, eva-lua-host), the in-memory   *)
(* event bus with its dead letters (eva-eventbus), and run_basic, which    *)
(* drives them (eva-runtime/src/basic.rs).  Beside that loop stand the     *)
(* decisions of the same layer: which providers a capability may use       *)
(* (eva-capability, capability_host.rs), and which generation new work is  *)
(* given (GenerationRouteGate and the daemon's reload control).            *)
(*                                                                         *)
(* An event, a script or an answer is a class of the ones the code tells   *)
(* apart; an absent identifier is "none".                                  *)
(***************************************************************************)
EXTENDS Naturals, Sequences, FiniteSets, SequencesExt

CONSTANTS Agents,     \* the Agents of the project
          RuleSets,   \* the routing tables a project may have
          Scripts,    \* the classes of Lua scripts an Agent may have
          Attempts,   \* the retry budgets a run may be given
          Capacity    \* of a mailbox (256 in the code)

None == "none"

(***************************************************************************)
(* Errors, as far as retries look at them.                                 *)
(***************************************************************************)
DefaultRetryable(kind) == kind \in {"timeout", "unavailable"}

Failure(kind) == [kind |-> kind, retryable |-> DefaultRetryable(kind)]

NoFailure == [kind |-> None, retryable |-> FALSE]

(***************************************************************************)
(* Topic routes.  A rule is [matches, delivery, agents].                   *)
(***************************************************************************)
MatchingRules(rules) == SelectSeq(rules, LAMBDA rule : rule.matches)

RuleAgents(rule) ==
    IF rule.delivery = "fanout" THEN rule.agents
    ELSE SubSeq(rule.agents, 1, IF rule.agents = <<>> THEN 0 ELSE 1)

\* The Agents an event is planned for, in the order of the rules; an Agent
\* that two rules name is planned twice.  The empty plan is NotFound.
Route(rules, target) ==
    IF target # None THEN <<target>>
    ELSE LET matching == MatchingRules(rules)
         IN  FlattenSeq([i \in 1 .. Len(matching) |-> RuleAgents(matching[i])])

\* deliver() puts the event into one mailbox after the other and stops at the
\* first that refuses; the ones before it keep their copy.
Refuses(plans, mailboxes, registered, i) ==
    LET before == Cardinality({j \in 1 .. (i - 1) : plans[j] = plans[i]})
    IN  \/ plans[i] \notin registered
        \/ mailboxes[plans[i]] + before >= Capacity

Accepted(plans, mailboxes, registered) ==
    CHOOSE n \in 0 .. Len(plans) :
        /\ \A i \in 1 .. n : ~Refuses(plans, mailboxes, registered, i)
        /\ n < Len(plans) => Refuses(plans, mailboxes, registered, n + 1)

\* Fault: an Agent that is planned twice gets one copy.
AfterDeliveryFault(plans, mailboxes, n) ==
    [a \in Agents |-> mailboxes[a] + Cardinality({plans[i] : i \in 1 .. n} \cap {a})]

AfterDelivery(plans, mailboxes, n) ==
    [a \in Agents |->
        mailboxes[a] + Cardinality({i \in 1 .. n : plans[i] = a})]

(***************************************************************************)
(* A Lua handler.  A script is "forbidden" (it names a host function the   *)
(* sandbox bans), "broken" (it does not load), "static" (it does not load, *)
(* but the compatibility parser takes it), "silent" (no on_event), or      *)
(* "handler".  What a handler does is one of Behaviours.                   *)
(***************************************************************************)
Behaviours == {"answers", "late", "asksBuiltin", "lateBuiltin", "asksUnknown",
               "loops", "grows", "throws", "malformed"}

Answer(capability, late) ==
    [ok |-> TRUE, capability |-> capability, late |-> late, error |-> NoFailure]

LuaFails(kind) ==
    [ok |-> FALSE, capability |-> None, late |-> FALSE, error |-> Failure(kind)]

CallHandler(behaviour) ==
    CASE behaviour = "answers" -> Answer(None, FALSE)
      [] behaviour = "late" -> Answer(None, TRUE)
      [] behaviour = "asksBuiltin" -> Answer("config.lint", FALSE)
      [] behaviour = "lateBuiltin" -> Answer("config.lint", TRUE)
      [] behaviour = "asksUnknown" -> Answer("other.name", FALSE)
      [] behaviour \in {"loops", "grows"} -> LuaFails("timeout")
      [] behaviour = "throws" -> LuaFails("internal")
      [] behaviour = "malformed" -> LuaFails("invalid_argument")

RunOnEvent(script, behaviour) ==
    CASE script = "forbidden" -> LuaFails("permission_denied")
      [] script \in {"broken", "silent"} -> LuaFails("invalid_argument")
      [] script = "static" -> Answer(None, FALSE)
      [] script = "handler" -> CallHandler(behaviour)

(***************************************************************************)
(* AgentRuntime::run_next_with_control.  control is [attempts, timeout,    *)
(* cancel]; a timeout is "none", "zero" or "some".  behaviours says what   *)
(* the handler would do on each attempt.                                   *)
(***************************************************************************)
MaxAttempts(control) == IF control.attempts = 0 THEN 1 ELSE control.attempts

AttemptError(control, result) ==
    IF control.timeout = "zero" THEN Failure("timeout")
    ELSE IF result.ok
         THEN IF control.timeout = "some" /\ result.late
              THEN Failure("timeout") ELSE NoFailure
         ELSE result.error

RunNext(control, script, behaviours) ==
    LET n == MaxAttempts(control)
        result(i) == RunOnEvent(script, behaviours[i])
        failure(i) == AttemptError(control, result(i))
        final(i) == ~failure(i).retryable \/ i = n
        last == CHOOSE i \in 1 .. n : final(i) /\ \A j \in 1 .. (i - 1) : ~final(j)
        called == IF control.timeout = "zero" THEN 0 ELSE last
    IN  IF control.cancel
        THEN [status |-> "cancelled", attempts |-> 0, results |-> <<>>,
              error |-> [kind |-> "conflict", retryable |-> FALSE]]
        ELSE [status |-> IF failure(last).kind = None THEN "handled"
                         ELSE IF failure(last).kind = "timeout" THEN "timed_out"
                         ELSE "failed",
              attempts |-> last,
              results |-> SelectSeq([i \in 1 .. called |-> result(i)],
                                    LAMBDA r : r.ok),
              error |-> failure(last)]

(***************************************************************************)
(* run_basic.                                                              *)
(***************************************************************************)
VARIABLES project,    \* the routing rules, the enabled Agents, their scripts
          options,    \* of this run
          mailbox,    \* copies of the event waiting for each Agent
          log,        \* the in-memory event log, in order
          letters,    \* dead letters, by how often each was replayed
          run         \* where run_basic is and what it has recorded

dispatchVars == <<project, options, mailbox, log, letters, run>>

Entry(id) == [id |-> id, status |-> "appended", consumer |-> None]

TypeOK ==
    /\ mailbox \in [Agents -> 0 .. Capacity]
    /\ \A i \in 1 .. Len(log) :
          /\ log[i].status \in {"appended", "acked", "failed"}
          /\ log[i].consumer \in Agents \union {None}
    /\ letters \in Seq(Nat)
    /\ run.pc \in {"publish", "deliver", "agents", "capability", "replay",
                   "reported", "refused"}
    /\ run.task \in {"running", "completed", "failed", "timed_out", "cancelled"}

DispatchInit ==
    /\ project \in [rules : RuleSets, enabled : SUBSET Agents,
                    script : [Agents -> Scripts]]
    /\ options \in [attempts : Attempts, timeout : {"none", "zero", "some"},
                    cancel : BOOLEAN, replay : BOOLEAN]
    /\ mailbox = [a \in Agents |-> 0]
    /\ log = <<>>
    /\ letters = <<>>
    /\ run = [pc |-> "publish", plans |-> <<>>, records |-> <<>>,
              asked |-> <<>>, task |-> "running", why |-> None]

Refuse(why) == [run EXCEPT !.pc = "refused", !.why = why]

\* The first event of a new bus: the log cannot refuse it.
Publish ==
    /\ run.pc = "publish"
    /\ log' = Append(log, Entry("evt"))
    /\ run' = [run EXCEPT !.pc = "deliver"]
    /\ UNCHANGED <<project, options, mailbox, letters>>

Deliver ==
    LET plans == Route(project.rules, None)
        n == Accepted(plans, mailbox, project.enabled)
    IN  /\ run.pc = "deliver"
        /\ mailbox' = AfterDelivery(plans, mailbox, n)
        /\ IF plans = <<>> \/ n < Len(plans)
           THEN /\ letters' = Append(letters, 0)
                /\ run' = Refuse("route")
           ELSE /\ run' = [run EXCEPT !.pc = "agents", !.plans = plans]
                /\ UNCHANGED letters
        /\ UNCHANGED <<project, options, log>>

\* transition_to_acked: only the same consumer may acknowledge again.
CanAck(agent) == log[1].status = "acked" => log[1].consumer = agent

\* transition_to_failed: an acknowledged event is settled.
CanFail == log[1].status # "acked"

Settled(status, agent) ==
    [log EXCEPT ![1].status = status, ![1].consumer = agent]

TaskAfter(record) ==
    CASE record.status = "handled" -> "completed"
      [] record.status = "cancelled" -> "cancelled"
      [] record.status = "timed_out" -> "timed_out"
      [] record.status = "failed" -> "failed"

Position == Len(run.records) + 1

\* One turn of the delivery loop: the event leaves the mailbox, the Agent runs
\* it, and the event is acknowledged, or recorded as a dead letter and failed.
\* A missing script file, a refused acknowledgement and a refused failure end
\* run_basic at once, whatever Agents are left.
RunAgent ==
    /\ run.pc = "agents"
    /\ Position <= Len(run.plans)
    /\ LET agent == run.plans[Position]
           script == project.script[agent]
       IN  /\ mailbox' = [mailbox EXCEPT ![agent] = @ - 1]
           /\ IF script = "missing"
              THEN run' = Refuse("script") /\ UNCHANGED <<log, letters>>
              ELSE \E behaviours \in [1 .. MaxAttempts(options) -> Behaviours] :
                     LET record == RunNext(options, script, behaviours)
                         handled == record.status = "handled"
                         recorded == IF handled THEN CanAck(agent) ELSE CanFail
                         next == [run EXCEPT
                            !.records = Append(@, [agent |-> agent,
                                                   status |-> record.status,
                                                   attempts |-> record.attempts,
                                                   recorded |-> recorded]),
                            !.asked = @ \o [i \in 1 .. Len(record.results) |->
                                               record.results[i].capability]]
                     IN  /\ letters' = IF handled THEN letters
                                       ELSE Append(letters, 0)
                         /\ IF recorded
                            THEN /\ log' = Settled(IF handled THEN "acked"
                                                   ELSE "failed", agent)
                                 /\ run' = [next EXCEPT !.task = TaskAfter(record)]
                            ELSE /\ run' = [next EXCEPT !.pc = "refused",
                                                        !.why = "log"]
                                 /\ UNCHANGED log
    /\ UNCHANGED <<project, options>>

AgentsDone ==
    /\ run.pc = "agents"
    /\ Position > Len(run.plans)
    /\ run' = [run EXCEPT !.pc = "capability"]
    /\ UNCHANGED <<project, options, mailbox, log, letters>>

\* The first Lua result that asks for a capability has it invoked; the built-in
\* router knows config.lint and runtime.echo.
FirstAsked == SelectSeq(run.asked, LAMBDA c : c # None)

InvokeFirstLuaCapability ==
    /\ run.pc = "capability"
    /\ run' = IF FirstAsked # <<>>
                  /\ FirstAsked[1] \notin {"config.lint", "runtime.echo"}
              THEN Refuse("capability")
              ELSE [run EXCEPT !.pc = "replay"]
    /\ UNCHANGED <<project, options, mailbox, log, letters>>

\* replay_all_for_publish names every event it replays after the letter's event
\* and the letter's own count; publish refuses a name the log already has, and
\* the events before it stay published.
ReplayId(count) == <<"evt:replay", count>>

ReplayDeadLetters ==
    /\ run.pc = "replay"
    /\ IF options.replay
       THEN LET ids == [i \in 1 .. Len(letters) |-> ReplayId(letters[i] + 1)]
                published == CHOOSE n \in 0 .. Len(ids) :
                    /\ \A i, j \in 1 .. n : i # j => ids[i] # ids[j]
                    /\ n < Len(ids) => \E i \in 1 .. n : ids[i] = ids[n + 1]
            IN  /\ letters' = [i \in 1 .. Len(letters) |-> letters[i] + 1]
                /\ log' = log \o [i \in 1 .. published |-> Entry(ids[i])]
                /\ run' = IF published < Len(ids) THEN Refuse("replay")
                          ELSE [run EXCEPT !.pc = "reported"]
       ELSE /\ run' = [run EXCEPT !.pc = "reported"]
            /\ UNCHANGED <<log, letters>>
    /\ UNCHANGED <<project, options, mailbox>>

DispatchNext ==
    \/ Publish
    \/ Deliver
    \/ RunAgent
    \/ AgentsDone
    \/ InvokeFirstLuaCapability
    \/ ReplayDeadLetters

(***************************************************************************)
(* What the loop promises.                                                 *)
(***************************************************************************)

\* A run that reports has run every Agent it planned, once for each time it was
\* planned, left no copy of the event in a mailbox, and left a dead letter for
\* every run that did not handle the event (basic.rs, subscription.rs).
ReportedMeansRun ==
    run.pc = "reported" =>
        /\ Len(run.records) = Len(run.plans)
        /\ \A i \in 1 .. Len(run.plans) : run.records[i].agent = run.plans[i]
        /\ \A a \in Agents : mailbox[a] = 0
        /\ Len(letters) = Cardinality({i \in 1 .. Len(run.records) :
                                          run.records[i].status # "handled"})

\* A cancelled run never calls a handler, and no run calls one more often than
\* its budget allows: a capability is asked for only by attempts that were made
\* (run_next_with_control).
CancelledNeverCalls ==
    /\ options.cancel \/ options.timeout = "zero" => run.asked = <<>>
    /\ \A i \in 1 .. Len(run.records) :
          run.records[i].attempts <= MaxAttempts(options)
    /\ Len(run.asked) <= Len(run.records) * MaxAttempts(options)

\* basic.rs:106-107 says that every Agent's delivery is acknowledged once the
\* Agent succeeded.  A fanout rule with two Agents that both handle the event
\* breaks it: the log refuses the second consumer.
HandledIsAcked ==
    \A i \in 1 .. Len(run.records) :
        run.records[i].status = "handled" => run.records[i].recorded

(***************************************************************************)
(* Capability providers.  A descriptor is [name, enabled, manifest,        *)
(* default, fallbacks, required]; permissions are [capabilities,           *)
(* adapters], the explicitly allowed ones.                                 *)
(***************************************************************************)
Register(registry, descriptor) ==
    IF \E i \in 1 .. Len(registry) : registry[i].name = descriptor.name
    THEN registry ELSE Append(registry, descriptor)

PushUnique(providers, provider) ==
    IF provider = None \/ provider \in ToSet(providers) THEN providers
    ELSE Append(providers, provider)

ManifestProviders(d) ==
    FoldLeft(PushUnique, <<>>, <<d.manifest, d.default>> \o d.fallbacks)

PlanFor(d, explicit) ==
    [capability |-> d.name,
     providers |-> FoldLeft(PushUnique, <<>>,
                            <<explicit, d.manifest, d.default>> \o d.fallbacks),
     allowed |-> ToSet(ManifestProviders(d)),
     required |-> d.required]

EnsureProviderAllowed(permissions, plan, provider) ==
    /\ plan.capability \in permissions.capabilities
    /\ plan.required \subseteq permissions.capabilities
    /\ provider \in permissions.adapters
    /\ provider \in plan.allowed

EnsurePlanAllowed(permissions, plan) ==
    /\ plan.capability \in permissions.capabilities
    /\ plan.required \subseteq permissions.capabilities
    /\ \A provider \in ToSet(plan.providers) :
          EnsureProviderAllowed(permissions, plan, provider)

\* What the router answers before a provider is called.
AuthorizedProviderPlan(registry, capability, explicit, permissions) ==
    LET known == SelectSeq(registry, LAMBDA d : d.name = capability)
        refused(kind) == [error |-> Failure(kind), providers |-> <<>>]
    IN  IF known = <<>> THEN refused("not_found")
        ELSE IF ~known[1].enabled THEN refused("permission_denied")
        ELSE IF ~EnsurePlanAllowed(permissions, PlanFor(known[1], explicit))
             THEN refused("permission_denied")
        ELSE [error |-> NoFailure,
              providers |-> PlanFor(known[1], explicit).providers]

\* The error a provider's report stands for; "error:kind" is a call that failed.
ReportError(status) ==
    CASE status = "timeout" -> Failure("timeout")
      [] status = "output_limit_exceeded" -> Failure("conflict")
      [] status = "crashed" -> Failure("unavailable")
      [] status = "refused" -> Failure("permission_denied")
      [] status = "completed" -> NoFailure

ResponseFromError(failure, tried) ==
    [status |-> IF failure.kind = "timeout" THEN "timeout" ELSE "failed",
     error |-> failure, tried |-> tried]

\* AdapterBackedCapabilityHost::invoke_with_provider: the providers are tried in
\* the plan's order until one completes or fails for good.
TryProviders(plan, reports) ==
    LET n == Len(plan.providers)
        failure(i) == ReportError(reports[plan.providers[i]])
        stop(i) == ~failure(i).retryable \/ i = n
        last == CHOOSE i \in 1 .. n : stop(i) /\ \A j \in 1 .. (i - 1) : ~stop(j)
        tried == SubSeq(plan.providers, 1, last)
    IN  IF plan.error # NoFailure THEN ResponseFromError(plan.error, <<>>)
        ELSE IF n = 0 THEN ResponseFromError(Failure("unsupported"), <<>>)
        ELSE IF failure(last) = NoFailure
             THEN [status |-> "completed", error |-> NoFailure, tried |-> tried]
             ELSE ResponseFromError(failure(last), tried)

InvokeWithProvider(registry, capability, explicit, permissions, reports) ==
    TryProviders(AuthorizedProviderPlan(registry, capability, explicit, permissions), reports)

\* No provider is called that the caller may not use or the manifest does not
\* name, none is called twice, an explicitly requested one is called first, and
\* a later one is called only when every earlier one failed for now
\* (capability_host.rs, gate.rs, selection.rs).
ProvidersAreAuthorized(registry, capability, explicit, permissions, reports) ==
    \A response \in {InvokeWithProvider(registry, capability, explicit,
                                        permissions, reports)} :
    LET tried == response.tried
    IN  /\ IsInjective(tried)
        /\ \A i \in 1 .. Len(tried) :
              /\ tried[i] \in permissions.adapters
              /\ capability \in permissions.capabilities
              /\ \E d \in ToSet(registry) :
                    /\ d.name = capability
                    /\ d.enabled
                    /\ tried[i] \in {d.manifest, d.default} \union ToSet(d.fallbacks)
                    /\ d.required \subseteq permissions.capabilities
              /\ i < Len(tried) => ReportError(reports[tried[i]]).retryable
        /\ tried # <<>> /\ explicit # None => tried[1] = explicit
        /\ response.status = "completed" =>
              /\ tried # <<>>
              /\ reports[tried[Len(tried)]] = "completed"

(***************************************************************************)
(* The route gate between generations.  A gate is [active, candidate,      *)
(* healthy]; an operation names the generation its caller means.  A        *)
(* generation is a nonempty tuple of name parts.                           *)
(***************************************************************************)
NoGeneration == <<>>

NewGate(active) == [active |-> active, candidate |-> NoGeneration, healthy |-> FALSE]

StartCandidate(gate, g) ==
    IF g = gate.active \/ gate.candidate # NoGeneration THEN gate
    ELSE [gate EXCEPT !.candidate = g, !.healthy = FALSE]

MarkCandidateShadowHealthy(gate, g) ==
    IF gate.candidate = NoGeneration \/ gate.candidate # g THEN gate
    ELSE [gate EXCEPT !.healthy = TRUE]

RejectCandidateShadow(gate, g) ==
    IF gate.candidate = NoGeneration \/ gate.candidate # g THEN gate
    ELSE [gate EXCEPT !.candidate = NoGeneration, !.healthy = FALSE]

SelectedGenerationForNewWork(gate) ==
    IF gate.candidate # NoGeneration /\ gate.healthy THEN gate.candidate ELSE gate.active

GateStep(gate, op) ==
    CASE op.kind = "start" -> StartCandidate(gate, op.g)
      [] op.kind = "healthy" -> MarkCandidateShadowHealthy(gate, op.g)
      [] op.kind = "reject" -> RejectCandidateShadow(gate, op.g)

AfterOps(active, ops) == FoldLeft(GateStep, NewGate(active), ops)

\* A generation gets new work only if some call found it healthy as the
\* candidate and no later call rejected it (generation.rs).
GateFollowsHealth(active, ops) ==
    LET selected == SelectedGenerationForNewWork(AfterOps(active, ops))
        found(i) == /\ ops[i] = [kind |-> "healthy", g |-> selected]
                    /\ AfterOps(active, SubSeq(ops, 1, i)).candidate = selected
        rejected(i) == ops[i] = [kind |-> "reject", g |-> selected]
    IN  selected # active =>
            \E i \in 1 .. Len(ops) :
                found(i) /\ \A j \in (i + 1) .. Len(ops) : ~rejected(j)

\* LuaShadowLoader: a candidate generation is healthy if each of its scripts
\* answers a health event; its tools are stubs, so a call to one succeeds.
ShadowLoad(scripts, behaviours) ==
    IF scripts = <<>> THEN "refused"
    ELSE IF \A i \in 1 .. Len(scripts) : RunOnEvent(scripts[i], behaviours[i]).ok
         THEN "healthy" ELSE "rejected"

(***************************************************************************)
(* The daemon's reload and drain controls of an Agent.  A request is       *)
(* [id, from, to, release, inflight, timeout]; "none" is a field left out. *)
(***************************************************************************)
DrainPlan(generation, inflight, timeout) ==
    [ok |-> timeout # 0, generation |-> generation, inflight |-> inflight,
     acceptsNewWork |-> FALSE,
     status |-> IF inflight = 0 THEN "completed" ELSE "planned"]

ReloadTarget(request) ==
    LET from == IF request.from = None THEN "gen-daemon" ELSE request.from
        to == IF request.to = None THEN <<request.id, "candidate">>
              ELSE <<request.to>>
    IN  [from |-> <<from>>, to |-> IF to = <<from>> THEN Append(to, "next") ELSE to]

\* The checkpoint apply_agent_reload_control publishes once every step of the
\* swap was taken: candidate started, found healthy, promoted, old one drained.
AgentReload(request) ==
    LET target == ReloadTarget(request)
        gate == MarkCandidateShadowHealthy(
                    StartCandidate(NewGate(target.from), target.to), target.to)
        drain == DrainPlan(target.from, request.inflight, request.timeout)
    IN  IF request.release = "blank" \/ ~drain.ok
        THEN [written |-> FALSE, active |-> <<>>, previous |-> <<>>,
              selected |-> <<>>, drained |-> <<>>]
        ELSE [written |-> TRUE, active |-> target.to, previous |-> target.from,
              selected |-> SelectedGenerationForNewWork(gate),
              drained |-> drain.generation]

\* A written reload names one generation as active and as the one new work is
\* given, and drains another one (daemon.rs apply_agent_reload_control).
ReloadIsOneSwap(request) ==
    LET r == AgentReload(request)
    IN  r.written => /\ r.active = r.selected
                     /\ r.drained = r.previous
                     /\ r.active # r.previous

\* A candidate gets new work after a shadow load that found it healthy, which
\* takes at least one script and an answer from every one of them, the tools they
\* call being stubs; otherwise the active generation keeps the work.
ShadowDecidesTheGate(active, candidate, scripts, behaviours) ==
    LET verdict == ShadowLoad(scripts, behaviours)
        found == IF verdict = "refused" THEN <<>>
                 ELSE <<[kind |-> IF verdict = "healthy" THEN "healthy" ELSE "reject", g |-> candidate]>>
        gate == AfterOps(active, <<[kind |-> "start", g |-> candidate]>> \o found)
        answers(i) == scripts[i] = "static" \/ (scripts[i] = "handler" /\ CallHandler(behaviours[i]).ok)
    IN  SelectedGenerationForNewWork(gate) =
            IF scripts # <<>> /\ \A i \in DOMAIN scripts : answers(i) THEN candidate ELSE active
=============================================================================
