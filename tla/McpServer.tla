----------------------------- MODULE McpServer -----------------------------
(***************************************************************************)
(* The loopback MCP server of eva-mcp: the serving thread of               *)
(* server_transport.rs that takes one connection at a time, the sessions   *)
(* it opens, and the shutdown handle another thread holds; and the surface *)
(* of explicitly exposed tools of server.rs.                               *)
(*                                                                         *)
(* A request head is a record of what its checks look at; JSON texts are   *)
(* records of their fields.  Lengths are "ok" or beyond the limit.         *)
(***************************************************************************)
EXTENDS Integers, Sequences, FiniteSets

CONSTANTS SessionIds,     \* ids the random source returns, all different
          Peers,          \* loopback addresses of clients
          MaxSessions,    \* config.max_sessions
          MaxConnections  \* bound on accepted connections

\* The status of the first check that fails, or `pass`.
FirstRefusal(checks, pass) ==
    LET failing == {i \in DOMAIN checks : checks[i][1]}
    IN  IF failing = {} THEN pass
        ELSE checks[CHOOSE i \in failing : \A j \in failing : i <= j][2]

-----------------------------------------------------------------------------
(* Reading a request head. *)

\* What ends the head before its headers are complete, and the answer.
FramingStatus ==
    [limit |-> 431, timeout |-> 408, torn |-> 400, line |-> 400,
     folded |-> 400, header |-> 400, duplicate |-> 400, many |-> 431]

\* The q-values of one Accept entry: a second q or an unreadable one drops the
\* entry, none is full quality.
EntryQuality(qs) ==
    IF Len(qs) > 1 \/ \E i \in DOMAIN qs : qs[i] = "bad" THEN -1
    ELSE IF qs = <<>> THEN 1000 ELSE IF Head(qs) = "0" THEN 0 ELSE 500

Specificity(media) ==
    IF media = "application/json" THEN 2
    ELSE IF media = "application/*" THEN 1 ELSE IF media = "*/*" THEN 0 ELSE -1

\* The entry that decides: the most specific one, of those the best quality.
AcceptsJson(entries) ==
    LET known == {i \in DOMAIN entries :
                    Specificity(entries[i].media) >= 0 /\ EntryQuality(entries[i].q) >= 0}
        top == {i \in known : \A j \in known :
                    Specificity(entries[j].media) <= Specificity(entries[i].media)}
    IN  \E i \in top : EntryQuality(entries[i].q) > 0

\* Reading the entries from left to right, as the code does: the pair kept so
\* far is replaced by a more specific entry or a better one of equal weight.
RECURSIVE SelectAccept(_, _)
SelectAccept(kept, entries) ==
    IF entries = <<>> THEN kept
    ELSE LET e == Head(entries)
             s == Specificity(e.media)
             q == EntryQuality(e.q)
         IN  SelectAccept(
               IF \/ s < 0 \/ q < 0
                  \/ kept.s > s
                  \/ kept.s = s /\ kept.q >= q
               THEN kept ELSE [s |-> s, q |-> q],
               Tail(entries))

AcceptsJsonScan(entries) == SelectAccept([s |-> -1, q |-> 0], entries).q > 0

IsJsonContentType(c) == c.media = "application/json" /\ c.parameters \subseteq {"charset=utf-8"}

\* The checks of the head once its lines are read; 0 admits it.
ValidateRequestHead(h) ==
    FirstRefusal(
      << <<h.target # "endpoint", 404>>,
         <<h.host # "bound", 421>>,
         <<h.origin \notin {"absent", "allowed"}, 403>>,
         <<h.method = "POST" /\ ~IsJsonContentType(h.contentType), 415>>,
         <<h.method = "POST" /\ ~AcceptsJsonScan(h.accept), 406>>,
         <<h.method = "DELETE" /\ h.length # "zero", 400>>,
         <<h.method \notin {"POST", "DELETE"}, 405>> >>, 0)

ReadHttpRequest(h) ==
    FirstRefusal(
      << <<h.framing # "ok", IF h.framing = "ok" THEN 0 ELSE FramingStatus[h.framing]>>,
         <<h.host = "absent", 400>>,
         <<h.control # {}, 400>>,
         <<h.length = "unreadable", 400>>,
         <<h.method = "POST" /\ h.length = "absent", 411>>,
         <<ValidateRequestHead(h) # 0, ValidateRequestHead(h)>>,
         <<h.length = "over", 413>>,
         <<h.body = "stalled", 408>>,
         <<h.body \in {"short", "binary"}, 400>> >>, 0)

\* The same checks made again when the admitted request is dispatched.
DispatchHead(h) ==
    FirstRefusal(
      << <<h.target # "endpoint", 404>>,
         <<h.host # "bound", 421>>,
         <<h.origin \notin {"absent", "allowed"}, 403>>,
         <<h.method \notin {"POST", "DELETE"}, 405>>,
         <<h.method = "POST" /\ ~IsJsonContentType(h.contentType), 415>>,
         <<h.method = "POST" /\ ~AcceptsJsonScan(h.accept), 406>>,
         <<h.method = "DELETE" /\ h.length \notin {"absent", "zero"}, 400>> >>, 0)

-----------------------------------------------------------------------------
(* The surface: tools, their schemas and their arguments. *)

\* parse: only strings, only declared properties, every required one declared
\* and named once.
SchemaParses(s) ==
    /\ s.unknown = {}
    /\ s.type = "object"
    /\ s.additional = "false"
    /\ \A p \in DOMAIN s.properties : s.properties[p] = "string"
    /\ \A i \in DOMAIN s.required :
         /\ s.required[i] \in DOMAIN s.properties
         /\ \A j \in DOMAIN s.required : s.required[i] = s.required[j] => i = j

ToolValid(t) == t.name = "stable" /\ t.description = "display" /\ SchemaParses(t.schema)

SurfaceNew(tools) ==
    FirstRefusal(
      << <<tools = <<>>, "empty">>,
         <<\E i \in DOMAIN tools : ~ToolValid(tools[i]), "invalid">>,
         <<\E i, j \in DOMAIN tools : i # j /\ tools[i].id = tools[j].id, "duplicate">> >>,
      "ok")

\* from_listener: the server itself is stricter than its surface.
ServerConfigured(c) ==
    FirstRefusal(
      << <<~c.pathValid, "path">>,
         <<~c.boundsValid, "bounds">>,
         <<~c.originsValid, "origin">>,
         <<~c.loopback, "bind">>,
         <<c.sideEffects, "surface">>,
         <<c.origins # {} /\ c.origins # {"own"}, "origin_not_bound">> >>, "ok")

\* Arguments are a function from names to "string" or another type.
ValidateArguments(s, args) ==
    FirstRefusal(
      << <<~(DOMAIN args \subseteq DOMAIN s.properties), "unknown">>,
         <<\E i \in DOMAIN s.required : s.required[i] \notin DOMAIN args, "missing">>,
         <<\E p \in DOMAIN args : args[p] # "string", "type">> >>, "ok")

\* What a handler reads of admitted arguments by name.
StringArgument(args, p) ==
    IF p \notin DOMAIN args THEN "none" ELSE IF args[p] = "string" THEN "value" ELSE "error"

\* A handler that takes no declared argument at its word.
RequireOnlyArguments(args, allowed) == DOMAIN args \subseteq allowed

-----------------------------------------------------------------------------
(* The serving thread. *)

VARIABLES sessions,   \* the session table: id -> [peer, phase]
          requested,  \* the shutdown flag
          slot,       \* the active stream: "none", "open" or "cut"
          pc,         \* where the serving thread is
          conn,       \* the peer and the request of this connection
          reply,      \* the response and the action to commit after it
          late,       \* the deadline of this connection has passed
          handle,     \* where the thread calling shutdown() is
          told,       \* ids a client has received in a complete response
          report      \* McpServerServeReport

vars == <<sessions, requested, slot, pc, conn, reply, late, handle, told, report>>

\* A request as its checks see it: the envelope is good or refused, an absent id
\* makes a notification, params are empty, good or bad for their method.
Good(call, sid) ==
    [method |-> "POST", head |-> 0, envelope |-> "ok", call |-> call,
     id |-> call # "notifications/initialized",
     params |-> IF call \in {"initialize", "tools/call"} THEN "good" ELSE "empty",
     tool |-> "exposed", version |-> IF call = "initialize" THEN "absent" ELSE "own",
     sid |-> IF call = "initialize" THEN "none" ELSE sid]

\* The good requests and those that differ from one in a single respect.
Requests ==
    LET calls == {"initialize", "notifications/initialized", "tools/list", "tools/call", "other"}
    IN  UNION {LET g == Good(c, s) IN
          {g, [g EXCEPT !.method = "DELETE"], [g EXCEPT !.head = 400],
           [g EXCEPT !.envelope = "bad"], [g EXCEPT !.id = ~@], [g EXCEPT !.params = "bad"],
           [g EXCEPT !.tool = "hidden"], [g EXCEPT !.version = "other"], [g EXCEPT !.sid = s]}
          : c \in calls, s \in SessionIds \cup {"none"}}

NoReply == [status |-> 0, error |-> FALSE, action |-> "none", sid |-> "none", big |-> FALSE]
NoConn == [peer |-> "none"]
NoReport == [accepted |-> 0, created |-> 0, deleted |-> 0, closed |-> 0,
             calls |-> 0, blocked |-> 0]

Init ==
    /\ sessions = [s \in {} |-> <<>>]
    /\ requested = FALSE
    /\ slot = "none"
    /\ pc = "accepting"
    /\ conn = NoConn
    /\ reply = NoReply
    /\ late = FALSE
    /\ handle = "idle"
    /\ told = {}
    /\ report = NoReport

-----------------------------------------------------------------------------
(* What a request is answered with. *)

Answer(status, sid) == [status |-> status, error |-> FALSE, action |-> "none", sid |-> sid,
                        big |-> FALSE]
Refuse(status, sid) == [Answer(status, sid) EXCEPT !.error = TRUE]

\* controlled_session: 0 if the request names a live session of this peer.
ControlledSession(r, peer) ==
    FirstRefusal(
      << <<r.version # "own", 400>>,
         <<r.sid = "none", 400>>,
         <<r.sid \notin DOMAIN sessions, 404>>,
         <<r.sid \in DOMAIN sessions /\ sessions[r.sid].peer # peer, 404>> >>, 0)

Phase(r) == sessions[r.sid].phase

\* A session in the reply of initialize is created only after it was written.
DispatchInitialize(r, peer) ==
    IF ~r.id THEN {Answer(202, "none")}
    ELSE IF r.sid # "none" \/ r.version # "absent" THEN {Refuse(200, "none")}
    ELSE IF r.params # "good" THEN {Refuse(200, "none")}
    ELSE IF Cardinality(DOMAIN sessions) >= MaxSessions THEN {Refuse(503, "none")}
    ELSE {Refuse(200, "none")} \cup
         {[Answer(200, s) EXCEPT !.action = "create"] :
            s \in {s \in SessionIds : s \notin told /\ s \notin DOMAIN sessions}}

DispatchInitialized(r) ==
    IF r.id \/ r.params # "empty" \/ Phase(r) # "awaiting" THEN Refuse(400, r.sid)
    ELSE [Answer(202, r.sid) EXCEPT !.action = "ready"]

DispatchToolsList(r) ==
    IF Phase(r) # "ready" \/ r.params # "empty" THEN Refuse(200, r.sid)
    ELSE Answer(200, r.sid)

\* A call that passes these checks goes to the handler.
CallAdmitted(r) == Phase(r) = "ready" /\ r.params = "good" /\ r.tool = "exposed"

DispatchDelete(r, peer) ==
    IF ControlledSession(r, peer) # 0 THEN Refuse(ControlledSession(r, peer), "none")
    ELSE [Answer(204, r.sid) EXCEPT !.action = "delete"]

\* dispatch_post without the handler call.
DispatchPost(r, peer) ==
    IF r.envelope # "ok" THEN {Refuse(200, "none")}
    ELSE IF r.call = "initialize" THEN DispatchInitialize(r, peer)
    ELSE IF ControlledSession(r, peer) # 0 THEN {Refuse(ControlledSession(r, peer), "none")}
    ELSE IF r.call = "notifications/initialized" THEN {DispatchInitialized(r)}
    ELSE IF ~r.id THEN {Answer(202, r.sid)}
    ELSE IF r.call = "tools/list" THEN {DispatchToolsList(r)}
    ELSE {Refuse(200, r.sid)}

IsCall(r, peer) ==
    /\ r.method = "POST" /\ r.envelope = "ok" /\ r.call = "tools/call" /\ r.id
    /\ ControlledSession(r, peer) = 0
    /\ CallAdmitted(r)

-----------------------------------------------------------------------------
(* One connection after the other. *)

CloseAllSessions ==
    /\ report' = [report EXCEPT !.closed = @ + Cardinality(DOMAIN sessions)]
    /\ sessions' = [s \in {} |-> <<>>]

\* accept() hands over a connection; the guard registers its stream.
Accept ==
    /\ pc = "accepting" /\ ~requested /\ report.accepted < MaxConnections
    /\ \E p \in Peers : conn' = [peer |-> p]
    /\ report' = [report EXCEPT !.accepted = @ + 1]
    /\ pc' = "registering"
    /\ UNCHANGED <<sessions, requested, slot, reply, late, handle, told>>

\* The guard is dropped when handle_connection returns.
EndConnection(next) ==
    /\ pc' = next
    /\ slot' = "none"
    /\ conn' = NoConn
    /\ reply' = NoReply
    /\ late' = FALSE

Register ==
    /\ pc = "registering"
    /\ slot' = "open"
    /\ pc' = "registered"
    /\ UNCHANGED <<sessions, requested, conn, reply, late, handle, told, report>>

\* The flag is looked at once more after the stream is in the slot.
Registered ==
    /\ pc = "registered"
    /\ IF requested
       THEN EndConnection("accepting")
       ELSE pc' = "reading" /\ UNCHANGED <<slot, conn, reply, late>>
    /\ UNCHANGED <<sessions, requested, handle, told, report>>

\* The client sends a request, or nothing at all, or the stream is cut.
ReadRequest ==
    /\ pc = "reading"
    /\ \/ EndConnection("accepting")
       \/ /\ slot = "open"
          /\ \E r \in Requests :
               /\ conn' = [peer |-> conn.peer, r |-> r]
               /\ IF r.head # 0
                  THEN reply' = Refuse(r.head, "none") /\ pc' = "refusing"
                  ELSE reply' = reply /\ pc' = "read"
          /\ UNCHANGED <<slot, late>>
    /\ UNCHANGED <<sessions, requested, handle, told, report>>

\* A refused head is answered and nothing is committed.
WriteRefusal ==
    /\ pc = "refusing"
    /\ EndConnection("accepting")
    /\ UNCHANGED <<sessions, requested, handle, told, report>>

Dispatch ==
    /\ pc = "read"
    /\ \/ /\ requested \/ late
          /\ EndConnection("accepting")
          /\ UNCHANGED report
       \/ /\ ~requested /\ ~late
          /\ LET r == conn.r IN
             IF r.method = "DELETE"
             THEN reply' = DispatchDelete(r, conn.peer) /\ pc' = "replied" /\ UNCHANGED report
             ELSE IF IsCall(r, conn.peer)
             THEN pc' = "calling" /\ UNCHANGED <<reply, report>>
             ELSE /\ reply' \in DispatchPost(r, conn.peer)
                  /\ pc' = "replied"
                  /\ report' = [report EXCEPT !.blocked =
                        @ + IF /\ r.envelope = "ok" /\ r.call = "tools/call" /\ r.id
                               /\ ControlledSession(r, conn.peer) = 0 /\ Phase(r) = "ready"
                               /\ r.params = "good"
                            THEN 1 ELSE 0]
          /\ UNCHANGED <<slot, conn, late>>
    /\ UNCHANGED <<sessions, requested, handle, told>>

\* The last look at the flag and the clock, then the handler is called.
CallTool ==
    /\ pc = "calling"
    /\ \/ /\ requested \/ late
          /\ reply' = Refuse(503, conn.r.sid) /\ pc' = "replied"
          /\ UNCHANGED report
       \/ /\ ~requested /\ ~late
          /\ report' = [report EXCEPT !.calls = @ + 1] /\ pc' = "handling"
          /\ UNCHANGED reply
    /\ UNCHANGED <<sessions, requested, slot, conn, late, handle, told>>

\* The handler runs on the serving thread without a time limit, and may never
\* return.
ToolReturns ==
    /\ pc = "handling" /\ pc' = "replied"
    /\ reply' \in {Refuse(200, conn.r.sid), Answer(200, conn.r.sid)}
    /\ UNCHANGED <<sessions, requested, slot, conn, late, handle, told, report>>

\* Nothing is written once shutdown was requested.
BeforeWrite ==
    /\ pc = "replied"
    /\ IF requested
       THEN EndConnection("accepting")
       ELSE pc' = "writing" /\ UNCHANGED <<slot, conn, reply, late>>
    /\ UNCHANGED <<sessions, requested, handle, told, report>>

Outcomes == {"original", "fallback", "failed"}

\* write_http_response: the whole response, the fallback for one beyond the
\* limit, or an error; a cut stream or a passed deadline cannot succeed.
\* An error may come after the client had everything.
WriteResponse ==
    /\ pc = "writing"
    /\ \E o \in Outcomes :
         /\ o # "failed" => slot = "open" /\ ~late
         /\ o = "fallback" => reply.status = 200 /\ reply.action = "none"
         /\ reply' = [status |-> reply.status, error |-> reply.error, action |-> reply.action,
                      sid |-> reply.sid, big |-> o # "original"]
         /\ told' \in IF o = "original" /\ reply.action = "create"
                      THEN {told \cup {reply.sid}}
                      ELSE IF o = "failed" /\ reply.action = "create"
                      THEN {told, told \cup {reply.sid}} ELSE {told}
    /\ pc' = "committing"
    /\ UNCHANGED <<sessions, requested, slot, conn, late, handle, report>>

ApplyAction ==
    /\ sessions' =
         CASE reply.action = "create" ->
                [s \in DOMAIN sessions \cup {reply.sid} |->
                   IF s = reply.sid THEN [peer |-> conn.peer, phase |-> "awaiting"]
                   ELSE sessions[s]]
           [] reply.action = "ready" ->
                [s \in DOMAIN sessions |->
                   IF s = reply.sid THEN [sessions[s] EXCEPT !.phase = "ready"] ELSE sessions[s]]
           [] reply.action = "delete" ->
                [s \in DOMAIN sessions \ {reply.sid} |-> sessions[s]]
           [] OTHER -> sessions
    /\ report' = [report EXCEPT
         !.created = @ + IF reply.action = "create" THEN 1 ELSE 0,
         !.deleted = @ + IF reply.action = "delete" /\ reply.sid \in DOMAIN sessions THEN 1 ELSE 0]

Commits == ~reply.big /\ (reply.action = "delete" \/ ~requested)

\* commit_action_after_response.
CommitAction ==
    /\ pc = "committing"
    /\ IF Commits THEN ApplyAction ELSE UNCHANGED <<sessions, report>>
    /\ EndConnection("accepting")
    /\ UNCHANGED <<requested, handle, told>>

\* The loop ends at the flag, or at an accept error, which also closes.
Stop ==
    /\ pc = "accepting"
    /\ requested
    /\ CloseAllSessions
    /\ pc' = "stopped"
    /\ UNCHANGED <<requested, slot, conn, reply, late, handle, told>>

AcceptFailed ==
    /\ pc = "accepting" /\ ~requested
    /\ CloseAllSessions
    /\ pc' = "failed"
    /\ UNCHANGED <<requested, slot, conn, reply, late, handle, told>>

\* io_timeout runs out for the connection in hand.
Deadline ==
    /\ pc \in {"reading", "read", "calling", "handling", "replied", "writing"}
    /\ ~late
    /\ late' = TRUE
    /\ UNCHANGED <<sessions, requested, slot, pc, conn, reply, handle, told, report>>

\* shutdown(): the flag first, then the stream in the slot is cut.
RequestShutdown ==
    /\ handle = "idle"
    /\ requested' = TRUE
    /\ handle' = "flagged"
    /\ UNCHANGED <<sessions, slot, pc, conn, reply, late, told, report>>

CutStream ==
    /\ handle = "flagged"
    /\ slot' = IF slot = "open" THEN "cut" ELSE slot
    /\ handle' = "done"
    /\ UNCHANGED <<sessions, requested, pc, conn, reply, late, told, report>>

ServerSteps ==
    \/ Register \/ Registered \/ ReadRequest \/ WriteRefusal \/ Dispatch
    \/ CallTool \/ BeforeWrite \/ WriteResponse \/ CommitAction \/ Stop

Next ==
    \/ Accept \/ ServerSteps \/ ToolReturns \/ AcceptFailed \/ Deadline \/ RequestShutdown \/ CutStream

Spec == Init /\ [][Next]_vars

-----------------------------------------------------------------------------
(* Properties. *)

\* A session the server keeps is one whose id reached its client in a complete
\* response, whatever was cut, late or too big; and the table never outgrows
\* its limit.
NoGhostSession ==
    DOMAIN sessions \subseteq told /\ Cardinality(DOMAIN sessions) <= MaxSessions

\* Every session ever created is deleted, closed at the end or still there.
SessionsAreAccounted ==
    report.created = report.deleted + report.closed + Cardinality(DOMAIN sessions)

\* The handler never runs for a session that has not been initialized.
CallsAreReady ==
    pc \in {"calling", "handling"} =>
                      conn.r.sid \in DOMAIN sessions /\ Phase(conn.r) = "ready"
                      /\ sessions[conn.r.sid].peer = conn.peer

\* Reading left to right chooses as the most specific entry does.
AcceptAgrees(entries) == AcceptsJsonScan(entries) = AcceptsJson(entries)

\* What the reader admits, the dispatcher does not refuse for its head.
HeadChecksAgree(h) == ReadHttpRequest(h) = 0 => DispatchHead(h) = 0

\* Admitted arguments give a handler every required string and no other name.
AdmittedArgumentsRead(s, args) ==
    SchemaParses(s) /\ ValidateArguments(s, args) = "ok" =>
      /\ \A i \in DOMAIN s.required : StringArgument(args, s.required[i]) = "value"
      /\ \A p \in DOMAIN s.properties : StringArgument(args, p) # "error"
      /\ RequireOnlyArguments(args, DOMAIN s.properties)

\* A surface that is served answers every tool it lists: each id is one tool, and
\* arguments admitted for it are read.
SurfaceIsCallable(tools, argumentSets) ==
    SurfaceNew(tools) = "ok" =>
        /\ tools # <<>> /\ Cardinality({tools[i].id : i \in DOMAIN tools}) = Len(tools)
        /\ \A i \in DOMAIN tools : \A a \in argumentSets : AdmittedArgumentsRead(tools[i].schema, a)

\* The reason a configuration is refused for is its own: putting that one thing
\* right gives another answer, and a server that starts is reached from its own
\* host and origin only.
RefusalNamesTheCause(c) ==
    LET why == ServerConfigured(c)
        right == CASE why = "path" -> [c EXCEPT !.pathValid = TRUE] [] why = "bounds" -> [c EXCEPT !.boundsValid = TRUE]
                   [] why = "origin" -> [c EXCEPT !.originsValid = TRUE] [] why = "bind" -> [c EXCEPT !.loopback = TRUE]
                   [] why = "surface" -> [c EXCEPT !.sideEffects = FALSE] [] why = "origin_not_bound" -> [c EXCEPT !.origins = {"own"}]
                   [] OTHER -> c
    IN  IF why = "ok" THEN c.loopback /\ ~c.sideEffects /\ c.origins \subseteq {"own"} ELSE ServerConfigured(right) # why
=============================================================================
