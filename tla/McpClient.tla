------------------------------ MODULE McpClient ------------------------------
(***************************************************************************)
(* One tool call of the MCP JSON-RPC client (json_rpc.rs) over streamable  *)
(* HTTP or stdio: initialize, notifications/initialized, tools/list,       *)
(* tools/call, and the end of the session.  The server may open a session  *)
(* or not, answer wrongly, or not at all; a request or an answer may be    *)
(* lost, in which case the client gives up at its deadline.                *)
(*                                                                         *)
(*  link    "http" or "stdio"                                              *)
(*  at      the client's next message                                      *)
(*  client  what McpHttpJsonRpcTransport remembers                         *)
(*  server  its session and the requests it acted on                       *)
(*  child   the stdio server process                                       *)
(*  result  of the call                                                    *)
(*  opening how the answer to initialize came, deletes: what DELETEs got   *)
(***************************************************************************)
EXTENDS Naturals, Sequences, FiniteSets, SequencesExt

VARIABLES link, at, client, server, child, result, opening, deletes

vars == <<link, at, client, server, child, result, opening, deletes>>

Ids    == {"s", "other"}
Fresh  == [sid |-> "none", proto |-> FALSE, closed |-> FALSE, ready |-> FALSE, count |-> 0]
Stages == {"initialize", "initialized", "list", "call", "finish", "retry_delete", "done"}

TypeOK ==
    /\ link \in {"http", "stdio"} /\ at \in Stages
    /\ client.sid \in Ids \cup {"none"} /\ server.session \in {"none", "live", "gone"}
    /\ child \in {"none", "running", "stopped", "unstopped"} /\ result \in {"none", "ok", "err"}

Init ==
    /\ link \in {"http", "stdio"} /\ at = "initialize"
    /\ client = Fresh /\ server = [session |-> "none", saw |-> << >>]
    /\ child = IF link = "stdio" THEN "running" ELSE "none"
    /\ result = "none" /\ opening = "none" /\ deletes = << >>

\* close_and_clear_session.
Cleared(c) == [c EXCEPT !.closed = TRUE, !.sid = "none", !.proto = FALSE, !.ready = FALSE]
\* ensure_session_open, ensure_session_ready.
Open(c)      == ~c.closed /\ c.count > 0 /\ c.proto
SessionOk(c) == Open(c) /\ c.ready
\* Fault: only an open session is closed at the server.
CanCleanFault(c) == Open(c)

\* cleanup_headers needs only the remembered protocol, not an open session.
CanClean(c)  == c.proto

\* What the network and the server do with a request: "lost" before it is
\* acted on, "dropped" after, or answered by a head alone, its buffered body
\* "cut"; otherwise an answer with a status, the session id it carries, and a
\* body that is a message, empty or neither.
Answers == [kind : {"lost", "dropped"}, sid : {"none"}, body : {"bad"}]
           \cup [kind : {"cut"}, sid : Ids \cup {"none"}, body : {"bad"}]
           \cup [kind : {"ok", "404", "405", "500"}, sid : Ids \cup {"none"}, body : {"message", "empty", "bad"}]
Acted(a) == a.kind \in {"dropped", "cut", "ok"}
\* send_http_exchange_request and send_http_request return an answer, not an error.
Returned(a) == a.kind \notin {"lost", "dropped", "cut"}
\* decode_http_exchange_payload wants a message; validate_http_notification_response a 202 without a body.
Decodes(a) == a.kind = "ok" /\ a.body = "message"
TakesNotification(a) == a.kind = "ok" /\ a.body = "empty"

\* reject_unknown_session, then validate_response_session: the client after the
\* answer's metadata, and whether the answer may be used.
Accept(c, a, usable) ==
    IF ~Returned(a) THEN [c |-> c, ok |-> FALSE]
    ELSE IF a.kind = "404" THEN [c |-> Cleared(c), ok |-> FALSE]
    ELSE IF a.sid # "none" /\ a.sid # c.sid THEN [c |-> [c EXCEPT !.closed = TRUE], ok |-> FALSE]
    ELSE [c |-> c, ok |-> usable]

ServerActs(method) == server' = [server EXCEPT !.saw = Append(@, method)]
\* A 404 is the server's word that it has no such session.
ServerAfter(method, a) ==
    [saw |-> IF Acted(a) THEN Append(server.saw, method) ELSE server.saw,
     session |-> IF a.kind = "404" /\ server.session = "live" THEN "gone" ELSE server.session]
Fail  == at' = "finish" /\ result' = "err"

\* shutdown_session: DELETE with whatever is remembered, even once closed.
DeleteOutcome(c, a) ==
    IF c.sid = "none" THEN [c |-> Cleared(c), ok |-> TRUE]
    ELSE IF ~CanClean(c) THEN [c |-> c, ok |-> FALSE]
    ELSE IF ~Returned(a) THEN [c |-> c, ok |-> FALSE]
    ELSE IF a.kind = "404" THEN [c |-> Cleared(c), ok |-> FALSE]
    ELSE IF a.sid # "none" /\ a.sid # c.sid THEN [c |-> [c EXCEPT !.closed = TRUE], ok |-> FALSE]
    ELSE IF a.kind = "405" THEN [c |-> Cleared(c), ok |-> TRUE]
    ELSE IF a.kind = "500" \/ a.body = "bad" THEN [c |-> c, ok |-> FALSE]
    ELSE [c |-> Cleared(c), ok |-> TRUE]
SendsDelete(c) == c.sid # "none" /\ CanClean(c)
Deleted(a) == IF server.session = "live" /\ (Acted(a) \/ a.kind = "404") THEN "gone" ELSE server.session

\* exchange on the first request.  An answer that is returned goes to
\* remember_initialize: its session id counts before the payload is read, and a
\* bad payload deletes the session at once.  One whose body is cut is an error
\* before that, and the id in its head is forgotten.  The server really opens a
\* session iff its answer carries an id.
Initialize ==
    /\ link = "http" /\ at = "initialize"
    /\ \E a \in Answers :
         LET c == [client EXCEPT !.sid = a.sid, !.proto = a.sid # "none"] IN
         /\ a.sid # "other"
         /\ server' = [server EXCEPT !.saw = IF Acted(a) THEN Append(@, "initialize") ELSE @,
                                     !.session = IF a.kind = "dropped" \/ a.sid = "s" THEN "live" ELSE @]
         /\ opening' = a.kind
         /\ IF Decodes(a)
            THEN at' = "initialized" /\ client' = [c EXCEPT !.proto = TRUE, !.count = 1] /\ UNCHANGED result
            ELSE /\ result' = "err"
                 /\ IF Returned(a) THEN at' = "retry_delete" /\ client' = [c EXCEPT !.closed = TRUE]
                    ELSE at' = "finish" /\ UNCHANGED client
    /\ UNCHANGED <<link, child, deletes>>

\* A later POST: notify("notifications/initialized"), exchange(tools/list),
\* exchange(tools/call).  Guards fail before anything is sent.
Post(stage, next, allowed, usable(_), after(_)) ==
    /\ link = "http" /\ at = stage
    /\ IF ~allowed THEN Fail /\ UNCHANGED <<client, server>>
       ELSE \E a \in Answers :
              LET r == Accept(client, a, usable(a)) IN
              /\ server' = ServerAfter(stage, a)
              /\ IF r.ok THEN client' = after(r.c) /\ at' = next /\ UNCHANGED result
                         ELSE client' = r.c /\ Fail
    /\ UNCHANGED <<link, child, opening, deletes>>
Notified(c)  == [c EXCEPT !.ready = TRUE]
Exchanged(c) == [c EXCEPT !.count = @ + 1]

Initialized == Post("initialized", "list", Open(client) /\ ~client.ready, TakesNotification, Notified)
ListTools   == Post("list", "call", SessionOk(client), Decodes, Exchanged)
CallTool    == Post("call", "finish", SessionOk(client), Decodes, Exchanged)

\* initialize failed: shutdown_session inside exchange, then again at the end
\* of the call as long as the id is still remembered.
Delete(stage, next) ==
    /\ link = "http" /\ at = stage
    /\ \E a \in Answers :
         LET r == DeleteOutcome(client, a) IN
         /\ client' = r.c /\ at' = next
         /\ deletes' = IF SendsDelete(client) THEN Append(deletes, a.kind) ELSE deletes
         /\ server' = [server EXCEPT !.session = IF SendsDelete(client) THEN Deleted(a) ELSE @]
         /\ result' = IF result = "none" THEN IF r.ok THEN "ok" ELSE "err" ELSE result
    /\ UNCHANGED <<link, child, opening>>
RetryDelete == Delete("retry_delete", "finish")
FinishHttp  == Delete("finish", "done")

\* shutdown: the process is taken and terminated once; its termination may fail.
Shutdown == child' \in IF child = "running" THEN {"stopped", "unstopped"} ELSE {child}

\* spawn_stdout_reader sends lines until the pipe ends, fails or is too long;
\* exchange also gives up at its deadline.
ReaderMessages == {"line", "limit", "error", "eof"}
\* call_tool_with_transport
StdioNext(stage) == CASE stage = "initialize" -> "initialized" [] stage = "initialized" -> "list"
                      [] stage = "list" -> "call" [] OTHER -> "finish"
\* The stdio transport.  A line without an id is skipped; one with another id,
\* or that does not decode, fails the call, and anything but a line shuts the
\* process down first, so that no late answer is ever read.
Stdio ==
    /\ link = "stdio" /\ at \in {"initialize", "initialized", "list", "call"}
    /\ \/ /\ at # "initialized"
          /\ \E m \in ReaderMessages \cup {"timeout"} :
               \/ /\ m = "line" /\ ServerActs(at) /\ UNCHANGED child
                  /\ (at' = StdioNext(at) /\ UNCHANGED result) \/ Fail
               \/ m # "line" /\ (ServerActs(at) \/ UNCHANGED server) /\ Fail /\ Shutdown
       \/ at = "initialized" /\ ServerActs(at) /\ at' = StdioNext(at) /\ UNCHANGED <<result, child>>
       \/ Fail /\ UNCHANGED <<server, child>>   \* the request cannot be written
    /\ UNCHANGED <<link, client, opening, deletes>>
FinishStdio ==
    /\ link = "stdio" /\ at = "finish" /\ at' = "done" /\ Shutdown
    /\ result' = IF result = "none" THEN "ok" ELSE result
    /\ UNCHANGED <<link, client, server, opening, deletes>>

Next == Initialize \/ Initialized \/ ListTools \/ CallTool \/ RetryDelete \/ FinishHttp \/ Stdio \/ FinishStdio

Spec == Init /\ [][Next]_vars

\* What a finished call leaves behind: no process that was not terminated, or
\* tried to be, and no session at the server that was not asked to be deleted,
\* and none at all after a success, unless the server does not delete sessions.  The
\* exception is a session the client never remembered: the answer to initialize
\* was lost, or cut after the head that carried the id.
CallLeavesNothing ==
    at = "done" =>
        /\ child # "running"
        /\ server.session = "live" /\ deletes = << >> => opening \in {"dropped", "cut"}
        /\ server.session = "live" /\ result = "ok" => Last(deletes) = "405"

\* The server sees the handshake in order: it never acts on a tool request of
\* a client that did not finish it, and on no tool call twice.
HandshakeFirst ==
    \E n \in 0..4 : server.saw = SubSeq(<<"initialize", "initialized", "list", "call">>, 1, n)

\* A successful call went through the whole protocol.
SuccessIsComplete == result = "ok" => Len(server.saw) = 4

-----------------------------------------------------------------------------
(* HTTP/1.1 response framing *)

Unset == 99  \* no Content-Length

\* read_http_response_head on the framing headers, in order of appearance;
\* a second one of a kind, an unknown encoding and both connection
\* directives are refused.
HeadStep(head, h) ==
    IF head.error THEN head
    ELSE CASE h.name = "chunked"        -> [head EXCEPT !.chunked = TRUE, !.error = head.chunked]
           [] h.name = "content-length" -> [head EXCEPT !.length = h.n, !.error = head.length # Unset]
           [] h.name = "close"          -> [head EXCEPT !.close = TRUE, !.error = head.keep]
           [] h.name = "keep-alive"     -> [head EXCEPT !.keep = TRUE, !.error = head.close]
           [] OTHER                     -> [head EXCEPT !.error = TRUE]

\* select_http_body_framing.
BodyForbidden(status) == status \in 100..199 \/ status \in {204, 205, 304}
Framing(head, bodylessAccepted) ==
    IF BodyForbidden(head.status)
    THEN IF head.chunked \/ (head.status # 304 /\ head.length # Unset /\ head.length > 0) THEN "error" ELSE "none"
    ELSE IF bodylessAccepted /\ head.status = 202 /\ head.length = Unset /\ ~head.chunked THEN "none"
    ELSE IF head.chunked THEN IF head.length # Unset THEN "error" ELSE "chunked"
    ELSE IF head.length # Unset THEN "length"
    ELSE IF head.close \/ (~head.http11 /\ ~head.keep) THEN "until_close"
    ELSE "error"

\* read_final_http_response_head: informational heads are skipped, at most eight.
MaxInformational == 8
Informational(status) == status \in 100..199 /\ status # 101
FinalFraming(heads, bodylessAccepted) ==
    LET final == SelectInSeq(heads, LAMBDA h : ~Informational(h.status))
    IN  IF final = 0 \/ final - 1 > MaxInformational \/ \E i \in 1..(final - 1) : Framing(heads[i], FALSE) # "none" THEN "error"
        ELSE Framing(heads[final], bodylessAccepted)

\* A chunked body on the wire: chunks of [size, sent, delim], then trailers and
\* whether the final empty line arrived.  Only the last chunk may be cut short.
ForbiddenTrailer == "content-length"
TrailersOk(w) == w.complete /\ ForbiddenTrailer \notin Range(w.trailers)
Whole(c)      == c.sent = c.size /\ c.delim

\* read_http_chunked_body: whole chunks up to the limit.
Buffered(w, limit) ==
    LET F[i \in 0..Len(w.chunks)] ==
          IF i = 0 THEN [got |-> 0, end |-> "more"]
          ELSE LET p == F[i - 1] IN
               IF p.end # "more" THEN p
               ELSE IF w.chunks[i].size > limit - p.got THEN [p EXCEPT !.end = "truncated"]
               ELSE IF ~Whole(w.chunks[i]) THEN [p EXCEPT !.end = "error"]
               ELSE [p EXCEPT !.got = @ + w.chunks[i].size]
        last == F[Len(w.chunks)]
    IN IF last.end # "more" THEN last
       ELSE [last EXCEPT !.end = IF TrailersOk(w) THEN "eof" ELSE "error"]

\* HttpSseSource::read_chunked called until it ends: a chunk is delivered as it
\* comes, so an error comes after the bytes that did arrive.
Streamed(w) ==
    LET F[i \in 0..Len(w.chunks)] ==
          IF i = 0 THEN [got |-> 0, end |-> "more"]
          ELSE LET p == F[i - 1]
                   c == w.chunks[i] IN
               IF p.end # "more" THEN p
               ELSE [got |-> p.got + c.sent, end |-> IF Whole(c) THEN "more" ELSE "error"]
        last == F[Len(w.chunks)]
    IN IF last.end # "more" THEN last
       ELSE [last EXCEPT !.end = IF TrailersOk(w) THEN "eof" ELSE "error"]
\* HttpSseSource::read_sse on the other framings, sent bytes having arrived.
StreamedPlain(framing, length, sent) ==
    CASE framing = "none"   -> [got |-> 0, end |-> "eof"]
      [] framing = "length" -> IF sent < length THEN [got |-> sent, end |-> "error"] ELSE [got |-> length, end |-> "eof"]
      [] OTHER              -> [got |-> sent, end |-> "eof"]

\* read_http_body on a Content-Length body and on one that ends with the
\* connection.
FixedBody(length, sent, limit) ==
    IF length > limit THEN [got |-> 0, end |-> "truncated"]
    ELSE IF sent < length THEN [got |-> sent, end |-> "error"] ELSE [got |-> length, end |-> "eof"]
CloseBody(sent, limit) ==
    IF sent > limit THEN [got |-> limit, end |-> "truncated"] ELSE [got |-> sent, end |-> "eof"]

\* Both readers of a chunked body agree on where it ends and on what it holds,
\* and neither takes a cut-off body for a complete one.
ReadersAgree(w) ==
    LET b == Buffered(w, 99)
        s == Streamed(w) IN
    /\ b.end = s.end /\ (b.end = "eof" => b.got = s.got)
    /\ b.end = "eof" => \A i \in 1..Len(w.chunks) : Whole(w.chunks[i])

-----------------------------------------------------------------------------
(* JSON-RPC envelopes, by the members present *)

\* parse_sse_json_rpc_envelope.
EnvelopeKind(m) ==
    CASE m = {"jsonrpc", "method"}                              -> "notification"
      [] m = {"jsonrpc", "id", "method"}                        -> "request"
      [] m \in {{"jsonrpc", "id", "result"}, {"jsonrpc", "id", "error"}} -> "response"
      [] OTHER                                                  -> "error"

\* parse_json_rpc_response: version, id, then error before result.
ResponseOutcome(m, id, expected) ==
    IF "jsonrpc" \notin m THEN "protocol"
    ELSE IF "id" \notin m \/ id # expected THEN "protocol"
    ELSE IF "error" \in m THEN "remote"
    ELSE IF "result" \notin m THEN "protocol"
    ELSE "ok"

\* tool_arguments_json: an object is passed as it is, other text is wrapped.
ToolArguments(input) ==
    CASE input = "blank"  -> [kind |-> "object", holds |-> "nothing"]
      [] input = "braced" -> [kind |-> "object", holds |-> "input"]
      [] OTHER            -> [kind |-> "object", holds |-> "wrapped"]

EmptyHead(status, http11) ==
    [error |-> FALSE, chunked |-> FALSE, length |-> Unset, close |-> FALSE, keep |-> FALSE, status |-> status, http11 |-> http11]
\* The end of a body is never in doubt: whatever order the headers come in, a
\* response that is read is framed in one way, by its chunks, by its length or by
\* the end of a connection that is not kept, whatever informational responses
\* come before it; a body is whole only when all of it came and fitted, and the
\* buffering and the streaming reader agree on it.
FramingIsUnambiguous(headers, status, http11, bodyless, sent, limit) ==
    LET head(list) == FoldLeft(HeadStep, EmptyHead(status, http11), list)
        framing(list) == IF head(list).error THEN "error" ELSE Framing(head(list), bodyless)
        end == framing(headers)
        early(n) == [i \in 1..n |-> EmptyHead(103, http11)]
    IN  /\ ~head(headers).error /\ ~Informational(status) => \A n \in {1, 8, 9} :
              FinalFraming(Append(early(n), head(headers)), bodyless) = IF n > 8 THEN "error" ELSE end
        /\ framing(Reverse(headers)) = end
        /\ BodyForbidden(status) => end \in {"none", "error"}
        /\ end \in {"chunked", "length"} => head(headers).chunked = (head(headers).length = Unset)
        /\ end = "until_close" => ~head(headers).keep /\ ~head(headers).chunked /\ CloseBody(sent, limit).got <= sent
        /\ end = "length" => LET body == FixedBody(head(headers).length, sent, limit) IN
              /\ body.got <= limit /\ body.got <= sent
              /\ body.end # "truncated" => StreamedPlain(end, head(headers).length, sent) = body
              /\ body.end = "eof" <=> body.got = head(headers).length /\ head(headers).length <= limit /\ sent >= head(headers).length
        /\ CloseBody(sent, limit).end = "eof" <=> CloseBody(sent, limit).got = sent

\* What a stream takes for a request or a notification no waiting call takes for
\* its answer, and an answer belongs to the call whose id it carries.
MessagesAreOneKind(members, id, expected) ==
    LET kind == EnvelopeKind(members)
        outcome == ResponseOutcome(members, id, expected)
    IN  /\ kind \in {"request", "notification"} => outcome = "protocol"
        /\ kind = "response" => (outcome = "protocol" <=> id # expected)
        /\ outcome \in {"ok", "remote"} => id = expected /\ (outcome = "remote") = ("error" \in members)
=============================================================================
