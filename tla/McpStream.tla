------------------------------ MODULE McpStream ------------------------------
(***************************************************************************)
(* The MCP server-sent event stream (sse.rs): lines to events, events to   *)
(* JSON-RPC messages, and McpSseEventStream, which hands responses to the  *)
(* caller that waits for their id and keeps the others for later.  The     *)
(* JSON scanner it uses (json_rpc.rs) is at the end.                       *)
(*                                                                         *)
(*  wire     messages the server sends and the reader has not taken yet    *)
(*  parsed   ready: items read together, taken one by one                  *)
(*  replies  pending_responses: per id, in order of arrival                *)
(*  peers    pending_peer_messages: server requests and notifications      *)
(*  pending  pending_message_count, with its size in pendingBytes          *)
(*  waiting  the id next_response waits for, or "none"                     *)
(*  out      messages handed to the caller, in order                       *)
(***************************************************************************)
EXTENDS Naturals, Sequences, FiniteSets, SequencesExt

CONSTANTS StreamIds,     \* request ids in use
          PendingLimit,  \* SSE_PENDING_MESSAGE_LIMIT
          ByteLimit      \* output_limit_bytes

VARIABLES wire, parsed, replies, peers, pending, pendingBytes, waiting, disconnected, out

vars == <<wire, parsed, replies, peers, pending, pendingBytes, waiting, disconnected, out>>

\* A message: its kind, its id ("none" for a notification), its size and the
\* position at which the server sent it.
Message(k, id, size, n) == [kind |-> k, id |-> id, size |-> size, n |-> n]
Ping == Message("ping", "none", 0, 0)
Sent(n) == {Message("response", id, z, n) : id \in StreamIds, z \in 1..2}
           \cup {Message("notification", "none", 1, n), Message("request", "peer", 1, n), Ping}

Init ==
    /\ wire \in {<<a, b, c>> : a \in Sent(1), b \in Sent(2), c \in Sent(3)}
    /\ parsed = << >> /\ replies = [id \in StreamIds |-> << >>] /\ peers = << >> /\ pending = 0 /\ pendingBytes = 0
    /\ waiting = "none" /\ disconnected = FALSE /\ out = << >>

\* next_response first looks at what was kept: take_response.
Ask(id) ==
    /\ waiting = "none"
    /\ IF replies[id] # << >>
       THEN /\ out' = Append(out, Head(replies[id])) /\ replies' = [replies EXCEPT ![id] = Tail(@)]
            /\ pending' = pending - 1 /\ pendingBytes' = pendingBytes - Head(replies[id]).size
            /\ UNCHANGED waiting
       ELSE waiting' = id /\ UNCHANGED <<replies, pending, pendingBytes, out>>
    /\ UNCHANGED <<wire, parsed, peers, disconnected>>

\* buffer_message: at the message or the byte limit the stream is given up.
Keeps(m) == pending < PendingLimit /\ pendingBytes + m.size <= ByteLimit
Keep(m) ==
    /\ pending' = pending + 1 /\ pendingBytes' = pendingBytes + m.size
    /\ IF m.kind = "response"
       THEN replies' = [replies EXCEPT ![m.id] = Append(@, m)] /\ UNCHANGED peers
       ELSE peers' = Append(peers, m) /\ UNCHANGED replies

\* next_item reads only when nothing is parsed; one read may bring several items.
Receive ==
    /\ waiting # "none" /\ parsed = << >> /\ ~disconnected
    /\ \E n \in 1..Len(wire) : parsed' = SubSeq(wire, 1, n) /\ wire' = SubSeq(wire, n + 1, Len(wire))
    /\ UNCHANGED <<replies, peers, pending, pendingBytes, waiting, disconnected, out>>

\* next_response takes one item, a disconnected stream's too: a ping is counted,
\* its own response is returned, anything else is kept.
Read ==
    /\ waiting # "none" /\ parsed # << >> /\ parsed' = Tail(parsed) /\ UNCHANGED wire
    /\ LET m == Head(parsed) IN
       \/ m.kind = "ping" /\ UNCHANGED <<replies, peers, pending, pendingBytes, waiting, disconnected, out>>
       \/ /\ m.kind = "response" /\ m.id = waiting
          /\ out' = Append(out, m) /\ waiting' = "none"
          /\ UNCHANGED <<replies, peers, pending, pendingBytes, disconnected>>
       \/ /\ m.kind # "ping" /\ ~(m.kind = "response" /\ m.id = waiting)
          /\ IF Keeps(m) THEN Keep(m) /\ UNCHANGED <<waiting, disconnected>>
             ELSE disconnected' = TRUE /\ waiting' = "none" /\ UNCHANGED <<replies, peers, pending, pendingBytes>>
          /\ UNCHANGED out

\* The end of the stream, an error or the deadline: the waiting call fails.
Disconnect ==
    /\ waiting # "none" /\ parsed = << >>
    /\ waiting' = "none" /\ disconnected' = TRUE
    /\ UNCHANGED <<wire, parsed, replies, peers, pending, pendingBytes, out>>

\* take_peer_message, take_notification.
Release(m) == pending' = pending - 1 /\ pendingBytes' = pendingBytes - m.size /\ out' = Append(out, m)
TakePeer ==
    /\ waiting = "none" /\ peers # << >> /\ Release(Head(peers)) /\ peers' = Tail(peers)
    /\ UNCHANGED <<wire, parsed, replies, waiting, disconnected>>
TakeNotification ==
    /\ waiting = "none"
    /\ \E i \in 1..Len(peers) :
         /\ peers[i].kind = "notification" /\ \A j \in 1..(i - 1) : peers[j].kind # "notification"
         /\ Release(peers[i]) /\ peers' = RemoveAt(peers, i)
    /\ UNCHANGED <<wire, parsed, replies, waiting, disconnected>>

Next == (\E id \in StreamIds : Ask(id)) \/ Receive \/ Read \/ Disconnect \/ TakePeer \/ TakeNotification

Spec == Init /\ [][Next]_vars

Kept == UNION {Range(replies[id]) : id \in StreamIds} \cup Range(peers)

\* The counters of McpSseEventStream are those of its queues, within limits.
CountersAreTrue ==
    /\ pending = Cardinality(Kept) /\ pending <= PendingLimit
    /\ pendingBytes <= ByteLimit

\* Responses to one request reach their caller in the order they were sent,
\* each once, and none is both handed out and kept.
ResponsesInOrder ==
    /\ \A i, j \in 1..Len(out) : i < j /\ out[i].kind = "response" /\ out[j].kind = "response"
                                 /\ out[i].id = out[j].id => out[i].n < out[j].n
    /\ Range(out) \cap Kept = {}

-----------------------------------------------------------------------------
(* McpSseParser: one byte class at a time.  "\r", "\n", a field byte "d"
   (data), "e" (event: error), "i" (id), ":" (comment), "x" (not UTF-8). *)
NoParse == [line |-> << >>, data |-> << >>, has |-> FALSE, event |-> FALSE, skip |-> FALSE,
            items |-> << >>, error |-> FALSE]

\* dispatch_event, process_line.
Dispatch(p) ==
    IF ~p.has THEN [p EXCEPT !.event = FALSE]
    ELSE IF p.event THEN [p EXCEPT !.error = TRUE]
    ELSE [p EXCEPT !.has = FALSE, !.data = << >>, !.items = Append(@, p.data)]
ProcessLine(p, line) ==
    CASE line = << >>        -> Dispatch(p)
      [] line[1] = ":"       -> [p EXCEPT !.items = Append(@, <<"ping">>)]
      [] line[1] = "d"       -> [p EXCEPT !.has = TRUE, !.data = IF p.has THEN @ \o <<"\n">> \o Tail(line) ELSE Tail(line)]
      [] line[1] = "e"       -> [p EXCEPT !.event = TRUE]
      [] OTHER               -> p

\* emit_line: the whole line must be UTF-8.
EmitLine(p) ==
    LET line == p.line
        q    == [p EXCEPT !.line = << >>] IN
    IF "x" \in Range(line) THEN [q EXCEPT !.error = TRUE] ELSE ProcessLine(q, line)

\* push_inner on one byte: CR, LF and CRLF each end one line.
PushByte(p, byte) ==
    IF p.error \/ (p.skip /\ byte = "\n") THEN [p EXCEPT !.skip = FALSE]
    ELSE LET q == [p EXCEPT !.skip = FALSE] IN
         CASE byte = "\r" -> [EmitLine(q) EXCEPT !.skip = TRUE]
           [] byte = "\n" -> EmitLine(q)
           [] OTHER       -> [q EXCEPT !.line = Append(@, byte)]
Parse(bytes) == FoldLeft(PushByte, NoParse, bytes)

\* finish: an unfinished event is a disconnect, never an event.
FinishOk(p) == ~p.error /\ p.line = << >> /\ ~p.has /\ ~p.event

\* The three line endings mean the same to the SSE parser.
Crlf(bytes) == FlattenSeq([i \in 1..Len(bytes) |-> IF bytes[i] = "\n" THEN <<"\r", "\n">> ELSE <<bytes[i]>>])
Cr(bytes)   == [i \in 1..Len(bytes) |-> IF bytes[i] = "\n" THEN "\r" ELSE bytes[i]]
LineEndingsAgree(bytes) ==
    "\r" \notin Range(bytes) =>
        /\ Parse(Crlf(bytes)).items = Parse(bytes).items
        /\ Parse(Cr(bytes)).items = Parse(bytes).items
        /\ FinishOk(Parse(bytes)) => "x" \notin Range(bytes)

-----------------------------------------------------------------------------
(* The JSON scanner over tokens: "{" "}" "[" "]" "," ":" and the scalars "s"
   (a string) and "p" (true, false, null or a number); "!" is anything else.
   Results are the position after the value, 0 for an error. *)
MaxDepth == 2  \* MAX_JSON_NESTING_DEPTH
At(w, i) == IF i \in 1..Len(w) THEN w[i] ELSE "end"

RECURSIVE ValueEnd(_, _, _), Members(_, _, _), Elements(_, _, _)
\* json_value_token_end_at_depth, next_json_nesting_depth.
ValueEnd(w, i, depth) ==
    CASE At(w, i) \in {"s", "p"}                 -> i + 1
      [] At(w, i) = "{" /\ depth + 1 <= MaxDepth -> IF At(w, i + 1) = "}" THEN i + 2 ELSE Members(w, i + 1, depth + 1)
      [] At(w, i) = "[" /\ depth + 1 <= MaxDepth -> IF At(w, i + 1) = "]" THEN i + 2 ELSE Elements(w, i + 1, depth + 1)
      [] OTHER                                   -> 0
\* json_object_token_end, parse_json_object_fields.
Members(w, i, depth) ==
    IF At(w, i) # "s" \/ At(w, i + 1) # ":" THEN 0
    ELSE LET e == ValueEnd(w, i + 2, depth) IN
         CASE e = 0            -> 0
           [] At(w, e) = ","   -> IF At(w, e + 1) = "}" THEN 0 ELSE Members(w, e + 1, depth)
           [] At(w, e) = "}"   -> e + 1
           [] OTHER            -> 0
\* json_array_token_end, parse_json_string_array.
Elements(w, i, depth) ==
    LET e == ValueEnd(w, i, depth) IN
    CASE e = 0          -> 0
      [] At(w, e) = "," -> IF At(w, e + 1) = "]" THEN 0 ELSE Elements(w, e + 1, depth)
      [] At(w, e) = "]" -> e + 1
      [] OTHER          -> 0

\* The grammar the scanner stands for.
Joined(parts) == FoldLeft(LAMBDA acc, x : IF acc = << >> THEN x ELSE acc \o <<",">> \o x, << >>, parts)
RECURSIVE Values(_)
Values(depth) ==
    LET scalar == {<<"s">>, <<"p">>} IN
    IF depth = 0 THEN scalar
    ELSE LET inner == Values(depth - 1)
             lists == {<< >>} \cup {<<a>> : a \in inner} \cup {<<a, b>> : a \in inner, b \in scalar}
             field(v) == <<"s", ":">> \o v IN
         scalar \cup {<<"[">> \o Joined(l) \o <<"]">> : l \in lists}
                \cup {<<"{">> \o Joined([k \in 1..Len(l) |-> field(l[k])]) \o <<"}">> : l \in lists}

\* The scanner accepts the JSON values within the nesting limit, whole, and
\* refuses a short token sequence that is not one.
ScannerAccepts(w)  == ValueEnd(w, 1, 0) = Len(w) + 1
Language == Values(MaxDepth)
ScannerIsRight(w)  == ScannerAccepts(w) <=> w \in Language

\* is_json_number: an automaton over "-", "0", "1" (another digit), ".", "e", "+".
NumberStep(q, ch) ==
    CASE q = "start" /\ ch = "-"                       -> "sign"
      [] q \in {"start", "sign"} /\ ch = "0"           -> "zero"
      [] q \in {"start", "sign"} /\ ch = "1"           -> "int"
      [] q = "int" /\ ch \in {"0", "1"}                -> "int"
      [] q \in {"zero", "int"} /\ ch = "."             -> "dot"
      [] q \in {"dot", "frac"} /\ ch \in {"0", "1"}    -> "frac"
      [] q \in {"zero", "int", "frac"} /\ ch = "e"     -> "exp"
      [] q = "exp" /\ ch \in {"+", "-"}                -> "expsign"
      [] q \in {"exp", "expsign", "expint"} /\ ch \in {"0", "1"} -> "expint"
      [] OTHER                                         -> "bad"
IsNumber(w) == FoldLeft(NumberStep, "start", w) \in {"zero", "int", "frac", "expint"}

\* A number is a sign, an integer without a leading zero, a fraction and an
\* exponent, each of them whole and in this order.
NumberIsRead(w) ==
    LET digits(t) == t # << >> /\ ToSet(t) \subseteq {"0", "1"}
        part(i, j) == SubSeq(w, i + 1, j)
        integer(t) == t = <<"0">> \/ (digits(t) /\ t[1] = "1")
        fraction(t) == t = << >> \/ (t[1] = "." /\ digits(Tail(t)))
        exponent(t) == t = << >> \/ (t[1] = "e" /\ (digits(Tail(t)) \/ (Len(t) > 1 /\ t[2] \in {"+", "-"} /\ digits(Tail(Tail(t))))))
    IN  IsNumber(w) <=> \E a \in 0..Len(w) : \E b \in a..Len(w) : \E c \in b..Len(w) :
            /\ part(0, a) \in {<< >>, <<"-">>}
            /\ integer(part(a, b)) /\ fraction(part(b, c)) /\ exponent(part(c, Len(w)))

\* escape_json and parse_json_string on character classes: a quote, a
\* backslash, a control character and plain text.
Escape(s) == FlattenSeq([i \in 1..Len(s) |->
    CASE s[i] = "quote" -> <<"\\", "quote">> [] s[i] = "\\" -> <<"\\", "\\">>
      [] s[i] = "ctl" -> <<"\\", "u">> [] OTHER -> <<s[i]>>])
RECURSIVE Unescape(_)
Unescape(s) ==
    CASE s = << >> -> <<"unterminated">>
      [] s[1] = "quote" -> IF Len(s) = 1 THEN << >> ELSE <<"trailing">>
      [] s[1] = "\\" -> IF Len(s) = 1 THEN <<"unterminated">>
                        ELSE <<IF s[2] = "u" THEN "ctl" ELSE s[2]>> \o Unescape(SubSeq(s, 3, Len(s)))
      [] OTHER -> <<s[1]>> \o Unescape(Tail(s))
\* A string written with json_string is read back by parse_json_string.
StringRoundTrip(s) == Unescape(Escape(s) \o <<"quote">>) = s
=============================================================================
