------------------------- MODULE ProviderTransports -------------------------
(***************************************************************************)
(* How the adapter crate runs one provider outside a session: the stdio    *)
(* and skill runners with their pipes, reader threads and deadline         *)
(* (transports/stdio.rs, transports/skill.rs, stream.rs), the clean-up of a *)
(* recorded process group after a restart and the identity a child runs as *)
(* (process_backend.rs, Unix), and, as operators, the HTTP runner's reading *)
(* of URLs and responses (transports/http.rs) and the skill input parser.  *)
(*                                                                         *)
(* Output is counted in chunks; a pipe holds PipeSize of them.             *)
(***************************************************************************)
EXTENDS Naturals, Sequences, FiniteSets, SequencesExt

CONSTANTS InputSize,   \* chunks of input the largest request has
          OutputSize,  \* chunks a provider writes to a stream at most
          OutputLimit, \* output_limit_bytes, in chunks
          PipeSize     \* what a pipe buffers

VARIABLES run,       \* the runner thread: its kind, place, credential lease and result
          child,     \* the provider process
          pipe,      \* chunks in each pipe
          reader,    \* the two reader threads
          evidence,  \* skill: what was stored and what was reported of each stream
          group,     \* processes of the recorded process group
          cleaner    \* where terminate_snapshot is

-----------------------------------------------------------------------------
(* The runners.                                                              *)

Streams == {"out", "err"}
NoReader == [at |-> "none", got |-> 0, truncated |-> FALSE]
RunInit ==
    /\ run \in {[kind |-> k, at |-> "open", input |-> n, heard |-> {}, expired |-> FALSE, survived |-> FALSE,
                   result |-> "none", lease |-> "none"] :
                  k \in {"stdio", "skill"}, n \in 0..InputSize}
    /\ child = [at |-> "none", closed |-> {}, wrote |-> [s \in Streams |-> 0]]
    /\ pipe = [in |-> 0, out |-> 0, err |-> 0]
    /\ reader = [s \in Streams |-> NoReader]
    /\ evidence = [stored |-> [s \in Streams |-> 0], reported |-> [s \in Streams |-> 0]]

RunAt(at) == run' = [run EXCEPT !.at = at]
\* A failing run remembers its result and goes on to what it must still do.
RunFails(result, at) == run' = [run EXCEPT !.at = at, !.result = result]
\* invoke, up to the run: the checks may refuse; the credential session is opened last.
OpenLease ==
    /\ run.at = "open"
    /\ \/ RunFails("refused", "done")
       \/ run' = [run EXCEPT !.at = "spawn", !.lease = "open"]
    /\ UNCHANGED <<child, pipe, reader, evidence>>
\* The process is started in a group of its own; a start that fails leaves no process behind.
Spawn ==
    /\ run.at = "spawn"
    /\ \/ RunFails("unavailable", "release") /\ UNCHANGED child
       \/ /\ child' = [child EXCEPT !.at = "running"]
          /\ RunAt(IF run.input > 0 THEN "write" ELSE "readers")
    /\ UNCHANGED <<pipe, reader, evidence>>
\* stdin.write_all: a full pipe blocks it, a closed one fails it.
WriteInput ==
    /\ run.at = "write"
    /\ \/ /\ child.at = "running" /\ pipe.in < PipeSize
          /\ pipe' = [pipe EXCEPT !.in = @ + 1]
          /\ run' = [run EXCEPT !.input = @ - 1, !.at = IF run.input = 1 THEN "readers" ELSE "write"]
       \/ child.at # "running" /\ RunFails("unavailable", "terminate") /\ UNCHANGED pipe
    /\ UNCHANGED <<child, reader, evidence>>
SpawnReaders ==
    /\ run.at = "readers"
    /\ RunAt("receive")
    /\ reader' = [s \in Streams |-> [NoReader EXCEPT !.at = "reading"]]
    /\ UNCHANGED <<child, pipe, evidence>>

\* What capture_provider_bytes persists when the reader is a skill's: under the stream's own key.
StoreCapture(s, n) == evidence' = IF run.kind = "skill" THEN [evidence EXCEPT !.stored[s] = n] ELSE evidence
\* collect_provider_stream: a chunk beyond the limit truncates the capture and ends it.
ReadChunk(s) ==
    /\ reader[s].at = "reading" /\ pipe[s] > 0
    /\ pipe' = [pipe EXCEPT ![s] = @ - 1]
    /\ IF reader[s].got < OutputLimit
       THEN reader' = [reader EXCEPT ![s].got = @ + 1] /\ UNCHANGED evidence
       ELSE /\ reader' = [reader EXCEPT ![s].at = "sent", ![s].truncated = TRUE]
            /\ StoreCapture(s, reader[s].got)
    /\ UNCHANGED <<run, child>>
\* End of file, once every writer of the pipe is gone, or a read error.
ReadEnd(s) ==
    /\ reader[s].at = "reading"
    /\ \/ /\ pipe[s] = 0 /\ (child.at # "running" \/ s \in child.closed)
          /\ reader' = [reader EXCEPT ![s].at = "sent"] /\ StoreCapture(s, reader[s].got)
       \/ reader' = [reader EXCEPT ![s].at = "failed"] /\ UNCHANGED evidence
    /\ UNCHANGED <<run, child, pipe>>

\* The two messages are received in the order they were sent, here in either order.
ReceiveMessage(s) ==
    /\ run.at = "receive" /\ ~run.expired /\ s \notin run.heard /\ reader[s].at \in {"sent", "failed"}
    /\ IF reader[s].at = "failed" THEN RunFails("unavailable", "terminate")
       ELSE IF reader[s].truncated
       THEN run' = [run EXCEPT !.heard = @ \cup {s}, !.result = "output_limit_exceeded", !.at = "terminate"]
       ELSE run' = [run EXCEPT !.heard = @ \cup {s}, !.at = IF Cardinality(run.heard) = 1 THEN "wait" ELSE "receive"]
    /\ UNCHANGED <<child, pipe, reader, evidence>>
\* The exit status, polled; try_wait finds a child that has ended before the timeout is looked at.  When
\* try_wait itself fails the run ends with that error, and only the handle's Drop ends the process.
WaitExit ==
    /\ run.at = "wait"
    /\ \/ /\ child.at \in {"exit0", "exit1"}
          /\ RunFails(IF child.at = "exit0" THEN "completed" ELSE "failed", "terminate")
       \/ RunFails("unavailable", "terminate")
    /\ UNCHANGED <<child, pipe, reader, evidence>>
TimeOut ==
    /\ run.expired
    /\ run.at = "receive" \/ (run.at = "wait" /\ child.at = "running")
    /\ RunFails("timeout", "terminate")
    /\ UNCHANGED <<child, pipe, reader, evidence>>
\* terminate_process and then the handle's Drop, or the Drop alone: every try is best effort and its
\* error is dropped, so a process that survives them all is reported nowhere.  Only a report, not an
\* error, has artifacts to store.
TerminateProcess ==
    /\ run.at = "terminate"
    /\ \E survives \in {FALSE} \cup {child.at = "running"} :
          /\ child' = [child EXCEPT !.at = IF @ = "running" /\ ~survives THEN "killed" ELSE @]
          /\ run' = [run EXCEPT !.survived = survives,
                                !.at = IF run.kind = "skill" /\ run.result # "unavailable" THEN "persist" ELSE "release"]
    /\ UNCHANGED <<pipe, reader, evidence>>
\* persist_run_artifacts: a stream the runner never heard of is stored as the empty preview it has of it.
PersistRunArtifacts ==
    /\ run.at = "persist"
    /\ RunAt("release") \/ RunFails("unavailable", "release")
    /\ evidence' = [stored |-> [s \in Streams |-> IF s \in run.heard THEN evidence.stored[s] ELSE 0],
                    reported |-> [s \in Streams |-> IF s \in run.heard THEN reader[s].got ELSE 0]]
    /\ UNCHANGED <<child, pipe, reader>>
\* The session is released whatever the run did; a release that fails fails the
\* invocation, and the lease's Drop hands the session to the finalizer.
ReleaseLease ==
    /\ run.at = "release"
    /\ \/ run' = [run EXCEPT !.at = "done", !.lease = "released"]
       \/ run' = [run EXCEPT !.at = "done", !.lease = "deferred",
                             !.result = IF @ \in {"completed", "failed", "output_limit_exceeded"} THEN "release_failed" ELSE @]
    /\ UNCHANGED <<child, pipe, reader, evidence>>

\* The provider reads, writes, closes its streams and ends as it likes; a full pipe blocks its writes.
ChildReads == /\ child.at = "running" /\ pipe.in > 0
              /\ pipe' = [pipe EXCEPT !.in = @ - 1] /\ UNCHANGED <<run, child, reader, evidence>>
ChildWrites(s) ==
    /\ child.at = "running" /\ s \notin child.closed /\ child.wrote[s] < OutputSize /\ pipe[s] < PipeSize
    /\ child' = [child EXCEPT !.wrote[s] = @ + 1] /\ pipe' = [pipe EXCEPT ![s] = @ + 1]
    /\ UNCHANGED <<run, reader, evidence>>
ChildCloses(s) == /\ child.at = "running" /\ s \notin child.closed
                  /\ child' = [child EXCEPT !.closed = @ \cup {s}]
                  /\ UNCHANGED <<run, pipe, reader, evidence>>
ChildExits == /\ child.at = "running"
              /\ \E at \in {"exit0", "exit1"} : child' = [child EXCEPT !.at = at]
              /\ UNCHANGED <<run, pipe, reader, evidence>>
\* timeout_ms after started_at, which is taken before the process is spawned.
Tick == /\ ~run.expired /\ run.at \notin {"open", "done"}
        /\ run' = [run EXCEPT !.expired = TRUE] /\ UNCHANGED <<child, pipe, reader, evidence>>
RunnerSteps == \/ OpenLease \/ Spawn \/ WriteInput \/ SpawnReaders \/ WaitExit \/ TimeOut \/ TerminateProcess
               \/ PersistRunArtifacts \/ ReleaseLease \/ \E s \in Streams : ReceiveMessage(s) \/ ReadChunk(s) \/ ReadEnd(s)
RunNext == RunnerSteps \/ Tick \/ ChildReads \/ ChildExits \/ \E s \in Streams : ChildWrites(s) \/ ChildCloses(s)

\* Whatever way a run ends, the provider outlives it only when every try to end it failed, its credential
\* session has been released or handed on, and only an invocation whose provider is gone and whose session
\* was released reports success.
RunLeavesNothing ==
    run.at = "done" =>
        /\ child.at # "running" \/ (run.survived /\ run.result \notin {"completed", "failed"})
        /\ run.lease # "open"
        /\ run.result \in {"completed", "failed"} => run.lease = "released"
\* A completed run holds everything its provider wrote, and the provider ended by itself.
CompletedIsWhole ==
    run.result = "completed" =>
        /\ child.at = "exit0"
        /\ \A s \in Streams : ~reader[s].truncated /\ reader[s].got = child.wrote[s]

-----------------------------------------------------------------------------
(* terminate_snapshot: a process group known only by its record.  A process  *)
(* is <<owner, leads>>; the record's start token is that of our own leader.  *)

Ours == "ours"
Stranger == "stranger"
CleanInit ==
    /\ group \in SUBSET {<<Ours, TRUE>>, <<Ours, FALSE>>}
    /\ cleaner = [at |-> "check", graceful |-> FALSE, saw |-> {}, strangers |-> {}, outcome |-> "none"]
\* Every step remembers the group as it met it.
CleanEnds(outcome) == cleaner' = [cleaner EXCEPT !.at = "done", !.saw = group, !.outcome = outcome]
CleanGoes(at) == cleaner' = [cleaner EXCEPT !.at = at, !.saw = group]
\* signal_group: kill(-group) reaches every process of the group there is, fails when there is none and
\* may be refused.  What the step before met is kept when somebody else's process is hit.
SignalGroup(at, graceful) ==
    /\ UNCHANGED group
    /\ \/ group = {} /\ CleanEnds("already_exited")
       \/ group # {} /\ CleanEnds("error")
       \/ /\ group # {}
          /\ cleaner' = [cleaner EXCEPT !.at = at, !.graceful = graceful, !.saw = group,
                             !.strangers = IF \E p \in group : p[1] # Ours THEN @ \cup {cleaner.saw} ELSE @]
Leader == {p \in group : p[2]}
\* snapshot_identity_matches: no leader but a group left is taken for ours.
SnapshotIdentityMatches ==
    IF group = {} THEN "missing"
    ELSE IF \E p \in Leader : p[1] # Ours THEN "mismatch" ELSE "matches"
CheckSnapshot ==
    /\ cleaner.at = "check" /\ UNCHANGED group
    /\ CASE SnapshotIdentityMatches = "missing"  -> CleanEnds("already_exited")
         [] SnapshotIdentityMatches = "mismatch" -> CleanEnds("identity_mismatch")
         [] OTHER -> CleanGoes("term")
SignalTerm == cleaner.at = "term" /\ SignalGroup("wait", TRUE)
WaitForGroupExit ==
    /\ cleaner.at = "wait" /\ UNCHANGED group
    /\ IF group = {} THEN CleanEnds("graceful") ELSE CleanGoes("recheck")
RecheckSnapshot ==
    /\ cleaner.at = "recheck" /\ UNCHANGED group
    /\ IF SnapshotIdentityMatches = "matches" THEN CleanGoes("kill") ELSE CleanEnds("identity_mismatch")
SignalKill == cleaner.at = "kill" /\ SignalGroup("killed", cleaner.graceful)
\* The processes go some time after the signal; a group that is still there at the end is an error.
WaitForKill ==
    /\ cleaner.at = "killed" /\ UNCHANGED group
    /\ CleanEnds(IF group = {} THEN "forced" ELSE "survived")
\* Processes end; a number nobody uses any more is taken by a stranger, who may fork and leave.
GroupExit == \E p \in group : group' = group \ {p} /\ UNCHANGED cleaner
GroupReuse == /\ group = {} /\ group' = {<<Stranger, TRUE>>, <<Stranger, FALSE>>} /\ UNCHANGED cleaner
CleanSteps == CheckSnapshot \/ SignalTerm \/ WaitForGroupExit \/ RecheckSnapshot \/ SignalKill \/ WaitForKill
CleanNext == CleanSteps \/ GroupExit \/ GroupReuse

\* The clean-up reports an end only when no process of the recorded provider is left.
ReportedGoneIsGone ==
    cleaner.outcome \in {"already_exited", "graceful", "forced"} => \A p \in group : p[1] # Ours
\* A signal reaches a process of somebody else only when the step just before had not met it under its
\* leader: the number was taken in between, or the leader of the group that took it had left.
StrangersAreFenced == \A saw \in cleaner.strangers : <<Stranger, TRUE>> \notin saw

-----------------------------------------------------------------------------
(* The identity a child takes between fork and exec (process_backend.rs,     *)
(* Linux).  Credentials are a record; a call that fails makes it Denied.     *)

Credentials(uid, gid, groups) ==
    [uid |-> uid, gid |-> gid, fsuid |-> uid, fsgid |-> gid, groups |-> groups,
     caps |-> uid = 0, ambient |-> FALSE, noNewPrivs |-> FALSE, ok |-> TRUE]
Denied(c) == [c EXCEPT !.ok = FALSE]
\* validate_unix_daemon_identity: only root may name another identity, and nothing latent is delegated.
ValidateUnixDaemonIdentity(c, uid, gid) ==
    c.uid # 0 => /\ uid = c.uid /\ gid = c.gid
                 /\ c.fsuid = c.uid /\ c.fsgid = c.gid /\ c.groups = {}
SetGroups(c) == IF c.caps THEN [c EXCEPT !.groups = {}] ELSE Denied(c)
SetLinuxFsIdentity(c, uid, gid) ==
    IF c.caps \/ (uid = c.uid /\ gid = c.gid) THEN [c EXCEPT !.fsuid = uid, !.fsgid = gid] ELSE Denied(c)
PrepareLinuxCapabilityDrop(c) == [c EXCEPT !.ambient = FALSE]
SetGid(c, gid) == IF c.caps \/ gid = c.gid THEN [c EXCEPT !.gid = gid, !.fsgid = gid] ELSE Denied(c)
\* Leaving uid 0 without PR_SET_KEEPCAPS gives up every capability.
SetUid(c, uid) == IF c.caps \/ uid = c.uid
                  THEN [c EXCEPT !.uid = uid, !.fsuid = uid, !.caps = @ /\ uid = 0] ELSE Denied(c)
ApplyUnixPrimaryIdentity(c, uid, gid) == SetUid(SetGid(c, gid), uid)
FinishLinuxCapabilityDrop(c) == [c EXCEPT !.caps = FALSE, !.noNewPrivs = TRUE]
ApplyUnixIdentity(c, uid, gid) ==
    LET cleared  == IF c.uid = 0 THEN SetGroups(c) ELSE IF c.groups = {} THEN c ELSE Denied(c)
        fs       == SetLinuxFsIdentity(cleared, uid, gid)
        dropped  == FinishLinuxCapabilityDrop(ApplyUnixPrimaryIdentity(PrepareLinuxCapabilityDrop(fs), uid, gid))
    IN IF dropped.uid = uid /\ dropped.gid = gid /\ dropped.fsuid = uid /\ dropped.fsgid = gid
       THEN dropped ELSE Denied(dropped)
\* A validated identity always takes effect, and what runs then has that identity and nothing else:
\* no supplementary group, no capability, no way to gain one.
IdentityIsExact(c, uid, gid) ==
    ValidateUnixDaemonIdentity(c, uid, gid) =>
        ApplyUnixIdentity(c, uid, gid) =
            [uid |-> uid, gid |-> gid, fsuid |-> uid, fsgid |-> gid, groups |-> {},
             caps |-> FALSE, ambient |-> FALSE, noNewPrivs |-> TRUE, ok |-> TRUE]
\* ProcessIdentity::from_snapshot: a record with some but not all of an identity is an error.
\* An optional field is a sequence of at most one value.
FromSnapshot(r) ==
    IF r.pid = <<>>
    THEN IF r.token # <<>> \/ r.groupId # <<>> \/ r.job # <<>> \/ r.attempt # 0 THEN "invalid" ELSE "none"
    ELSE IF r.token \in {<<>>, <<"">>} \/ r.pid = <<0>> \/ r.attempt = 0 \/ ((r.groupId = <<>>) = (r.job = <<>>))
         THEN "invalid" ELSE "identity"

-----------------------------------------------------------------------------
(* The HTTP runner.  A URL and a response are sequences of one-letter        *)
(* strings; "s" begins a status line, "r" "n" are CR and LF.                 *)

Separators == {"/", "?", "#"}
FirstOf(text, letters) == SelectInSeq(text, LAMBDA x : x \in letters)
LastColon(text) == SelectLastInSeq(text, LAMBDA x : x = ":")
\* parse_authority: digits after the last colon are the port; anything else leaves the default.
ParseAuthority(scheme, authority) ==
    LET at   == LastColon(authority)
        port == SubSeq(authority, at + 1, Len(authority))
    IN IF at > 1 /\ \A i \in DOMAIN port : port[i] = "7"
       THEN IF port = <<>> \/ Len(port) > 5 THEN <<>> ELSE <<SubSeq(authority, 1, at - 1), port>>
       ELSE <<authority, IF scheme = "https" THEN <<"443">> ELSE <<"80">> >>
\* ParsedHttpUrl::parse; <<>> is an error.
ParseHttpUrl(scheme, rest) ==
    LET cut       == FirstOf(rest, Separators)
        authority == IF cut = 0 THEN rest ELSE SubSeq(rest, 1, cut - 1)
        tail      == IF cut = 0 THEN <<>> ELSE SubSeq(rest, cut, Len(rest))
        place     == ParseAuthority(scheme, authority)
    IN IF scheme \notin {"http", "https"} \/ authority = <<>> \/ "@" \in ToSet(authority) \/ place = <<>> THEN <<>>
       ELSE <<[host |-> place[1], port |-> place[2], origin |-> <<scheme>> \o authority,
               path |-> IF tail = <<>> THEN <<"/">> ELSE IF tail[1] = "/" THEN tail ELSE <<"/">> \o tail]>>
\* Which host is connected to is decided by the allow-listed origin alone, and the path is rooted.
OriginDecidesHost(scheme, rest, other) ==
    LET a == ParseHttpUrl(scheme, rest)  b == ParseHttpUrl(scheme, other)
    IN (a # <<>> /\ b # <<>>) =>
         /\ a[1].origin = b[1].origin => a[1].host = b[1].host /\ a[1].port = b[1].port
         /\ a[1].path[1] = "/"
ValidateHeader(name, value) == name # <<>> /\ ToSet(name) \subseteq {"a", "7", "-"} /\ {"r", "n"} \cap ToSet(value) = {}
ValidateInvocation(config, invocation) ==
    LET url == ParseHttpUrl(invocation.scheme, invocation.rest)
    IN /\ invocation.method \in config.methods /\ config.limit > 0
       /\ \A h \in invocation.headers : ValidateHeader(h[1], h[2])
       /\ url # <<>> /\ url[1].origin \in config.origins

HeaderEnd(bytes) ==
    LET ends == {i \in 1..Len(bytes) : i + 3 <= Len(bytes) /\ SubSeq(bytes, i, i + 3) = <<"r", "n", "r", "n">>}
    IN IF ends = {} THEN 0 ELSE CHOOSE i \in ends : \A j \in ends : i <= j
ParseHttpStatusCode(head) == head # <<>> /\ head[1] = "s"
AppendHttpBodyChunk(r, chunk, limit) ==
    LET left == limit - Len(r.body)
    IN IF Len(chunk) > left THEN [r EXCEPT !.body = @ \o SubSeq(chunk, 1, left), !.truncated = TRUE]
       ELSE [r EXCEPT !.body = @ \o chunk]
\* One turn of read_http_response's loop; a response that failed or was truncated reads no further.
ReadHttpChunk(r, chunk, limit, headerLimit) ==
    LET head == r.head \o chunk
        end  == HeaderEnd(head)
    IN IF r.truncated \/ r.at = "error" THEN r
       ELSE IF r.at = "body" THEN AppendHttpBodyChunk(r, chunk, limit)
       ELSE IF Len(head) > headerLimit THEN [r EXCEPT !.at = "error"]
       ELSE IF end = 0 THEN [r EXCEPT !.head = head]
       ELSE IF ~ParseHttpStatusCode(SubSeq(head, 1, end - 1)) THEN [r EXCEPT !.at = "error"]
       ELSE AppendHttpBodyChunk([r EXCEPT !.at = "body", !.head = <<>>], SubSeq(head, end + 4, Len(head)), limit)
ReadHttpResponse(chunks, limit, headerLimit) ==
    LET read == FoldLeft(LAMBDA r, c : ReadHttpChunk(r, c, limit, headerLimit),
                         [at |-> "head", head |-> <<>>, body |-> <<>>, truncated |-> FALSE], chunks)
    IN IF read.at = "body" THEN [status |-> "response", body |-> read.body, truncated |-> read.truncated]
       ELSE [status |-> "error", body |-> <<>>, truncated |-> FALSE]
\* How the network cuts a response into reads changes nothing: while its head fits the limit, any two
\* ways to cut it read the same, the body is what follows the head up to the output limit, and it is
\* marked truncated exactly when there was more.
CutsAgree(bytes, chunks, limit, headerLimit) ==
    LET whole == ReadHttpResponse(chunks, limit, headerLimit)
        end   == HeaderEnd(bytes)
        body  == SubSeq(bytes, end + 4, Len(bytes))
    IN (Len(bytes) <= headerLimit /\ FlattenSeq(chunks) = bytes) =>
         IF end > 1 /\ bytes[1] = "s"
         THEN whole = [status |-> "response", truncated |-> Len(body) > limit,
                       body |-> SubSeq(body, 1, IF Len(body) > limit THEN limit ELSE Len(body))]
         ELSE whole.status = "error"
\* HttpAdapter's status of a response.
HttpStatus(response, code) ==
    IF response.truncated THEN "output_limit_exceeded" ELSE IF code \in 200..399 THEN "completed" ELSE "failed"

-----------------------------------------------------------------------------
(* Skill input (skill.rs).  Characters are one-letter strings: "q" is the    *)
(* double quote, "b" the backslash, "w" whitespace.                          *)

At(t, i) == IF i <= Len(t) THEN t[i] ELSE "end"
RECURSIVE SkipWhitespace(_, _), StringFrom(_, _, _), ConsumeNonString(_, _, _, _, _), MembersFrom(_, _, _)
SkipWhitespace(t, i) == IF At(t, i) = "w" THEN SkipWhitespace(t, i + 1) ELSE i
\* A parse is <<>> when it fails, else <<next index, value>>.
EscapedCharacters == [q |-> "q", b |-> "b", n |-> "newline", t |-> "tab"]
StringFrom(t, i, value) ==
    CASE At(t, i) = "end" -> <<>>
      [] At(t, i) = "q"   -> <<i + 1, value>>
      [] At(t, i) = "b"   -> IF At(t, i + 1) \in DOMAIN EscapedCharacters
                             THEN StringFrom(t, i + 2, Append(value, EscapedCharacters[t[i + 1]]))
                             ELSE IF At(t, i + 1) = "u" /\ i + 5 <= Len(t) THEN StringFrom(t, i + 6, Append(value, "?"))
                             ELSE <<>>
      [] OTHER -> StringFrom(t, i + 1, Append(value, t[i]))
ParseString(t, i) == IF At(t, i) = "q" THEN StringFrom(t, i + 1, <<>>) ELSE <<>>
\* consume_non_string_value: up to a comma or closing brace outside every bracket and string.
ConsumeNonString(t, i, depth, quoted, escaped) ==
    LET c == At(t, i)
    IN CASE c = "end" -> i
         [] c # "end" /\ quoted -> ConsumeNonString(t, i + 1, depth, escaped \/ c # "q", ~escaped /\ c = "b")
         [] ~quoted /\ c = "q" -> ConsumeNonString(t, i + 1, depth, TRUE, FALSE)
         [] ~quoted /\ c \in {"[", "{"} -> ConsumeNonString(t, i + 1, depth + 1, FALSE, FALSE)
         [] ~quoted /\ c \in {"]", "}"} /\ depth > 0 -> ConsumeNonString(t, i + 1, depth - 1, FALSE, FALSE)
         [] ~quoted /\ c \in {",", "}"} /\ depth = 0 -> i
         [] OTHER -> ConsumeNonString(t, i + 1, depth, FALSE, FALSE)
Blank(t, i, j) == \A k \in i..(j - 1) : t[k] = "w"
\* A value is <<"string", text>> or <<"other">>.
ParseValue(t, i) ==
    IF At(t, i) = "q"
    THEN LET s == ParseString(t, i) IN IF s = <<>> THEN <<>> ELSE <<s[1], <<"string", s[2]>> >>
    ELSE LET end == ConsumeNonString(t, i, 0, FALSE, FALSE)
         IN IF Blank(t, i, end) THEN <<>> ELSE <<end, <<"other">> >>
Insert(object, key, value) == [k \in DOMAIN object \cup {key} |-> IF k = key THEN value ELSE object[k]]
\* parse_object's loop, from the place a member or the closing brace is expected.
MembersFrom(t, start, object) ==
    LET i     == SkipWhitespace(t, start)
        key   == ParseString(t, i)
        colon == SkipWhitespace(t, key[1])
        value == ParseValue(t, SkipWhitespace(t, colon + 1))
        after == SkipWhitespace(t, value[1])
        more  == Insert(object, key[2], value[2])
    IN CASE At(t, i) = "}" -> <<i + 1, object>>
         [] At(t, i) # "}" /\ (IF key = <<>> THEN TRUE ELSE At(t, colon) # ":") -> <<>>
         [] OTHER -> IF value = <<>> THEN <<>>
                     ELSE IF At(t, after) = "}" THEN <<after + 1, more>>
                     ELSE IF At(t, after) = "," THEN MembersFrom(t, after + 1, more) ELSE <<>>
NoMembers == [k \in {} |-> <<"other">>]
WholeText(t, read) ==
    IF read = <<>> THEN <<>>
    ELSE IF SkipWhitespace(t, read[1]) # Len(t) + 1 THEN <<>> ELSE <<read[2]>>

ParseJsonObject(t) ==
    LET i == SkipWhitespace(t, 1)
    IN IF At(t, i) # "{" THEN <<>> ELSE WholeText(t, MembersFrom(t, i + 1, NoMembers))
\* validate_object_schema: schema = [required, properties: name -> [string, enum]].
ValidateObjectSchema(schema, object) ==
    /\ schema.required \subseteq DOMAIN object
    /\ \A name \in DOMAIN schema.properties \cap DOMAIN object :
          LET property == schema.properties[name]
          IN property.string => /\ object[name][1] = "string"
                                /\ property.enum # {} => object[name][2] \in property.enum
ValidateSkillInput(schema, input) ==
    schema.type = "object" /\ \E object \in {ParseJsonObject(input)} : object # <<>> /\ ValidateObjectSchema(schema, object[1])
\* Members as they are written out: a quoted string escapes its quotes and backslashes.
QuotedText(text) == <<"q">> \o FlattenSeq([i \in DOMAIN text |-> IF text[i] \in {"q", "b"} THEN <<"b", text[i]>> ELSE <<text[i]>>]) \o <<"q">>
MemberText(m) == QuotedText(m.key) \o m.space \o <<":">> \o m.space \o (IF m.raw = <<>> THEN QuotedText(m.text) ELSE m.raw)
ObjectText(members) ==
    <<"{">> \o FlattenSeq([i \in DOMAIN members |-> (IF i = 1 THEN <<>> ELSE <<",">>) \o MemberText(members[i])]) \o <<"}">>
\* The parser reads every object a client writes, a later member of the same name winning, so the
\* schema is applied to what the skill will see.
SkillInputIsRead(members) ==
    ParseJsonObject(ObjectText(members)) =
        <<FoldLeft(LAMBDA o, m : Insert(o, m.key, IF m.raw = <<>> THEN <<"string", m.text>> ELSE <<"other">>), NoMembers, members)>>

-----------------------------------------------------------------------------
(* Where a skill works (skill.rs).  A path is the sequence of what stands at *)
(* each of its components; Missing stands for nothing.                       *)

Missing == [kind |-> "missing", mine |-> FALSE, shared |-> FALSE]
Created(kind) == [kind |-> kind, mine |-> TRUE, shared |-> FALSE]
EnsureDirectoryMetadata(m) == m.kind = "dir" /\ ~m.shared
EnsureRegularFile(m) == m.kind = "file"
\* ensure_skill_directory_tree: the deepest entry there is must be a proper directory, what is missing
\* below it is created, and the last one must belong to the daemon.
EnsureDirectoryTree(path) ==
    LET present == SelectLastInSeq(path, LAMBDA m : m # Missing)
        tree    == [i \in DOMAIN path |-> IF i <= present THEN path[i] ELSE Created("dir")]
    IN IF present = 0 \/ ~EnsureDirectoryMetadata(path[present]) \/ ~tree[Len(tree)].mine THEN <<>> ELSE tree
\* ensure_skill_path_ancestors: every directory between the root and the file, and the root.
EnsurePathAncestors(tree, root) ==
    \A i \in root..(Len(tree) - 1) : EnsureDirectoryMetadata(tree[i]) /\ tree[i].mine
\* write_skill_file_no_follow: looked at before and after it is opened, never through a link.
WriteFileNoFollow(tree, root, file) ==
    EnsurePathAncestors(Append(tree, file), root) /\ (file = Missing \/ (EnsureRegularFile(file) /\ file.mine))
\* open_skill_file_no_follow, for an artifact the skill left.
OpenFileNoFollow(tree, root, file) == EnsurePathAncestors(Append(tree, file), root) /\ EnsureRegularFile(file) /\ file.mine
\* prepare_run_paths: the artifact root, the work directory below it, its artifacts, the input evidence.
PrepareRunPaths(rootPath, below, file) ==
    LET root  == EnsureDirectoryTree(rootPath)
        work  == EnsureDirectoryTree(root \o below)
        store == EnsureDirectoryTree(Append(work, Missing))
    IN root # <<>> /\ work # <<>> /\ store # <<>> /\ WriteFileNoFollow(work, Len(work), file)
\* A run that got its paths works in a real directory of its own and overwrote no one else's file.
WorkDirIsControlled(rootPath, below, file) ==
    PrepareRunPaths(rootPath, below, file) =>
        /\ below # <<>> /\ Last(below) # Missing => Last(below).kind = "dir" /\ Last(below).mine /\ ~Last(below).shared
        /\ file # Missing => file.kind = "file" /\ file.mine
RelativeArtifactKey(segments) ==
    IF segments # <<>> /\ \A i \in DOMAIN segments :
         segments[i] \notin {<<>>, <<".">>, <<".", ".">>} /\ ToSet(segments[i]) \subseteq {"a", "7", "-", "_", "."}
    THEN <<segments>> ELSE <<>>
\* collect_artifact_dir: one entry it cannot vouch for ends the collection.
CollectArtifactDir(entries) ==
    IF \E i \in DOMAIN entries : ~(entries[i].at.kind \in {"dir", "special"} \/
                                   (RelativeArtifactKey(entries[i].name) # <<>> /\ EnsureRegularFile(entries[i].at) /\ entries[i].at.mine))
    THEN <<>> ELSE SelectSeq(entries, LAMBDA e : e.at.kind = "file")

-----------------------------------------------------------------------------
(* What an invocation is checked for before and after its run; an answer is  *)
(* <<status, what became of the credential session>>.                        *)

\* validate_invocation of the stdio runner, validate_runner_config of the skill runner.
ValidateCommand(command, allowed, limit) == command # "" /\ command \in allowed /\ limit > 0
ValidateRunnerConfig(skill, command, allowed, limit) == skill # "" /\ (command # "none" => ValidateCommand(command, allowed, limit)) /\ limit > 0
\* run_with_spawner_as of the skill runner: which runner, if any.
SkillRunnerOf(command, runAs, entryType) ==
    IF runAs # "current" THEN IF command # "none" THEN "unsupported" ELSE "denied"
    ELSE IF command # "none" THEN "process" ELSE IF entryType = "codex_skill" THEN "builtin" ELSE "unsupported"
\* The end every transport has in common: the run's own error first, then the release's.
Settled(ran, released) == IF ran = "error" THEN <<"error", IF released THEN "released" ELSE "deferred">>
                          ELSE IF released THEN <<ran, "released">> ELSE <<"error", "deferred">>
SkillInvoke(h, ran, released) ==
    IF h.skill = "" \/ h.kind # "workflow_skill" \/ h.gate # "normal" \/ ~h.inputFits \/ ~h.inputValid \/ h.credentialHeader
       \/ SkillRunnerOf(h.command, h.runAs, "codex_skill") \in {"unsupported", "denied"}
       \/ (h.command = "none" /\ h.credentials) \/ ~h.scopeValid
    THEN <<"refused", "none">> ELSE Settled(ran, released)
StdioInvoke(h, ran, released) ==
    IF h.command = "none" \/ h.credentialHeader \/ ~h.inputFits \/ ~h.scopeValid THEN <<"refused", "none">> ELSE Settled(ran, released)
\* The HTTP transport resolves its method and headers after it opened the session; the lease's Drop
\* defers the release when they are refused.
HttpInvoke(h, ran, released) ==
    IF ~h.inputFits \/ ~h.scopeValid THEN <<"refused", "none">>
    ELSE IF ~h.methodValid \/ ~h.headersResolve THEN <<"error", "deferred">> ELSE Settled(ran, released)
HttpMethodParse(text) == IF text \in {"GET", "POST", "PUT", "PATCH", "DELETE"} THEN <<text>> ELSE <<>>
\* TcpHttpClient::send: the steps that can fail before a response is read.
HttpSend(scheme, resolves, timeout, connects, writes) ==
    IF scheme # "http" THEN "unsupported"
    ELSE IF resolves /\ timeout > 0 /\ connects /\ writes THEN "sent" ELSE "unavailable"
\* An invocation never ends with its credential session open, and never reports success when the
\* session could not be released or the runner's own check refused its command.
InvocationsSettle(h, ran, released, allowed, limit) ==
    LET skill == IF ValidateRunnerConfig(h.skill, h.command, allowed, limit) THEN ran ELSE "error"
        stdio == IF ValidateCommand(h.command, allowed, limit) THEN ran ELSE "error"
    IN
    /\ SkillInvoke(h, skill, released)[1] = "completed" => h.command \in allowed \cup {"none"} /\ limit > 0
    /\ StdioInvoke(h, stdio, released)[1] = "completed" => h.command \in allowed
    /\ \A answer \in {SkillInvoke(h, skill, released), StdioInvoke(h, stdio, released), HttpInvoke(h, ran, released)} :
          /\ answer[2] \in {"none", "released", "deferred"}
          /\ answer[1] \notin {"refused", "error"} => answer[2] = "released"
          /\ (h.command = "none" /\ h.credentials) => SkillInvoke(h, skill, released) = <<"refused", "none">>
\* safe_path_segment: what an adapter or request id becomes in a path.
SafeSegment(segment) ==
    LET cleaned == [i \in DOMAIN segment |-> IF segment[i] \in {"a", "7", "-", "_", "."} THEN segment[i] ELSE "_"]
    IN IF \A i \in DOMAIN cleaned : cleaned[i] = "_" THEN <<"unknown">> ELSE cleaned

\* A call that completed went to an origin of the manifest over the one scheme
\* the client speaks, carried no header with a line break, and its whole body
\* is what the peer sent after the head.
HttpCallIsBounded(config, invocation, peer, chunks, code) ==
    LET called == /\ HttpMethodParse(invocation.method) # <<>> /\ ValidateInvocation(config, invocation)
                  /\ HttpSend(invocation.scheme, peer.resolves, peer.timeout, peer.connects, peer.writes) = "sent"
        response == ReadHttpResponse(chunks, config.limit, 8)
        sent == FlattenSeq(chunks)
    IN  (called /\ response.status = "response" /\ HttpStatus(response, code) = "completed") =>
          /\ \E o \in config.origins : o = <<"http">> \o SubSeq(invocation.rest, 1, Len(o) - 1)
          /\ \A h \in invocation.headers : {"r", "n"} \cap (ToSet(h[1]) \cup ToSet(h[2])) = {}
          /\ Len(response.body) <= config.limit
          /\ response.body = SubSeq(sent, HeaderEnd(sent) + 4, Len(sent))

\* The schema is applied to the member the skill will see, the last of its name.
SchemaSeesLastMember(schema, members) ==
    LET mine(name) == SelectSeq(members, LAMBDA m : m.key = name)
        seen(name) == mine(name)[Len(mine(name))]
        names == {members[i].key : i \in DOMAIN members}
    IN  ValidateSkillInput(schema, ObjectText(members)) <=>
          /\ schema.type = "object" /\ schema.required \subseteq names
          /\ \A name \in names \cap DOMAIN schema.properties : schema.properties[name].string =>
                seen(name).raw = <<>> /\ (schema.properties[name].enum = {} \/ seen(name).text \in schema.properties[name].enum)

\* Every file collected from a run can be opened without following a link, under
\* a key of plain segments; when one cannot, nothing is collected.
CollectedIsOpenable(entries) ==
    LET collected == CollectArtifactDir(entries) IN
    /\ \A i \in DOMAIN collected :
          /\ OpenFileNoFollow(<<Created("dir")>>, 1, collected[i].at)
          /\ RelativeArtifactKey(collected[i].name) = <<collected[i].name>>
    /\ collected # <<>> => \A i \in DOMAIN entries : entries[i].at.kind = "file" => entries[i] \in ToSet(collected)
    /\ (\E i \in DOMAIN entries : entries[i].at.kind = "link") => collected = <<>>

\* An id becomes one segment of a path, and one that is already a segment stays.
SegmentsAreNamed(id) ==
    LET segment == SafeSegment(id) IN
    /\ segment # <<>> /\ "/" \notin ToSet(segment)
    /\ RelativeArtifactKey(<<id>>) # <<>> /\ ToSet(id) # {"_"} => segment = id

\* An identity is read whole: with any part of it missing the record is refused,
\* and only a record without any of it, the attempt included, stands for no process.
IdentityIsWhole(r) ==
    LET cleared(f) == [r EXCEPT ![f] = IF f = "attempt" THEN 0 ELSE <<>>]
        empty(f) == r[f] = cleared(f)[f]
        parts == {"pid", "token", "attempt", "groupId", "job"}
    IN
    /\ FromSnapshot(r) = "identity" =>
          \A f \in parts : ~empty(f) => FromSnapshot(cleared(f)) = "invalid"
    /\ FromSnapshot(r) = "none" <=> \A f \in parts : empty(f)
=============================================================================
