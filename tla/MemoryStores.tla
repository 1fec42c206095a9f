---------------------------- MODULE MemoryStores ----------------------------
(***************************************************************************)
(* The memory crate: the durable memory and knowledge directories and      *)
(* their index lock (durable.rs), the schedule store (schedule.rs), and    *)
(* the services an Agent reads through (memory_service.rs,                 *)
(* knowledge_service.rs, redaction.rs, context_builder.rs).                *)
(*                                                                         *)
(* The two stores are state machines over shared variables-per-machine;    *)
(* the services are pure operators on a set of records or items.           *)
(***************************************************************************)
EXTENDS Integers, Sequences, FiniteSets, SequencesExt, TLC

CONSTANTS Writers, Maintainers,   \* processes using one memory directory
          Callers, OwnerOf(_),    \* users of one schedule, and the owner name each one gives
          StaleAfter,             \* INDEX_LOCK_STALE_AFTER_MS, in ticks
          MaxClock, MaxCrashes,   \* bounds, also on the versions of the record
          MaxVersion, MaxGeneration \* and the generations of the schedule

VARIABLES clock,      \* current_time_ms
          lock,       \* the index lock file: exists, has its payload, created_at_ms
          checkpoint, \* the maintenance checkpoint: exists, "started" or "completed", updated_at_ms
          file,       \* the record of one key: exists, version, expires_at_ms
          left,       \* the version in the temporary file of a write cut before its rename, 0 if the last was not
          actor,      \* where each process is, and what it has read
          crashes

indexVars == <<clock, lock, checkpoint, file, left, actor, crashes>>
Processes == Writers \cup Maintainers
Idle == [at |-> "idle", now |-> 0, seen |-> 0, version |-> 0, expires |-> 0]
NoLock == [exists |-> FALSE, payload |-> FALSE, created |-> 0]

IndexInit ==
    /\ clock = 0 /\ crashes = 0 /\ lock = NoLock /\ left = 0
    /\ checkpoint = [status |-> "missing", updated |-> 0]
    /\ file = [exists |-> FALSE, version |-> 0, expires |-> 0]
    /\ actor = [p \in Processes |-> Idle]

To(p, place) == actor' = [actor EXCEPT ![p].at = place]
IsExpiredAt(expires, now) == expires # 0 /\ expires <= now

-----------------------------------------------------------------------------
(* The index lock and what is done under it.                                 *)

\* DurableIndexLockGuard::acquire: create_new, then the payload; a lock that exists is a conflict.
Acquire(p, next) ==
    IF lock.exists THEN To(p, "idle") /\ UNCHANGED lock
    ELSE lock' = [exists |-> TRUE, payload |-> FALSE, created |-> 0] /\ To(p, next)
StartWrite(p) == /\ p \in Writers /\ actor[p].at = "idle" /\ Acquire(p, "sign")
                 /\ UNCHANGED <<clock, checkpoint, file, left, crashes>>
AcquireForMaintenance(p) == /\ actor[p].at = "acquire" /\ Acquire(p, "sign")
                            /\ UNCHANGED <<clock, checkpoint, file, left, crashes>>
SignLock(p) ==
    /\ actor[p].at = "sign"
    /\ lock' = IF lock.exists THEN [lock EXCEPT !.payload = TRUE, !.created = clock] ELSE lock
    /\ To(p, IF p \in Maintainers THEN "begin" ELSE "load")
    /\ UNCHANGED <<clock, checkpoint, file, left, crashes>>
\* Drop removes whatever lock is at the path.
Unlock(p) == /\ actor[p].at = "unlock" /\ lock' = NoLock /\ actor' = [actor EXCEPT ![p] = Idle]
             /\ UNCHANGED <<clock, checkpoint, file, left, crashes>>

\* write and load: the directory is read; a write takes the next version, a load is done.
Load(p) ==
    /\ actor[p].at = "load"
    /\ \/ To(p, "unlock")
       \/ /\ file.exists => file.version < MaxVersion
          /\ \E ttl \in {0, 1} :
             actor' = [actor EXCEPT ![p].at = "remove", ![p].version = IF file.exists THEN file.version + 1 ELSE 1,
                                    ![p].expires = IF ttl = 0 THEN 0 ELSE clock + ttl]
    /\ UNCHANGED <<clock, lock, checkpoint, file, left, crashes>>
\* write_text_atomically: the temporary file is written, the target removed, the temporary file renamed.
RemoveTarget(p) == /\ actor[p].at = "remove" /\ file' = [file EXCEPT !.exists = FALSE] /\ To(p, "rename")
                   /\ UNCHANGED <<clock, lock, checkpoint, left, crashes>>
RenameTemp(p) ==
    /\ actor[p].at = "rename"
    /\ file' = [exists |-> TRUE, version |-> actor[p].version, expires |-> actor[p].expires]
    /\ left' = 0 /\ To(p, "unlock")
    /\ UNCHANGED <<clock, lock, checkpoint, crashes>>
\* A file operation of the write fails and its error is returned: after the removal only the temporary file is left.
Cut(p) == left' = IF actor[p].at = "rename" THEN actor[p].version ELSE left
WriteFails(p) == /\ actor[p].at \in {"remove", "rename"} /\ Cut(p) /\ To(p, "unlock")
                 /\ UNCHANGED <<clock, lock, checkpoint, file, crashes>>

-----------------------------------------------------------------------------
(* Maintenance: compact_expired_at and rebuild_checkpoint.                   *)

\* stale_started_checkpoint_updated_at: an interrupted maintenance leaves "started" behind.
StaleStarted(now) == checkpoint.status = "started" /\ now - checkpoint.updated >= StaleAfter
StartMaintenance(p) ==
    /\ p \in Maintainers /\ actor[p].at = "idle"
    /\ actor' = [actor EXCEPT ![p] = [Idle EXCEPT !.at = IF StaleStarted(clock) THEN "judge" ELSE "acquire",
                                                 !.now = clock, !.seen = checkpoint.updated]]
    /\ UNCHANGED <<clock, lock, checkpoint, file, left, crashes>>
\* maintenance_lock_belongs_to_checkpoint
BelongsToCheckpoint(p) ==
    lock.payload /\ lock.created <= actor[p].seen /\ actor[p].now - lock.created >= StaleAfter
JudgeLock(p) ==
    /\ actor[p].at = "judge"
    /\ To(p, IF lock.exists /\ BelongsToCheckpoint(p) THEN "recover" ELSE "acquire")
    /\ UNCHANGED <<clock, lock, checkpoint, file, left, crashes>>
\* recover_interrupted_maintenance_lock removes the file at the lock's path; one already gone is an error.
RecoverLock(p) ==
    /\ actor[p].at = "recover"
    /\ lock' = NoLock /\ To(p, IF lock.exists THEN "acquire" ELSE "idle")
    /\ UNCHANGED <<clock, checkpoint, file, left, crashes>>
\* write_memory_checkpoint and write_knowledge_checkpoint: the old checkpoint is removed, then the new one renamed.
RemoveCheckpoint(p) ==
    /\ actor[p].at \in {"begin", "finish"}
    /\ checkpoint' = [status |-> "missing", updated |-> 0]
    /\ To(p, IF actor[p].at = "begin" THEN "started" ELSE "completed")
    /\ UNCHANGED <<clock, lock, file, left, crashes>>
RenameCheckpoint(p) ==
    /\ actor[p].at \in {"started", "completed"}
    /\ checkpoint' = [status |-> actor[p].at, updated |-> clock]
    /\ To(p, IF actor[p].at = "started" THEN "scan" ELSE "unlock")
    /\ UNCHANGED <<clock, lock, file, left, crashes>>
\* The scan reads the record and removes it if it has expired.
Scan(p) ==
    /\ actor[p].at = "scan"
    /\ To(p, IF file.exists /\ IsExpiredAt(file.expires, actor[p].now) THEN "delete" ELSE "finish")
    /\ UNCHANGED <<clock, lock, checkpoint, file, left, crashes>>
DeleteExpired(p) == /\ actor[p].at = "delete" /\ file' = [file EXCEPT !.exists = FALSE] /\ To(p, "finish")
                    /\ UNCHANGED <<clock, lock, checkpoint, left, crashes>>

\* A file operation of the maintenance fails: the lock is dropped, and a checkpoint already "started" stays so.
\* (Not within the millisecond of that checkpoint: a writer's lock of the same millisecond would pass for its own.)
MaintenanceFails(p) ==
    /\ actor[p].at \in {"begin", "started", "scan", "delete", "finish", "completed"}
    /\ checkpoint.status = "started" => clock > checkpoint.updated
    /\ To(p, "unlock")
    /\ UNCHANGED <<clock, lock, checkpoint, file, left, crashes>>

\* A process dies and is started again: its lock file stays.
Crash(p) == /\ actor[p].at # "idle" /\ crashes < MaxCrashes /\ clock + StaleAfter <= MaxClock
            /\ crashes' = crashes + 1 /\ Cut(p) /\ actor' = [actor EXCEPT ![p] = Idle]
            /\ UNCHANGED <<clock, lock, checkpoint, file>>
IndexTick == /\ clock < MaxClock /\ clock' = clock + 1
             /\ UNCHANGED <<lock, checkpoint, file, left, actor, crashes>>

WriterSteps(p) == StartWrite(p) \/ Load(p) \/ RemoveTarget(p) \/ RenameTemp(p) \/ WriteFails(p)
MaintainerSteps(p) ==
    \/ StartMaintenance(p) \/ JudgeLock(p) \/ RecoverLock(p) \/ AcquireForMaintenance(p)
    \/ RemoveCheckpoint(p) \/ RenameCheckpoint(p) \/ Scan(p) \/ DeleteExpired(p)
    \/ MaintenanceFails(p)
IndexNext ==
    \/ IndexTick
    \/ \E p \in Processes : WriterSteps(p) \/ MaintainerSteps(p) \/ SignLock(p) \/ Unlock(p) \/ Crash(p)

\* A record leaves the directory when it has expired, or for the moment in which the writer that holds its next
\* version replaces it.  A record that is missing for longer had expired, or its last write was cut, by a crash or
\* a failing rename, exactly between the removal and the rename: then the old version is lost and the new one is in
\* the temporary file only.  And a version that is written follows the one that was there, starting again from 1
\* only where no record was left to read.  Neither two writers nor a writer and the garbage collector undo each
\* other, recovered locks included.  It needs one maintenance at a time: of two that judge the same interrupted
\* lock, the later removes the other's new one.
Gone == file.version = 0 \/ IsExpiredAt(file.expires, clock) \/ left # 0
Replaced == \E p \in Processes : actor[p].at = "rename" /\ actor[p].version = file.version + 1
MissingIsExplained == ~file.exists => Gone \/ Replaced
KeptUntilExpired ==
    /\ []MissingIsExplained
    /\ [][/\ file.exists /\ ~file'.exists => IsExpiredAt(file.expires, clock) \/ Replaced'
          /\ file'.exists /\ file' # file => file'.version = file.version + 1 \/ (file'.version = 1 /\ ~file.exists /\ Gone)
         ]_indexVars

-----------------------------------------------------------------------------
(* The schedule store.                                                       *)

VARIABLES now,        \* the callers' clock
          schedule,   \* the published record
          anchor,     \* who holds the lock on the anchor file
          job         \* per caller: the record it is about to publish, the generation it holds

scheduleVars == <<now, schedule, anchor, job>>
NoSchedule == [exists |-> FALSE, next |-> 0, owner |-> "", expires |-> 0, generation |-> 0]
ScheduleInit ==
    /\ now = 0 /\ schedule = NoSchedule /\ anchor = {}
    /\ job = [c \in Callers |-> [op |-> "idle", record |-> NoSchedule, generation |-> 0]]

\* Each operation takes the anchor's lock, reads the record and checks it, writes a temporary file, and
\* publishes it by a rename; a refused one changes nothing.
Lock(c, op, record) ==
    /\ job[c].op = "idle" /\ anchor = {} /\ anchor' = {c}
    /\ job' = [job EXCEPT ![c].op = op, ![c].record = record]
    /\ UNCHANGED <<now, schedule>>
Fenced(c) == schedule.exists /\ schedule.generation = job[c].generation /\ schedule.owner = OwnerOf(c)
Upsert(c) == \E next \in {now, now + 1} :
    Lock(c, "upsert", [exists |-> TRUE, next |-> next, owner |-> "", expires |-> 0, generation |-> schedule.generation + 1])
Claimable(c) == /\ schedule.exists /\ schedule.next <= now
                /\ schedule.expires > now => schedule.owner = OwnerOf(c)
\* Fault: a claim keeps the generation of the one it takes over.
ClaimFault(c) == /\ Claimable(c)
                 /\ Lock(c, "claim", [schedule EXCEPT !.owner = OwnerOf(c), !.expires = now + 1])

Claim(c) == /\ Claimable(c)
            /\ Lock(c, "claim", [schedule EXCEPT !.owner = OwnerOf(c), !.expires = now + 1, !.generation = @ + 1])
Complete(c) ==
    /\ Fenced(c)
    /\ Lock(c, "complete", [schedule EXCEPT !.next = now + 1, !.owner = "", !.expires = 0, !.generation = @ + 1])
Renew(c) == /\ Fenced(c) /\ schedule.expires > now
            /\ Lock(c, "renew", [schedule EXCEPT !.expires = now + 1, !.generation = @ + 1])
\* The rename; the caller gets the new record, and the lock is dropped.
Publish(c) ==
    /\ job[c].op # "idle"
    /\ schedule' = job[c].record /\ anchor' = {}
    /\ job' = [job EXCEPT ![c].op = "idle", ![c].record = NoSchedule,
                          ![c].generation = IF job[c].op \in {"claim", "renew"} THEN job[c].record.generation ELSE @]
    /\ UNCHANGED now
\* A caller dies before its rename (the OS drops its lock), or the write fails.
Abandon(c) == /\ job[c].op # "idle" /\ anchor' = {}
              /\ job' = [job EXCEPT ![c] = [op |-> "idle", record |-> NoSchedule, generation |-> 0]]
              /\ UNCHANGED <<now, schedule>>
ScheduleTick == now < MaxClock /\ now' = now + 1 /\ UNCHANGED <<schedule, anchor, job>>
ScheduleNext ==
    \/ ScheduleTick
    \/ \E c \in Callers :
          \/ schedule.generation < MaxGeneration /\ (Upsert(c) \/ Claim(c) \/ Complete(c) \/ Renew(c))
          \/ Publish(c) \/ Abandon(c)

\* At most one caller holds a claim the store would still complete or renew, whatever owner names they share:
\* a claim taken over, released by an upsert or completed is fenced off by the generation.
OneLiveClaim == \A c, d \in Callers : Fenced(c) /\ Fenced(d) => c = d

-----------------------------------------------------------------------------
(* The codecs of durable.rs.  A text is a sequence of code points; a stored  *)
(* document a sequence of <<name, value>> lines, each value a sequence.      *)

HexDigit(d) == IF d < 10 THEN 48 + d ELSE 87 + d
HexValue(c) == CASE c \in 48..57 -> c - 48 [] c \in 97..102 -> c - 87 [] OTHER -> -1
EncodeField(text) == FlattenSeq([i \in DOMAIN text |-> <<HexDigit(text[i] \div 16), HexDigit(text[i] % 16)>>])
Refused == <<-1>>
DecodeField(value) ==
    IF Len(value) % 2 = 1 \/ \E i \in DOMAIN value : HexValue(value[i]) = -1 THEN Refused
    ELSE [i \in 1..(Len(value) \div 2) |-> 16 * HexValue(value[2 * i - 1]) + HexValue(value[2 * i])]

Digits(n, base) ==
    LET of[k \in Nat] == IF k < base THEN <<HexDigit(k)>> ELSE Append(of[k \div base], HexDigit(k % base))
    IN  of[n]
NumberOf(digits, base) == FoldLeft(LAMBDA n, c : n * base + HexValue(c), 0, digits)
\* One "<count>:<code point>;" per run of equal characters.
RunLengthEncode(text) ==
    LET starts == SetToSortSeq({i \in DOMAIN text : i = 1 \/ text[i] # text[i - 1]}, <)
        Count(k) == (IF k = Len(starts) THEN Len(text) + 1 ELSE starts[k + 1]) - starts[k]
    IN  FlattenSeq([k \in DOMAIN starts |-> Digits(Count(k), 10) \o <<58>> \o Digits(text[starts[k]], 16) \o <<59>>])
\* The parts between separators, the empty ones left out.
Segments(text, separator) ==
    LET cuts == {0, Len(text) + 1} \cup {i \in DOMAIN text : text[i] = separator}
        starts == SetToSortSeq({i \in cuts : i + 1 \notin cuts /\ i <= Len(text)}, <)
    IN  [k \in DOMAIN starts |-> SubSeq(text, starts[k] + 1, CHOOSE j \in starts[k] + 1..Len(text) :
            j + 1 \in cuts /\ \A m \in starts[k] + 1..j : m \notin cuts)]
RunLengthDecode(text) ==
    LET segments == Segments(text, 59)
        Colon(s) == SelectInSeq(s, LAMBDA c : c = 58)
        Count(s) == SubSeq(s, 1, Colon(s) - 1)
        Code(s) == SubSeq(s, Colon(s) + 1, Len(s))
        Valid(s) == /\ Colon(s) > 0 /\ Count(s) # <<>> /\ Code(s) # <<>>
                    /\ \A i \in DOMAIN Count(s) : Count(s)[i] \in 48..57
                    /\ \A i \in DOMAIN Code(s) : HexValue(Code(s)[i]) >= 0
    IN  IF \E k \in DOMAIN segments : ~Valid(segments[k]) THEN Refused
        ELSE FlattenSeq([k \in DOMAIN segments |-> [i \in 1..NumberOf(Count(segments[k]), 10) |-> NumberOf(Code(segments[k]), 16)]])

\* parse_fields keeps the last line of a name, parse_multimap all of them; a value of a name that is missing is <<>>.
Values(doc, name) == LET lines == SelectSeq(doc, LAMBDA l : l[1] = name) IN [i \in DOMAIN lines |-> lines[i][2]]
LastOf(doc, name) == IF Values(doc, name) = <<>> THEN <<>> ELSE Last(Values(doc, name))
FirstOf(doc, name) == IF Values(doc, name) = <<>> THEN <<>> ELSE Values(doc, name)[1]

\* memory_record_to_storage and memory_record_from_storage; owner and expires are sequences of at most one value.
MemoryRecordToStorage(r) ==
    << <<"format", <<"eva.memory.v1">>>>, <<"key", EncodeField(r.key)>>,
       <<"value", EncodeField(IF r.compression = "run_length" THEN RunLengthEncode(r.value) ELSE r.value)>>,
       <<"visibility", <<r.visibility>>>>, <<"owner_agent", IF r.owner = <<>> THEN <<>> ELSE EncodeField(r.owner[1])>>,
       <<"version", Digits(r.version, 10)>>, <<"expires_at_ms", IF r.expires = <<>> THEN <<>> ELSE Digits(r.expires[1], 10)>>,
       <<"compression", <<r.compression>>>> >>
MemoryRecordFromStorage(doc) ==
    LET compression == LastOf(doc, "compression")[1]
        stored == DecodeField(LastOf(doc, "value"))
        owner == LastOf(doc, "owner_agent")
        expires == LastOf(doc, "expires_at_ms")
    IN  [key |-> DecodeField(LastOf(doc, "key")), value |-> IF compression = "run_length" THEN RunLengthDecode(stored) ELSE stored,
         visibility |-> LastOf(doc, "visibility")[1], owner |-> IF owner = <<>> THEN <<>> ELSE <<DecodeField(owner)>>,
         version |-> NumberOf(LastOf(doc, "version"), 10), expires |-> IF expires = <<>> THEN <<>> ELSE <<NumberOf(expires, 10)>>,
         compression |-> compression]
\* memory_record_path: "global__" or "private__<owner>__", then the key in hex.
MemoryRecordPath(r) ==
    (IF r.visibility = "private" THEN <<"private__">> \o r.owner[1] \o <<95, 95>> ELSE <<"global__">>) \o EncodeField(r.key)

Blank(text) == \A i \in DOMAIN text : text[i] = 32
\* KnowledgeItem::with_tag: blank and repeated tags are dropped, the rest kept in order (a set).
WithTag(item, tag) == IF Blank(tag) THEN item ELSE [item EXCEPT !.tags = @ \cup {tag}]
KnowledgeItemToStorage(item) ==
    << <<"format", <<"eva.knowledge.v1">>>>, <<"id", EncodeField(item.id)>>, <<"title", EncodeField(item.title)>>,
       <<"digest", EncodeField(item.digest)>>, <<"summary", EncodeField(item.summary)>>, <<"content", EncodeField(item.content)>>,
       <<"request_id", IF item.request = <<>> THEN <<>> ELSE EncodeField(item.request[1])>> >>
    \o [i \in 1..Cardinality(item.tags) |-> <<"tag", EncodeField(SetToSeq(item.tags)[i])>>]
\* KnowledgeItem::new refuses a blank summary or content; KnowledgeId::parse a blank, padded or slashed id.
KnowledgeIdParses(id) == ~Blank(id) /\ id[1] # 32 /\ Last(id) # 32 /\ \A i \in DOMAIN id : id[i] \notin {47, 92}
KnowledgeItemNew(item) == KnowledgeIdParses(item.id) /\ ~Blank(item.summary) /\ ~Blank(item.content)
KnowledgeItemFromStorage(doc) ==
    LET Field(name) == DecodeField(FirstOf(doc, name))
        request == FirstOf(doc, "request_id")
        tags == Values(doc, "tag")
    IN  FoldLeft(WithTag, [id |-> Field("id"), title |-> Field("title"), digest |-> Field("digest"), summary |-> Field("summary"),
                           content |-> Field("content"), tags |-> {}, request |-> IF request = <<>> THEN <<>> ELSE <<DecodeField(request)>>],
                 [i \in DOMAIN tags |-> DecodeField(tags[i])])

\* What a store writes it reads back: values whatever their characters and compression, absent owners, expiries
\* and request ids as absent, and two records of different Agents, scopes or keys never share a file.
MemoryRoundTrip(r) == MemoryRecordFromStorage(MemoryRecordToStorage(r)) = r
KnowledgeRoundTrip(item) == KnowledgeItemNew(item) => KnowledgeItemFromStorage(KnowledgeItemToStorage(item)) = item
PathsAreDistinct(r, s) ==
    Len(MemoryRecordPath(r)) = Len(MemoryRecordPath(s)) /\ MemoryRecordPath(r)[1] = MemoryRecordPath(s)[1]
    /\ (\A i \in 2..Len(MemoryRecordPath(r)) : MemoryRecordPath(r)[i] = MemoryRecordPath(s)[i])
    => <<r.visibility, r.owner, r.key>> = <<s.visibility, s.owner, s.key>>

-----------------------------------------------------------------------------
(* What an Agent sees.  Here a text is a sequence of words, a word a         *)
(* sequence of pieces: "secret" (a sensitive key fragment), "sk" (a          *)
(* sensitive prefix), "=", ":" or ordinary text.                             *)

Replacement == "[REDACTED]"
Position(word, piece) == SelectInSeq(word, LAMBDA x : x = piece)
SensitiveKey(word, at) == at > 0 /\ \E i \in 1..(at - 1) : word[i] = "secret"
\* redact_token: a sensitive prefix, then the text after the first "=", then after the first ":".
RedactToken(word) ==
    LET equals == Position(word, "=")
        colon == Position(word, ":")
    IN  IF word # <<>> /\ word[1] = "sk" THEN <<Replacement>>
        ELSE IF SensitiveKey(word, equals) THEN Append(SubSeq(word, 1, equals), Replacement)
        ELSE IF SensitiveKey(word, colon) THEN Append(SubSeq(word, 1, colon), Replacement)
        ELSE word
RedactText(text, enabled) == IF enabled THEN [i \in DOMAIN text |-> RedactToken(text[i])] ELSE text
Replacements(text, enabled) ==
    IF ~enabled THEN 0
    ELSE Cardinality({i \in DOMAIN text :
            LET w == text[i] IN (w # <<>> /\ w[1] = "sk") \/ SensitiveKey(w, Position(w, "=")) \/ SensitiveKey(w, Position(w, ":"))})

\* InMemoryMemoryService: a function from <<visibility, owner, key>> to records; keys are ordered numbers.
ValidateMemoryKey(key) == key > 0
IndexKey(r) == <<r.visibility, r.owner, r.key>>
WriteIsValid(w) ==
    /\ ValidateMemoryKey(w.key) /\ w.value # <<>>
    /\ (w.visibility = "private") = (w.owner # "")
Insert(records, r) == {x \in records : IndexKey(x) # IndexKey(r)} \cup {r}
MemoryWrite(records, w) ==
    LET old == {x \in records : IndexKey(x) = IndexKey(w)}
        version == IF old = {} THEN 1 ELSE (CHOOSE x \in old : TRUE).version + 1
    IN  IF WriteIsValid(w) THEN Insert(records, [key |-> w.key, value |-> w.value, visibility |-> w.visibility, owner |-> w.owner,
                                                 version |-> version, expires |-> w.expires])
        ELSE records
AuthorizeRead(request) == request.visibility = "private" => request.owner = request.requester
\* read_at: denied ("denied"), or the one record of that scope and key that has not expired.
ReadAt(records, request, at) ==
    IF ~ValidateMemoryKey(request.key) THEN [status |-> "invalid", found |-> {}]
    ELSE IF ~AuthorizeRead(request) THEN [status |-> "denied", found |-> {}]
    ELSE [status |-> "ok", found |-> {r \in records : IndexKey(r) = IndexKey(request) /\ ~IsExpiredAt(r.expires, at)}]
ByKey(records) == SetToSortSeq(records, LAMBDA a, b : a.key < b.key)
Take(seq, limit) == SubSeq(seq, 1, IF limit < Len(seq) THEN limit ELSE Len(seq))
ListPrivateAt(records, agent, at) ==
    ByKey({r \in records : r.visibility = "private" /\ r.owner = agent /\ ~IsExpiredAt(r.expires, at)})
ListGlobalAt(records, at) == ByKey({r \in records : r.visibility = "global" /\ ~IsExpiredAt(r.expires, at)})
SnapshotForAgentAt(records, agent, privateLimit, globalLimit, at) ==
    [private |-> Take(ListPrivateAt(records, agent, at), privateLimit), global |-> Take(ListGlobalAt(records, at), globalLimit)]

\* score_item and search: every field that holds the query counts, three for id, title and summary, one for the
\* content, two for a tag; best score first, then the smaller id; at most limit results.
Holds(text, query) == \E i \in DOMAIN text : \E j \in DOMAIN text[i] : text[i][j] = query
ScoreItem(item, query) ==
    (IF item.name = query THEN 3 ELSE 0) + (IF Holds(item.title, query) THEN 3 ELSE 0)
    + (IF Holds(item.summary, query) THEN 3 ELSE 0) + (IF Holds(item.content, query) THEN 1 ELSE 0)
    + 2 * (IF query \in item.tags THEN 1 ELSE 0)
HasRequiredTags(item, required) == required \subseteq item.tags
Better(query, a, b) ==
    \/ ScoreItem(a, query) > ScoreItem(b, query)
    \/ ScoreItem(a, query) = ScoreItem(b, query) /\ a.id < b.id
Search(items, query, required, limit) ==
    Take(SetToSortSeq({i \in items : HasRequiredTags(i, required) /\ ScoreItem(i, query) > 0},
                      LAMBDA a, b : Better(query, a, b)), limit)
\* index refuses an id it holds; rebuild_from_items indexes one item after another.
IndexItem(items, item) == IF \E i \in items : i.id = item.id THEN [ok |-> FALSE, items |-> items]
                          ELSE [ok |-> TRUE, items |-> items \cup {item}]
RebuildFromItems(items) ==
    FoldLeft(LAMBDA acc, i : IF acc.ok THEN IndexItem(acc.items, i) ELSE acc, [ok |-> TRUE, items |-> {}], items)

RedactMemoryRecord(r, enabled) == [r EXCEPT !.value = RedactText(@, enabled)]
RedactKnowledgeResult(item, enabled) ==
    [item EXCEPT !.summary = RedactText(@, enabled), !.content = RedactText(@, enabled)]
RedactKnowledgeItem(item, enabled) ==
    [RedactKnowledgeResult(item, enabled) EXCEPT !.title = RedactText(@, enabled), !.uri = RedactText(@, enabled)]
\* ContextBuilder::build and build_observed: the Agent's own and the global memory, and the best knowledge, redacted.
BuildContext(records, items, request, enabled) ==
    LET memory == SnapshotForAgentAt(records, request.agent, request.private, request.global, request.at)
        knowledge == Search(items, request.query, {}, request.knowledge)
        Each(seq, Op(_, _)) == [i \in DOMAIN seq |-> Op(seq[i], enabled)]
        MemoryCount(seq) == FoldLeft(LAMBDA n, r : n + Replacements(r.value, enabled), 0, seq)
        ItemCount(seq) == FoldLeft(LAMBDA n, i : n + Replacements(i.summary, enabled) + Replacements(i.content, enabled), 0, seq)
    IN  [memory |-> Each(memory.private, RedactMemoryRecord), global |-> Each(memory.global, RedactMemoryRecord),
         knowledge |-> Each(knowledge, RedactKnowledgeResult),
         redactions |-> MemoryCount(memory.private) + MemoryCount(memory.global) + ItemCount(knowledge)]

\* A context holds only what its Agent may read and only what has not expired, every record of it readable by
\* read_at at that time, within the budget, and no secret value after a sensitive key of a word.
LeaksNothing(text) == \A i \in DOMAIN text :
    LET w == text[i] IN \A j \in DOMAIN w :
        w[j] \in {"=", ":"} /\ Position(w, w[j]) = j /\ SensitiveKey(w, j) /\ j < Len(w) =>
            \E k \in (j + 1)..Len(w) : w[k] = Replacement
ContextIsOwnAndRedacted(records, items, request) ==
    LET c == BuildContext(records, items, request, TRUE)
        Readable(r, visibility, owner) ==
            LET found == ReadAt(records, [requester |-> request.agent, visibility |-> visibility, owner |-> owner, key |-> r.key],
                                request.at).found
            IN  \E x \in found : RedactMemoryRecord(x, TRUE) = r
    IN  /\ \A i \in DOMAIN c.memory : Readable(c.memory[i], "private", request.agent) /\ LeaksNothing(c.memory[i].value)
        /\ \A i \in DOMAIN c.global : Readable(c.global[i], "global", "") /\ LeaksNothing(c.global[i].value)
        /\ \A i \in DOMAIN c.knowledge : LeaksNothing(c.knowledge[i].content) /\ LeaksNothing(c.knowledge[i].summary)
        /\ Len(c.memory) <= request.private /\ Len(c.global) <= request.global /\ Len(c.knowledge) <= request.knowledge
        /\ c.redactions = 0 => c = BuildContext(records, items, request, FALSE)
\* Nothing outside the results of a search is better than something in them, and no match is left out while
\* there is room.
SearchIsTop(items, query, required, limit) ==
    LET results == Search(items, query, required, limit)
        matches == {i \in items : HasRequiredTags(i, required) /\ ScoreItem(i, query) > 0}
    IN  /\ \A i \in matches \ ToSet(results) : \A k \in DOMAIN results : Better(query, results[k], i)
        /\ Len(results) = (IF Cardinality(matches) < limit THEN Cardinality(matches) ELSE limit)

-----------------------------------------------------------------------------
(* External retrieval: execute_with_redaction_policy.                        *)

\* A provider's answer is "error" (the invocation failed), a status, and an item or nothing readable.
Retrieve(items, query, allowed, answer, enabled) ==
    LET Skip(status) == [ok |-> TRUE, status |-> status, items |-> items]
        item == RedactKnowledgeItem(answer.item, enabled)
    IN  CASE query = "" -> [ok |-> FALSE, status |-> "invalid", items |-> items]
          [] query # "" /\ ~allowed -> Skip("policy_denied")
          [] query # "" /\ allowed /\ answer.status \in {"error", "accepted", "failed", "cancelled"} -> Skip("provider_failed")
          [] query # "" /\ allowed /\ answer.status = "timeout" -> Skip("provider_timeout")
          [] query # "" /\ allowed /\ answer.status = "completed" /\ ~answer.readable -> Skip("schema_rejected")
          [] OTHER -> LET indexed == IndexItem(items, item)
                      IN  [ok |-> indexed.ok, status |-> IF indexed.ok THEN "indexed" ELSE "conflict", items |-> indexed.items]
\* The knowledge index changes only when the policy allowed the retrieval, the provider completed it and its answer
\* was read; it then gains exactly one redacted item, and an item it had before is never replaced.
RetrievalIndexesOnlyAccepted(items, query, allowed, answer) ==
    LET r == Retrieve(items, query, allowed, answer, TRUE)
    IN  /\ items \subseteq r.items
        /\ r.items # items => /\ r.status = "indexed" /\ allowed /\ answer.readable
                              /\ \A i \in r.items \ items : LeaksNothing(i.content) /\ LeaksNothing(i.summary) /\ LeaksNothing(i.title)

\* An index rebuilt from its items is the same index in whatever order they come,
\* and an item that comes twice stops the rebuild.
RebuildIsWhole(items) ==
    LET order == SetToSeq(items) IN
    /\ \A s \in {order, Reverse(order)} : RebuildFromItems(s) = [ok |-> TRUE, items |-> items]
    /\ \A i \in DOMAIN order : ~RebuildFromItems(Append(order, order[i])).ok
=============================================================================
