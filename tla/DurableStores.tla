---------------------------- MODULE DurableStores ----------------------------
(***************************************************************************)
(* The storage crate's smaller stores: the backend that is opened before   *)
(* any of them, the artifact store with its object and metadata files, the *)
(* versioned state store, the audit sink, and the text formats they and    *)
(* the event log keep their records in.                                    *)
(*                                                                         *)
(* Four independent state machines share the module; each has an Init and  *)
(* a Next of its own.  A file is a sequence of at most one content; a      *)
(* document of the text formats is the sequence of its <<name, value>>     *)
(* lines.  atomic_write replaces a file in one step; fs::write and the     *)
(* no-follow artifact write truncate it first.                             *)
(***************************************************************************)
EXTENDS Naturals, Sequences, FiniteSets, SequencesExt

CONSTANTS Actors, Contents, MaxWrites

VARIABLES backend,   \* manifest, directories and migration lock on disk
          opener,    \* where each process is in FileSystemDurableBackend::open
          artifact,  \* the object and metadata files of one key
          putter,    \* where each process is in put_bytes or try_get_bytes
          state,     \* one record of the state store, its lock, the writer
          setter,    \* where each process is in compare_and_set
          audit      \* the audit directory and the sink opened on it

-----------------------------------------------------------------------------
(* Opening the backend (durable_backend.rs).  A mode is "ro", "rw" (without  *)
(* create_if_missing) or "create".                                           *)

IsReadOnly(mode) == mode = "ro"
LayoutDirs == {"event_dir", "state_dir", "task_dir", "audit_dir", "artifact_dir"}
IdleOpener == [at |-> "idle", mode |-> "ro", result |-> "none"]
BackendInit == backend = [manifest |-> FALSE, dirs |-> {}, lock |-> {}] /\ opener = [p \in Actors |-> IdleOpener]
OpenerAt(p, at) == opener' = [opener EXCEPT ![p].at = at]
OpenEnds(p, result) == opener' = [opener EXCEPT ![p].at = "idle", ![p].result = result]

\* open's first look at the manifest: without it only a creating open goes on.
StartOpen(p, mode) ==
    /\ opener[p].at = "idle" /\ opener[p].result = "none"
    /\ opener' = [opener EXCEPT ![p] =
         IF ~backend.manifest /\ mode # "create" THEN [at |-> "idle", mode |-> mode, result |-> "not_found"]
         ELSE [at |-> IF IsReadOnly(mode) THEN "manifest" ELSE "lock", mode |-> mode, result |-> "none"]]
    /\ UNCHANGED backend
\* acquire_migration_lock: a try_lock, so whoever holds it, a probe included, refuses the open.
AcquireMigrationLock(p) ==
    /\ opener[p].at = "lock"
    /\ IF backend.lock = {}
       THEN backend' = [backend EXCEPT !.lock = {p}] /\ OpenerAt(p, "manifest")
       ELSE UNCHANGED backend /\ OpenEnds(p, "conflict")
\* The second look, under the lock; nothing removes a manifest, so only a creating open misses it.
CheckManifest(p) ==
    /\ opener[p].at = "manifest"
    /\ UNCHANGED backend
    /\ OpenerAt(p, IF backend.manifest THEN "read" ELSE "dirs")
\* create_layout_dirs, one directory at a time, before the manifest is written.
CreateLayoutDir(p) ==
    /\ opener[p].at \in {"dirs", "redirs"}
    /\ IF backend.dirs # LayoutDirs
       THEN /\ \E d \in LayoutDirs \ backend.dirs : backend' = [backend EXCEPT !.dirs = @ \cup {d}]
            /\ UNCHANGED opener
       ELSE UNCHANGED backend /\ OpenerAt(p, IF opener[p].at = "dirs" THEN "write" ELSE "verify")
WriteManifest(p) == /\ opener[p].at = "write"
                    /\ backend' = [backend EXCEPT !.manifest = TRUE] /\ OpenerAt(p, "read")
ReadManifest(p) == /\ opener[p].at = "read"
                   /\ UNCHANGED backend
                   /\ OpenerAt(p, IF IsReadOnly(opener[p].mode) THEN "verify" ELSE "redirs")
\* verify: every directory of the layout exists; the migration lock is dropped.
VerifyLayout(p) ==
    /\ opener[p].at = "verify"
    /\ backend' = [backend EXCEPT !.lock = @ \ {p}]
    /\ OpenEnds(p, IF backend.dirs = LayoutDirs THEN "opened" ELSE "not_found")
\* migration_lock_is_held takes the lock itself to find out, and lets go of it.
ProbeMigrationLock(p) ==
    /\ opener[p].at = "idle" /\ opener[p].result = "none" /\ backend.lock = {}
    /\ backend' = [backend EXCEPT !.lock = {p}] /\ OpenerAt(p, "probe")
EndProbe(p) == /\ opener[p].at = "probe"
               /\ backend' = [backend EXCEPT !.lock = {}] /\ OpenEnds(p, "probed")
\* A process that dies in open lets go of the lock, which the system owns.
OpenerCrash(p) == /\ opener[p].at # "idle"
                  /\ backend' = [backend EXCEPT !.lock = @ \ {p}] /\ OpenEnds(p, "none")
BackendNext ==
    \E p \in Actors :
        \/ \E mode \in {"ro", "rw", "create"} : StartOpen(p, mode)
        \/ AcquireMigrationLock(p) \/ CheckManifest(p) \/ CreateLayoutDir(p) \/ WriteManifest(p)
        \/ ReadManifest(p) \/ VerifyLayout(p) \/ ProbeMigrationLock(p) \/ EndProbe(p) \/ OpenerCrash(p)

-----------------------------------------------------------------------------
(* The artifact store (artifact_store.rs), one key.  Torn is what a write    *)
(* that was cut short leaves; metadata names the content its digest is of.   *)

Torn == "torn"
IdlePutter == [at |-> "idle", content |-> Torn, seen |-> Torn, result |-> <<"none">>]
ArtifactInit ==
    /\ artifact = [object |-> <<>>, meta |-> <<>>, whole |-> <<>>, writes |-> 0]
    /\ putter = [p \in Actors |-> IdlePutter]
PutterAt(p, at) == putter' = [putter EXCEPT ![p].at = at]
\* put_bytes_inner after its checks: nothing is locked, so two puts may run at once.
StartPut(p, content) ==
    /\ putter[p].at = "idle" /\ artifact.writes < MaxWrites
    /\ putter' = [putter EXCEPT ![p] = [IdlePutter EXCEPT !.at = "open_object", !.content = content]]
    /\ artifact' = [artifact EXCEPT !.writes = @ + 1]
\* write_artifact_file_no_follow opens with truncate, then writes; the object first.
OpenForWrite(p) ==
    \/ /\ putter[p].at = "open_object"
       /\ artifact' = [artifact EXCEPT !.object = <<Torn>>, !.whole = <<>>] /\ PutterAt(p, "write_object")
    \/ /\ putter[p].at = "open_meta"
       /\ artifact' = [artifact EXCEPT !.meta = <<Torn>>] /\ PutterAt(p, "write_meta")
\* A put nobody interleaved with, by a process that lived to its end, is the whole of the artifact.
Alone(p) == \A q \in Actors \ {p} : putter[q].at \in {"idle", "read_meta"}
\* The write is at offset 0 of a file truncated when it was opened: what another put wrote to it since may
\* stay behind a shorter content.
Overwritten(p, file) ==
    {<<putter[p].content>>} \cup IF file = <<Torn>> /\ Alone(p) THEN {} ELSE {<<Torn>>}
WriteAll(p) ==
    \/ /\ putter[p].at = "write_object"
       /\ \E o \in Overwritten(p, artifact.object) : artifact' = [artifact EXCEPT !.object = o]
       /\ PutterAt(p, "open_meta")
    \/ /\ putter[p].at = "write_meta"
       /\ \E m \in Overwritten(p, artifact.meta) :
            artifact' = [artifact EXCEPT !.meta = m,
                                         !.whole = IF Alone(p) /\ m = <<putter[p].content>> /\ artifact.object = m
                                                   THEN m ELSE <<>>]
       /\ putter' = [putter EXCEPT ![p].at = "idle", ![p].result = <<"put">>]
PutterCrash(p) == /\ putter[p].at \notin {"idle", "read_meta"}
                  /\ putter' = [putter EXCEPT ![p] = IdlePutter] /\ UNCHANGED artifact
\* try_get_bytes_inner: the object is read, then the metadata, then they are compared.
ReadObject(p) ==
    /\ putter[p].at = "idle"
    /\ UNCHANGED artifact
    /\ putter' = [putter EXCEPT ![p] =
         IF artifact.object = <<>> THEN [IdlePutter EXCEPT !.result = <<"missing">>]
         ELSE [IdlePutter EXCEPT !.at = "read_meta", !.seen = artifact.object[1]]]
MatchesMetadata(bytes, meta) == meta # <<>> /\ meta # <<Torn>> /\ meta[1] = bytes
ReadMetadata(p) ==
    /\ putter[p].at = "read_meta"
    /\ UNCHANGED artifact
    /\ putter' = [putter EXCEPT ![p] = [IdlePutter EXCEPT !.result =
         IF MatchesMetadata(putter[p].seen, artifact.meta) THEN <<"read", putter[p].seen>> ELSE <<"conflict">>]]
ArtifactNext ==
    \E p \in Actors :
        \/ \E content \in Contents : StartPut(p, content)
        \/ OpenForWrite(p) \/ WriteAll(p) \/ PutterCrash(p) \/ ReadObject(p) \/ ReadMetadata(p)

-----------------------------------------------------------------------------
(* The state store (state_store.rs), one key: the record with its version    *)
(* and the generation of the writer that wrote it.                           *)

IdleSetter == [at |-> "idle", generation |-> 0, expected |-> 0, value |-> Torn]
StateInit ==
    /\ state = [version |-> 0, value |-> Torn, generation |-> 0, lock |-> {}, owner |-> {}, current |-> 0, wins |-> <<>>]
    /\ setter = [p \in Actors |-> IdleSetter]
\* acquire_runtime_writer: one owner at a time, each with the next generation.
AcquireWriter(p) ==
    /\ setter[p].at = "idle" /\ state.owner = {} /\ state.current < MaxWrites
    /\ state' = [state EXCEPT !.owner = {p}, !.current = @ + 1]
    /\ setter' = [setter EXCEPT ![p] = [IdleSetter EXCEPT !.generation = state.current + 1]]
\* The guard is gone and its clones are not: a store of the old owner may still try to write.
LoseWriter(p) == /\ p \in state.owner /\ setter[p].at = "idle"
                 /\ state' = [state EXCEPT !.owner = {}] /\ UNCHANGED setter
\* compare_and_set with a version read at some earlier time.
StartSet(p, expected, value) ==
    /\ setter[p].at = "idle" /\ setter[p].generation > 0 /\ state.version < MaxWrites
    /\ setter' = [setter EXCEPT ![p].at = "lock", ![p].expected = expected, ![p].value = value]
    /\ UNCHANGED state
LockRecord(p) == /\ setter[p].at = "lock" /\ state.lock = {}
                 /\ state' = [state EXCEPT !.lock = {p}]
                 /\ setter' = [setter EXCEPT ![p].at = "verify"]
SetEnds(p) == setter' = [setter EXCEPT ![p].at = "idle"]
\* Fault: any version that is not older will do.
VersionMatchesFault(p) == state.version >= setter[p].expected

VersionMatches(p) == state.version = setter[p].expected
\* verify_current, the read and the comparison of versions, under the record's lock.
VerifySet(p) ==
    /\ setter[p].at = "verify"
    /\ IF p \in state.owner /\ setter[p].generation = state.current /\ VersionMatches(p)
       THEN UNCHANGED state /\ setter' = [setter EXCEPT ![p].at = "write"]
       ELSE state' = [state EXCEPT !.lock = {}] /\ SetEnds(p)
WriteState(p) ==
    /\ setter[p].at = "write"
    /\ state' = [state EXCEPT !.version = @ + 1, !.value = setter[p].value, !.generation = setter[p].generation,
                              !.lock = {}, !.wins = Append(@, [on |-> setter[p].expected, by |-> setter[p].generation])]
    /\ SetEnds(p)
SetterCrash(p) == /\ setter[p].generation > 0
                  /\ state' = [state EXCEPT !.lock = @ \ {p}, !.owner = @ \ {p}]
                  /\ setter' = [setter EXCEPT ![p] = IdleSetter]
StateNext ==
    \E p \in Actors :
        \/ AcquireWriter(p) \/ LoseWriter(p) \/ LockRecord(p) \/ VerifySet(p) \/ WriteState(p) \/ SetterCrash(p)
        \/ \E expected \in 0..MaxWrites, value \in Contents : StartSet(p, expected, value)

-----------------------------------------------------------------------------
(* The audit sink (audit_store.rs): one file per sequence number, an age for *)
(* each of them, and the numbers handed out; ids tell the records apart.     *)

AuditInit == audit = [files |-> <<>>, open |-> FALSE, next |-> 0, made |-> 0, records |-> {}, lost |-> {}]
FileAt(n) == audit.files[n]
NoFile == [id |-> 0, whole |-> FALSE, expired |-> FALSE]
AuditFiles == {n \in DOMAIN audit.files : FileAt(n) # NoFile}
SequenceMax(set) == IF set = {} THEN 0 ELSE CHOOSE n \in set : \A m \in set : m <= n
\* next_sequence_after: past every loaded record and every file name, parsed or not.
NextSequenceAfter(records, names) == SequenceMax(records \cup names) + 1
\* from_audit_dir refuses a record it cannot parse; from_audit_dir_with_policy may
\* skip it, and deletes the expired ones it can parse.
OpenSink(policy) ==
    /\ ~audit.open
    /\ policy.corrupt = "fail_fast" => \A n \in AuditFiles : FileAt(n).whole
    /\ LET gone == {n \in AuditFiles : policy.retain /\ FileAt(n).whole /\ FileAt(n).expired}
           kept == {n \in AuditFiles \ gone : FileAt(n).whole}
       IN  audit' = [audit EXCEPT !.open = TRUE, !.records = kept,
                                  !.files = [n \in DOMAIN @ |-> IF n \in gone THEN NoFile ELSE @[n]],
                                  !.next = NextSequenceAfter(kept, AuditFiles \ gone)]
\* record: the sequence is spent whether or not persist_record succeeds; fs::write may
\* fail before it opens the file, or leave a torn one.
PutFile(n, file) == [m \in 1..(IF n > Len(audit.files) THEN n ELSE Len(audit.files)) |->
                        IF m = n THEN file ELSE IF m \in DOMAIN audit.files THEN FileAt(m) ELSE NoFile]
Record(outcome) ==
    /\ audit.open /\ audit.made < MaxWrites
    /\ LET n == audit.next IN
       audit' = [audit EXCEPT
           !.made = @ + 1, !.next = @ + 1,
           !.lost = IF outcome # "refused" /\ n \in AuditFiles THEN @ \cup {n} ELSE @,
           !.files = IF outcome = "refused" THEN @
                     ELSE PutFile(n, [id |-> audit.made + 1, whole |-> outcome = "written", expired |-> FALSE]),
           !.records = IF outcome = "written" THEN @ \cup {n} ELSE @]
CloseSink == audit.open /\ audit' = [audit EXCEPT !.open = FALSE]
Age == \E n \in AuditFiles : ~FileAt(n).expired /\ audit' = [audit EXCEPT !.files[n].expired = TRUE]
AuditNext ==
    \/ \E corrupt \in {"fail_fast", "skip_and_report"}, retain \in BOOLEAN : OpenSink([corrupt |-> corrupt, retain |-> retain])
    \/ \E outcome \in {"written", "torn", "refused"} : Record(outcome)
    \/ CloseSink \/ Age

-----------------------------------------------------------------------------
(* The text formats.  Values are texts: sequences of characters.             *)

\* The text with every occurrence of the characters `from`, scanned from the left, replaced.
Substitute(text, from, to) ==
    LET n == Len(from)
        walk[i \in 1..Len(text) + 1] ==      \* what the characters from i on become
            IF i > Len(text) THEN <<>>
            ELSE IF i + n - 1 <= Len(text) /\ SubSeq(text, i, i + n - 1) = from THEN to \o walk[i + n]
            ELSE <<text[i]>> \o walk[i + 1]
    IN  walk[1]
Escapes == << <<"\n", <<"%", "0", "A">>>>, <<"|", <<"%", "7", "C">>>>, <<"=", <<"%", "3", "D">>>> >>
\* Fault: the escape character itself is not escaped.
EncodeFieldFault(text) == FoldLeft(LAMBDA acc, e : Substitute(acc, <<e[1]>>, e[2]), text, Escapes)

EncodeField(text) ==
    FoldLeft(LAMBDA acc, e : Substitute(acc, <<e[1]>>, e[2]), Substitute(text, <<"%">>, <<"%", "2", "5">>), Escapes)
DecodeField(text) ==
    Substitute(FoldLeft(LAMBDA acc, e : Substitute(acc, e[2], <<e[1]>>), text, Escapes), <<"%", "2", "5">>, <<"%">>)
DecodeOptionalField(text) == IF text = <<>> THEN <<>> ELSE <<DecodeField(text)>>

\* The lines of a document under one name, in order.
Under(doc, name) == LET mine == SelectSeq(doc, LAMBDA l : l[1] = name) IN [i \in DOMAIN mine |-> mine[i][2]]
Named(doc) == {doc[i][1] : i \in DOMAIN doc}
LastOf(doc, name) == Last(Under(doc, name))
NoDuplicates(doc) == \A i, j \in DOMAIN doc : doc[i][1] = doc[j][1] => i = j
Invalid == [valid |-> FALSE]

PairLine(name, pair) == <<name, EncodeField(pair[1]) \o <<"|">> \o EncodeField(pair[2])>>
ParsePair(text) ==
    LET bars == {i \in DOMAIN text : text[i] = "|"} IN
    IF Cardinality(bars) # 1 THEN <<>>
    ELSE LET i == CHOOSE b \in bars : TRUE
         IN  <<DecodeField(SubSeq(text, 1, i - 1)), DecodeField(SubSeq(text, i + 1, Len(text)))>>
AuditToStorage(r) ==
    << <<"version", <<"1">>>>, <<"sequence", <<r.sequence>>>>, <<"recorded_at_ms", <<"0">>>>, <<"action", EncodeField(r.action)>>,
       <<"outcome", EncodeField(r.outcome)>>, <<"message", IF r.message = <<>> THEN <<>> ELSE EncodeField(r.message[1])>> >>
    \o [i \in DOMAIN r.fields |-> PairLine("field", r.fields[i])]
AuditNames == {"version", "sequence", "recorded_at_ms", "action", "outcome"}
AuditFromStorage(doc) ==
    IF /\ Named(doc) \subseteq AuditNames \cup {"message", "trace", "field"} /\ AuditNames \subseteq Named(doc)
       /\ LastOf(doc, "version") = <<"1">>
       /\ \A f \in {"trace", "field"} : \A i \in DOMAIN Under(doc, f) : ParsePair(Under(doc, f)[i]) # <<>>
    THEN [valid |-> TRUE, sequence |-> LastOf(doc, "sequence")[1], action |-> DecodeField(LastOf(doc, "action")),
          outcome |-> DecodeField(LastOf(doc, "outcome")),
          message |-> IF "message" \in Named(doc) THEN DecodeOptionalField(LastOf(doc, "message")) ELSE <<>>,
          fields |-> [i \in DOMAIN Under(doc, "field") |-> ParsePair(Under(doc, "field")[i])]]
    ELSE Invalid

\* The event log, whose texts are hex: an absent optional and an empty one are the same line.
HexPairs(text) == [i \in DOMAIN text |-> <<"hex", text[i]>>]
FromHex(hex) == [i \in DOMAIN hex |-> hex[i][2]]
OptionalLine(option) == IF option = <<>> THEN <<>> ELSE HexPairs(option[1])
OptionalFromHex(hex) == IF hex = <<>> THEN <<>> ELSE <<FromHex(hex)>>
TargetKinds == {"broadcast", "agent", "capability", "adapter"}
PayloadKinds == {"empty", "text", "bytes"}
EventStatuses == {"appended", "acked", "failed"}
OptionalEventFields == <<"request_id", "generation_id", "correlation_id", "causation_id">>
ContextNames == <<"error_context_0", "error_context_1">>
EventLines(r) ==
    << <<"event_id", HexPairs(r.event_id)>>, <<"target_kind", <<r.target>>>>,
       <<"target_value", IF r.target = "broadcast" THEN <<>> ELSE HexPairs(r.target_value)>>,
       <<"payload_kind", <<r.payload>>>>, <<"payload_value", IF r.payload = "empty" THEN <<>> ELSE HexPairs(r.payload_value)>> >>
    \o [i \in DOMAIN OptionalEventFields |-> <<OptionalEventFields[i], OptionalLine(r.options[i])>>]
ErrorLines(error) ==
    IF error = <<>> THEN << <<"error_kind", <<>>>>, <<"error_context_len", <<0>>>> >>
    ELSE << <<"error_kind", <<error[1].kind>>>>, <<"error_context_len", <<Len(error[1].context)>>>> >>
         \o [i \in DOMAIN error[1].context |-> <<ContextNames[i], HexPairs(error[1].context[i])>>]
EventToStorage(r) ==
    << <<"version", <<"1">>>>, <<"status", <<r.status>>>> >> \o EventLines(r)
    \o << <<"consumer", OptionalLine(r.consumer)>> >> \o ErrorLines(r.error)
ErrorKinds == {"invalid_argument", "not_found", "conflict", "permission_denied", "timeout", "unavailable", "internal", "unsupported"}
Decoded(doc, name) == IF name \in Named(doc) THEN OptionalFromHex(LastOf(doc, name)) ELSE <<>>
Raw(doc, name) == IF name \in Named(doc) THEN FromHex(LastOf(doc, name)) ELSE <<>>
OneOf(doc, name, values) == name \in Named(doc) /\ Len(LastOf(doc, name)) = 1 /\ LastOf(doc, name)[1] \in values
EventFieldsValid(doc) ==
    /\ "event_id" \in Named(doc)
    /\ OneOf(doc, "target_kind", TargetKinds) /\ (LastOf(doc, "target_kind") # <<"broadcast">> => "target_value" \in Named(doc))
    /\ OneOf(doc, "payload_kind", PayloadKinds) /\ (LastOf(doc, "payload_kind") # <<"empty">> => "payload_value" \in Named(doc))
ErrorContext(doc) == SubSeq(ContextNames, 1, LastOf(doc, "error_context_len")[1])
ErrorFieldsValid(doc) ==
    /\ "error_kind" \in Named(doc)
    /\ LastOf(doc, "error_kind") # <<>> => /\ OneOf(doc, "error_kind", ErrorKinds) /\ "error_context_len" \in Named(doc)
                                          /\ ToSet(ErrorContext(doc)) \subseteq Named(doc)
ErrorFromFields(doc) ==
    IF LastOf(doc, "error_kind") = <<>> THEN <<>>
    ELSE <<[kind |-> LastOf(doc, "error_kind")[1],
            context |-> [i \in DOMAIN ErrorContext(doc) |-> FromHex(LastOf(doc, ErrorContext(doc)[i]))]]>>
EventFromStorage(doc) ==
    IF OneOf(doc, "version", {"1"}) /\ OneOf(doc, "status", EventStatuses) /\ EventFieldsValid(doc) /\ ErrorFieldsValid(doc)
    THEN [valid |-> TRUE, status |-> LastOf(doc, "status")[1], event_id |-> FromHex(LastOf(doc, "event_id")),
          target |-> LastOf(doc, "target_kind")[1], target_value |-> Raw(doc, "target_value"),
          payload |-> LastOf(doc, "payload_kind")[1], payload_value |-> Raw(doc, "payload_value"),
          options |-> [i \in DOMAIN OptionalEventFields |-> Decoded(doc, OptionalEventFields[i])],
          consumer |-> Decoded(doc, "consumer"), error |-> ErrorFromFields(doc)]
    ELSE Invalid
\* validate_loaded_records, and the number the next append takes.
EventLogValid(records) ==
    \A i, j \in DOMAIN records : i # j => records[i].sequence # records[j].sequence /\ records[i].event_id # records[j].event_id
\* transition_to_acked and transition_to_failed: an acknowledgement is final and its consumer's own.
TransitionToAcked(record, consumer) ==
    IF record.status = "acked" THEN (IF record.consumer = <<consumer>> THEN record ELSE Invalid)
    ELSE [record EXCEPT !.status = "acked", !.consumer = <<consumer>>, !.error = <<>>]
TransitionToFailed(record, consumer, error) ==
    IF record.status = "acked" THEN Invalid
    ELSE [record EXCEPT !.status = "failed", !.consumer = <<consumer>>, !.error = <<error>>]

\* The formats that refuse a repeated name and any count of fields but their own.
StateFields == <<"format", "record_version", "owner_generation", "key_hex", "value_hex">>
LeaseFields == <<"format", "state", "pid", "process_start_token", "generation", "heartbeat_at_ms", "expires_at_ms">>
ExactFields(doc, names) == NoDuplicates(doc) /\ Named(doc) = ToSet(names)
StateToStorage(r) ==
    << <<"format", <<"eva.state-record.v1">>>>, <<"record_version", <<r.version>>>>, <<"owner_generation", <<r.generation>>>>,
       <<"key_hex", HexPairs(r.key)>>, <<"value_hex", HexPairs(r.value)>> >>
ParseStateRecord(doc) ==
    IF ~ExactFields(doc, StateFields) \/ LastOf(doc, "format") # <<"eva.state-record.v1">> THEN Invalid
    ELSE LET version == LastOf(doc, "record_version")[1]
             generation == LastOf(doc, "owner_generation")[1]
             key == FromHex(LastOf(doc, "key_hex"))
         IN  IF version = 0 \/ generation = 0 \/ key = <<>> THEN Invalid
             ELSE [valid |-> TRUE, version |-> version, generation |-> generation, key |-> key,
                   value |-> FromHex(LastOf(doc, "value_hex"))]
LeaseToStorage(r) ==
    << <<"format", <<"eva.daemon-lease.v1">>>>, <<"state", <<r.state>>>>, <<"pid", <<r.pid>>>>, <<"process_start_token", r.token>>,
       <<"generation", <<r.generation>>>>, <<"heartbeat_at_ms", <<r.heartbeat>>>>, <<"expires_at_ms", <<r.expires>>>> >>
LeaseFromStorage(doc) ==
    IF ~ExactFields(doc, LeaseFields) \/ LastOf(doc, "format") # <<"eva.daemon-lease.v1">> THEN Invalid
    ELSE LET r == [valid |-> TRUE, state |-> LastOf(doc, "state")[1], pid |-> LastOf(doc, "pid")[1],
                   token |-> LastOf(doc, "process_start_token"), generation |-> LastOf(doc, "generation")[1],
                   heartbeat |-> LastOf(doc, "heartbeat_at_ms")[1], expires |-> LastOf(doc, "expires_at_ms")[1]]
         IN  IF /\ r.state \in {"active", "released"} /\ r.pid > 0 /\ r.token # <<>> /\ r.generation > 0
                /\ IF r.state = "active" THEN r.expires > r.heartbeat ELSE r.expires = r.heartbeat
             THEN r ELSE Invalid

\* The manifest takes the last of repeated names, and no other names.
ManifestNames == {"schema_version", "layout_version"} \cup LayoutDirs
LayoutSegmentValid(text) == text \notin {<<>>, <<".">>, <<".", ".">>} /\ \A i \in DOMAIN text : text[i] \notin {"/", "\\", " "}
ManifestFromStorage(doc) ==
    IF /\ Named(doc) = ManifestNames
       /\ \A d \in LayoutDirs : \A i \in DOMAIN Under(doc, d) : LayoutSegmentValid(Under(doc, d)[i])
       /\ LastOf(doc, "schema_version") = <<"1">> /\ LastOf(doc, "layout_version") = <<"eva.durable.v1">>
    THEN [valid |-> TRUE, dirs |-> [d \in LayoutDirs |-> LastOf(doc, d)]] ELSE Invalid

\* An artifact's metadata: absent content type, retention and version have defaults, so
\* a document cut after its size is still one.
MetadataNames == {"version", "key", "digest", "size_bytes", "content_type", "retention_policy", "retain_until_ms"}
MetadataToStorage(m) ==
    << <<"version", <<"2">>>>, <<"key", m.key>>, <<"digest", m.digest>>, <<"size_bytes", <<m.size>>>>,
       <<"content_type", m.content_type>>, <<"retention_policy", m.retention>>, <<"retain_until_ms", m.retain_until>> >>
ParseArtifactMetadata(doc) ==
    LET or(name, default) == IF name \in Named(doc) THEN LastOf(doc, name) ELSE default IN
    IF /\ NoDuplicates(doc) /\ Named(doc) \subseteq MetadataNames /\ {"key", "digest", "size_bytes"} \subseteq Named(doc)
       /\ or("version", <<"1">>) \in {<<"1">>, <<"2">>}
    THEN [valid |-> TRUE, key |-> LastOf(doc, "key"), digest |-> LastOf(doc, "digest"), size |-> LastOf(doc, "size_bytes")[1],
          content_type |-> or("content_type", <<"octets">>), retention |-> or("retention_policy", <<"retain">>),
          retain_until |-> or("retain_until_ms", <<>>)]
    ELSE Invalid
\* validate_filesystem_artifact_key and keyed_path, on a key's segments.
ArtifactKeyValid(segments) ==
    segments # <<>> /\ \A i \in DOMAIN segments :
        segments[i] \notin {<<>>, <<".">>, <<".", ".">>} /\ \A j \in DOMAIN segments[i] : segments[i][j] \notin {"\\", " ", "/"}
KeyedPath(root, segments, extension) ==
    <<root>> \o SubSeq(segments, 1, Len(segments) - 1) \o <<Last(segments) \o <<".", extension>>>>

-----------------------------------------------------------------------------
(* The records of tasks and provider processes, and the daemon's own files.  *)
(* A record is a function from the names of its scalars to texts, the empty  *)
(* text standing for an absent option and a number being its digits;         *)
(* envelope, groups and repeated lines are fields of their own.              *)

Digits == <<"0", "1", "2", "3", "4", "5", "6", "7", "8", "9">>
IsNumber(text) == text # <<>> /\ ToSet(text) \subseteq ToSet(Digits)
ParseNumber(text) == FoldLeft(LAMBDA acc, c : 10 * acc + (CHOOSE d \in 0..9 : Digits[d + 1] = c), 0, text)
Positive(text) == IsNumber(text) /\ ParseNumber(text) > 0
NumbersIn(doc, names) == \A n \in names \cap Named(doc) : \A i \in DOMAIN Under(doc, n) : IsNumber(Under(doc, n)[i])
NumbersOrAbsent(doc, names) == \A n \in names \cap Named(doc) : \A i \in DOMAIN Under(doc, n) : Under(doc, n)[i] = <<>> \/ IsNumber(Under(doc, n)[i])

FieldLines(names, r) == [i \in DOMAIN names |-> <<names[i], EncodeField(r[names[i]])>>]
FieldTexts(doc, names) == [n \in ToSet(names) |-> IF n \in Named(doc) THEN DecodeField(LastOf(doc, n)) ELSE <<>>]
\* The daemon's files: the texts among the names are hex, the others as they are.
WireLines(names, texts, r) ==
    [i \in DOMAIN names |-> <<names[i], IF names[i] \in texts THEN HexPairs(r[names[i]]) ELSE r[names[i]]>>]
WireTexts(doc, names, texts) ==
    [n \in ToSet(names) |-> IF n \notin Named(doc) THEN <<>>
                            ELSE IF n \in texts THEN FromHex(LastOf(doc, n)) ELSE LastOf(doc, n)]

\* An envelope as the ten texts of its lines, and the lines as an envelope again.
\* One of the two input lines is empty, and an inline input has its own digest.
Sha256(bytes) == <<"sha256">> \o bytes
EnvelopeTexts(e) ==
    LET of(kind) == IF e.input = kind THEN e.value ELSE <<>>
    IN  <<e.kind, e.agent, <<e.input>>, HexPairs(of("inline")), of("artifact"), e.digest, e.key, e.max, e.backoff, e.timeout>>
EnvelopeFrom(t) ==
    IF /\ \/ t[3] = <<"inline">> /\ t[5] = <<>> /\ t[6] = Sha256(FromHex(t[4]))
          \/ t[3] = <<"artifact">> /\ t[4] = <<>> /\ t[5] # <<>> /\ t[6] # <<>>
       /\ \A i \in {1, 2, 7} : t[i] # <<>>
       /\ Positive(t[8]) /\ IsNumber(t[9]) /\ (t[10] = <<>> \/ Positive(t[10]))
    THEN [valid |-> TRUE, kind |-> t[1], agent |-> t[2], input |-> t[3][1],
          value |-> IF t[3] = <<"inline">> THEN FromHex(t[4]) ELSE t[5],
          digest |-> t[6], key |-> t[7], max |-> t[8], backoff |-> t[9], timeout |-> t[10]]
    ELSE Invalid

\* A task record: format v5 with an envelope, v2 without.  Earlier formats are read,
\* and hold no line of a later one.
TaskHeader == <<"record_version", "owner_generation", "task_id", "status", "attempts", "retry_max_attempts">>
TaskEnvelopeNames == <<"envelope_kind", "envelope_agent_id", "envelope_input_kind", "envelope_inline_input_hex",
    "envelope_artifact_ref", "envelope_input_digest", "envelope_idempotency_key", "envelope_max_attempts",
    "envelope_retry_backoff_ms", "envelope_attempt_timeout_ms">>
ExecutionNames == <<"execution_owner", "result_digest", "result_size_bytes">>
ReplayNames == <<"replay_event_id", "replay_delivery_index", "error_retryable", "retry_ready_at_ms">>
OutcomeNames == <<"cancel_requested", "cancel_accepted", "cancel_reason", "heartbeat_at_ms", "deadline_at_ms", "cancel_token",
    "interrupted_reason", "error_kind", "error_message">>
TaskScalars == TaskHeader \o TaskEnvelopeNames \o ExecutionNames \o ReplayNames \o OutcomeNames
TaskLists == <<"log", "dead_letter", "replay">>
Arity == [log |-> 3, dead_letter |-> 5, replay |-> 3]
JoinParts(parts, bar) == FoldLeft(LAMBDA acc, i : acc \o (IF i = 1 THEN <<>> ELSE <<bar>>) \o parts[i], <<>>, [i \in DOMAIN parts |-> i])
SplitParts(text, bar) ==
    FoldLeft(LAMBDA acc, c : IF c = bar THEN Append(acc, <<>>) ELSE [acc EXCEPT ![Len(acc)] = Append(@, c)], <<<<>>>>, text)
EncodedParts(parts) == JoinParts([i \in DOMAIN parts |-> EncodeField(parts[i])], "|")
TaskHeadLines(r) ==
    << <<"format", <<IF r.envelope = <<>> THEN "v2" ELSE "v5">>>> >> \o FieldLines(TaskHeader, r.field)
    \o IF r.envelope = <<>> THEN <<>>
       ELSE [i \in DOMAIN TaskEnvelopeNames |->
                <<TaskEnvelopeNames[i], LET t == EnvelopeTexts(r.envelope[1])[i] IN IF i = 4 THEN t ELSE EncodeField(t)>>]
            \o FieldLines(ExecutionNames \o ReplayNames, r.field)
TaskToStorage(r) ==
    TaskHeadLines(r) \o FieldLines(OutcomeNames, r.field)
    \o FlattenSeq([l \in DOMAIN TaskLists |->
           [i \in DOMAIN r.lists[TaskLists[l]] |-> <<TaskLists[l], EncodedParts(r.lists[TaskLists[l]][i])>>]])

\* The scan: a scalar twice, a number left empty or a compound line of another arity is
\* refused, a name it does not know is passed over.
TaskLinesValid(doc) ==
    /\ \A i, j \in DOMAIN doc : doc[i][1] = doc[j][1] /\ doc[i][1] \in {"format"} \cup ToSet(TaskScalars) => i = j
    /\ NumbersIn(doc, {"record_version", "owner_generation", "attempts", "retry_max_attempts", "envelope_max_attempts",
                        "envelope_retry_backoff_ms"})
    /\ NumbersOrAbsent(doc, {"envelope_attempt_timeout_ms", "replay_delivery_index", "retry_ready_at_ms", "heartbeat_at_ms",
                              "deadline_at_ms", "result_size_bytes"})
    /\ "error_retryable" \in Named(doc) => LastOf(doc, "error_retryable") \in {<<>>, <<"true">>, <<"false">>}
    /\ \A l \in ToSet(TaskLists) : \A i \in DOMAIN Under(doc, l) : Len(SplitParts(Under(doc, l)[i], "|")) = Arity[l]
    /\ \A n \in {"task_id", "status"} : n \in Named(doc) /\ LastOf(doc, n) # <<>>
\* Which lines a format needs and which it may not hold; a record never written has no owner.
FormatValid(doc) ==
    LET positive(n) == n \in Named(doc) /\ Positive(LastOf(doc, n))
        has(names) == ToSet(names) \cap Named(doc) # {}
        all(names) == ToSet(names) \subseteq Named(doc)
        format == IF "format" \in Named(doc) THEN LastOf(doc, "format")[1] ELSE "legacy"
        committed == positive("record_version") \/ ~positive("owner_generation")
    IN  CASE format = "legacy" -> /\ ~positive("record_version") /\ ~positive("owner_generation")
                                  /\ ~has(TaskEnvelopeNames \o ExecutionNames \o ReplayNames)
          [] format = "v2" -> committed /\ ~has(TaskEnvelopeNames \o ExecutionNames \o ReplayNames)
          [] format = "v3" -> committed /\ ~has(ExecutionNames \o ReplayNames) /\ all(TaskEnvelopeNames)
          [] format = "v4" -> committed /\ ~has(ReplayNames) /\ all(TaskEnvelopeNames \o ExecutionNames)
          [] format = "v5" -> committed /\ all(TaskEnvelopeNames \o ExecutionNames \o ReplayNames)
          [] OTHER -> FALSE
TaskEnvelopeFrom(doc) ==
    IF "envelope_kind" \notin Named(doc) THEN <<>>
    ELSE <<EnvelopeFrom([i \in DOMAIN TaskEnvelopeNames |->
              LET t == LastOf(doc, TaskEnvelopeNames[i]) IN IF i = 4 THEN t ELSE DecodeField(t)])>>
\* from_storage up to validate, which TaskRecord models.
TaskFromStorage(doc) ==
    IF ~TaskLinesValid(doc) \/ ~FormatValid(doc) THEN Invalid
    ELSE LET field == FieldTexts(doc, TaskScalars)
             number(n, default) == IF field[n] = <<>> THEN default ELSE field[n]
             envelope == TaskEnvelopeFrom(doc)
         IN  IF envelope = <<Invalid>> \/ (field["replay_event_id"] = <<>>) # (field["replay_delivery_index"] = <<>>) THEN Invalid
             ELSE [valid |-> TRUE, envelope |-> envelope,
                   field |-> [n \in ToSet(TaskHeader \o ExecutionNames \o ReplayNames \o OutcomeNames) |->
                       CASE n \in {"record_version", "owner_generation", "attempts"} -> number(n, <<"0">>)
                         [] n = "retry_max_attempts" -> number(n, <<"1">>)
                         [] n \in {"cancel_requested", "cancel_accepted"} -> IF field[n] = <<"true">> THEN <<"true">> ELSE <<"false">>
                         [] OTHER -> field[n]],
                   lists |-> [l \in ToSet(TaskLists) |-> [i \in DOMAIN Under(doc, l) |->
                       LET parts == SplitParts(Under(doc, l)[i], "|") IN [p \in DOMAIN parts |-> DecodeField(parts[p])]]]]

\* A provider process record, written as version 3; versions 1 and 2 lack the fields
\* that came later, and those take their defaults.
ProviderCas == <<"record_version", "owner_generation", "attempt", "pid", "process_start_token", "process_group_id", "job_id">>
ProviderRestart == <<"restart_max_attempts", "restart_backoff_ms", "restart_attempts", "restart_due_at_ms", "restart_state">>
ProviderRequired == <<"session_id", "provider_process_id", "request_id", "adapter_id", "capability", "transport", "manifest_digest",
    "start_command", "health", "restart_policy", "active", "started_at_ms", "updated_at_ms">>
ProviderOptional == <<"retry_backoff_ms", "last_error">>
ProviderNames == ProviderCas \o ProviderRestart \o ProviderRequired \o ProviderOptional
ProviderToStorage(r) ==
    << <<"version", <<"3">>>> >> \o FieldLines(ProviderNames, r.field) \o [i \in DOMAIN r.audit |-> <<"audit", EncodeField(r.audit[i])>>]
ProviderLinesValid(doc) ==
    /\ \A i, j \in DOMAIN doc : doc[i][1] = doc[j][1] /\ doc[i][1] # "audit" => i = j
    /\ Named(doc) \subseteq ToSet(ProviderNames) \cup {"version", "audit"}
    /\ NumbersIn(doc, {"record_version", "owner_generation", "attempt", "restart_max_attempts", "restart_backoff_ms",
                        "restart_attempts", "started_at_ms", "updated_at_ms"})
    /\ NumbersOrAbsent(doc, {"pid", "process_group_id", "restart_due_at_ms", "retry_backoff_ms"})
    /\ "active" \in Named(doc) => LastOf(doc, "active") \in {<<"true">>, <<"false">>}
    /\ \A n \in {"request_id", "adapter_id", "capability"} \cap Named(doc) : LastOf(doc, n) # <<>>
\* validate_record's part about texts and versions; its lifecycle part is ProviderSupervisor's.
ProviderFromStorage(doc) ==
    IF ~ProviderLinesValid(doc) \/ ~OneOf(doc, "version", {"1", "2", "3"}) \/ ~(ToSet(ProviderRequired) \subseteq Named(doc)) THEN Invalid
    ELSE LET version == LastOf(doc, "version")[1]
             text == FieldTexts(doc, ProviderNames)
             since(v) == version \in (IF v = 2 THEN {"2", "3"} ELSE {"3"})
             field == [n \in DOMAIN text |->
                 IF n \in Named(doc) THEN text[n]
                 ELSE IF n = "restart_state" THEN <<"unconfigured">>
                 ELSE IF n \in {"record_version", "owner_generation", "attempt", "restart_max_attempts", "restart_backoff_ms",
                                "restart_attempts"} THEN <<"0">> ELSE <<>>]
         IN  IF /\ since(2) => /\ ToSet(ProviderCas) \subseteq Named(doc)
                               /\ Positive(field["owner_generation"]) /\ Positive(field["record_version"])
                /\ since(3) => ToSet(ProviderRestart) \subseteq Named(doc)
                /\ \A n \in {"session_id", "provider_process_id", "transport", "health"} : field[n] # <<>>
             THEN [valid |-> TRUE, field |-> field,
                   audit |-> [i \in DOMAIN Under(doc, "audit") |-> DecodeField(Under(doc, "audit")[i])]]
             ELSE Invalid

\* The daemon's control files.  A request is version 1 without an envelope, 2 with one
\* and 3 with the lease it is for.
Operations == {"status", "shutdown", "submit_task", "cancel_task", "drain", "reload_plan"}
ControlHead == <<"request_id", "trace_id", "operation", "task_id">>
ControlEnvelope == <<"task_envelope_kind", "task_envelope_agent_id", "task_input_kind", "task_inline_input_hex", "task_artifact_ref",
    "task_input_digest", "task_idempotency_key", "task_max_attempts", "task_retry_backoff_ms", "task_attempt_timeout_ms">>
ControlRest == <<"reason", "plan_id", "generation_id", "agent_id", "from_generation_id", "to_generation_id", "from_release",
    "to_release", "inflight_tasks", "timeout_ms", "created_at_ms">>
ControlTexts == {"trace_id", "task_id", "task_envelope_kind", "task_envelope_agent_id", "task_artifact_ref", "task_idempotency_key",
    "reason", "plan_id", "generation_id", "agent_id", "from_generation_id", "to_generation_id", "from_release", "to_release"}
MaxShutdownTimeout == 15000
ControlRequestToStorage(r) ==
    << <<"version", <<r.version>>>> >> \o WireLines(ControlHead, ControlTexts, r.field)
    \o (IF r.version = "1" THEN <<>>
        ELSE WireLines(ControlEnvelope, ControlTexts, [n \in ToSet(ControlEnvelope) |->
                 IF r.envelope = <<>> THEN <<>> ELSE EnvelopeTexts(r.envelope[1])[CHOOSE i \in DOMAIN ControlEnvelope : ControlEnvelope[i] = n]]))
    \o WireLines(ControlRest, ControlTexts, r.field)
    \o (IF r.version = "3" THEN << <<"lease_generation", r.generation>> >> ELSE <<>>)
ControlEnvelopeFrom(doc, version) ==
    LET texts == WireTexts(doc, ControlEnvelope, ControlTexts)
        t == [i \in DOMAIN ControlEnvelope |-> texts[ControlEnvelope[i]]]
    IN  IF version = "1" \/ \A i \in DOMAIN t : t[i] = <<>> THEN <<>> ELSE <<EnvelopeFrom(t)>>
ControlLinesValid(doc) ==
    /\ NoDuplicates(doc) /\ OneOf(doc, "version", {"1", "2", "3"}) /\ OneOf(doc, "operation", Operations)
    /\ Named(doc) \subseteq {"version", "lease_generation"} \cup ToSet(ControlHead \o ControlEnvelope \o ControlRest)
    /\ {"request_id", "trace_id", "created_at_ms"} \subseteq Named(doc)
    /\ LastOf(doc, "request_id") # <<>> /\ NumbersIn(doc, {"created_at_ms", "lease_generation"})
    /\ NumbersOrAbsent(doc, {"inflight_tasks", "timeout_ms"})
    /\ IF LastOf(doc, "version") = <<"1">> THEN ToSet(ControlEnvelope) \cap Named(doc) = {} ELSE ToSet(ControlEnvelope) \subseteq Named(doc)
ControlRequestValid(r) ==
    LET submit == r.field["operation"] = <<"submit_task">> IN
    /\ IF r.version = "3" THEN Positive(r.generation) ELSE r.generation = <<>>
    /\ r.field["operation"] = <<"shutdown">> /\ r.field["timeout_ms"] # <<>> => ParseNumber(r.field["timeout_ms"]) \in 2..MaxShutdownTimeout
    /\ submit /\ r.version = "1" => r.field["agent_id"] = <<>>
    /\ submit /\ r.version # "1" => /\ r.envelope # <<>>
                                   /\ r.field["agent_id"] \in {<<>>, r.envelope[1].agent}
    /\ ~submit => r.envelope = <<>>
ControlRequestFromStorage(doc) ==
    IF ~ControlLinesValid(doc) THEN Invalid
    ELSE LET version == LastOf(doc, "version")[1]
             r == [valid |-> TRUE, version |-> version, envelope |-> ControlEnvelopeFrom(doc, version),
                   field |-> WireTexts(doc, ControlHead \o ControlRest, ControlTexts),
                   generation |-> IF "lease_generation" \in Named(doc) THEN LastOf(doc, "lease_generation") ELSE <<>>]
         IN  IF r.envelope # <<Invalid>> /\ ControlRequestValid(r) THEN r ELSE Invalid

\* A response, version 2: the state and shutdown groups are there as a whole or read as
\* absent, the lease group as a whole or not at all.  Of a repeated line the last counts.
ResponseRequired == <<"request_id", "trace_id", "operation", "accepted", "daemon_available", "status", "mutation_executed",
    "request_file", "response_file", "message">>
ResponseOptional == <<"task_id", "plan_id", "generation_id">>
StateGroup == <<"state_status", "state_mode", "state_pid", "state_generation_id", "state_project_root", "state_started_at_ms">>
StateStopped == <<"state_stopped_at_ms">>
LeaseGroup == <<"lease_state", "lease_pid", "lease_process_start_token", "lease_generation", "lease_heartbeat_at_ms",
    "lease_expires_at_ms", "lease_owner_live", "lease_expired">>
ShutdownGroup == <<"shutdown_already_shutdown", "shutdown_request_count", "shutdown_phase">>
ResponseTexts == {"trace_id", "status", "request_file", "response_file", "message", "task_id", "plan_id", "generation_id",
    "state_status", "state_mode", "state_generation_id", "state_project_root", "lease_state", "lease_process_start_token", "shutdown_phase"}
GroupLines(names, group) == WireLines(names, ResponseTexts, IF group = <<>> THEN [n \in ToSet(names) |-> <<>>] ELSE group[1])
GroupFrom(doc, needed, more) ==
    LET texts == WireTexts(doc, needed \o more, ResponseTexts)
    IN  IF \E n \in ToSet(needed) : texts[n] = <<>> THEN <<>> ELSE <<texts>>
ResponseToStorage(r) ==
    << <<"version", <<"2">>>> >> \o WireLines(ResponseRequired, ResponseTexts, r.field)
    \o GroupLines(StateGroup \o StateStopped, r.state) \o GroupLines(LeaseGroup, r.lease)
    \o WireLines(ResponseOptional, ResponseTexts, r.field) \o GroupLines(ShutdownGroup, r.shutdown)
    \o << <<"audit", JoinParts([i \in DOMAIN r.audit |-> HexPairs(r.audit[i])], ",")>> >>
LeaseReportValid(l) ==
    /\ Positive(l["lease_pid"]) /\ Positive(l["lease_generation"]) /\ l["lease_state"] \in {<<"active">>, <<"released">>}
    /\ IF l["lease_state"] = <<"active">> THEN ParseNumber(l["lease_expires_at_ms"]) > ParseNumber(l["lease_heartbeat_at_ms"])
       ELSE /\ l["lease_expires_at_ms"] = l["lease_heartbeat_at_ms"]
            /\ l["lease_owner_live"] = <<"false">> /\ l["lease_expired"] = <<"false">>
ResponseLinesValid(doc) ==
    /\ OneOf(doc, "version", {"1", "2"})
    /\ \A i \in DOMAIN Under(doc, "version") : Under(doc, "version")[i] \in {<<"1">>, <<"2">>}
    /\ Named(doc) \subseteq {"version", "audit"} \cup ToSet(ResponseRequired \o ResponseOptional \o StateGroup \o StateStopped
                                                          \o LeaseGroup \o ShutdownGroup)
    /\ ToSet(ResponseRequired) \subseteq Named(doc)
    /\ LastOf(doc, "request_id") # <<>> /\ OneOf(doc, "operation", Operations)
    /\ \A n \in {"accepted", "daemon_available", "mutation_executed"} : OneOf(doc, n, {"true", "false"})
    /\ NumbersOrAbsent(doc, {"state_pid", "state_started_at_ms", "state_stopped_at_ms", "lease_pid", "lease_generation",
                              "lease_heartbeat_at_ms", "lease_expires_at_ms", "shutdown_request_count"})
    /\ \A n \in {"lease_owner_live", "lease_expired", "shutdown_already_shutdown"} \cap Named(doc) :
          LastOf(doc, n) \in {<<>>, <<"true">>, <<"false">>}
\* The lease of a response: present as a whole in version 2, and not at all in version 1.
ResponseLeaseValid(doc) ==
    LET lease == GroupFrom(doc, LeaseGroup, <<>>)
        texts == WireTexts(doc, LeaseGroup, ResponseTexts)
    IN  /\ lease = <<>> => \A n \in DOMAIN texts : texts[n] = <<>>
        /\ (lease # <<>>) <=> LastOf(doc, "version") = <<"2">>
        /\ lease # <<>> => LeaseReportValid(lease[1])
ResponseFromStorage(doc) ==
    IF ~ResponseLinesValid(doc) \/ ~ResponseLeaseValid(doc) THEN Invalid
    ELSE [valid |-> TRUE, field |-> WireTexts(doc, ResponseRequired \o ResponseOptional, ResponseTexts),
          state |-> GroupFrom(doc, StateGroup, StateStopped), lease |-> GroupFrom(doc, LeaseGroup, <<>>),
          shutdown |-> GroupFrom(doc, ShutdownGroup, <<>>),
          audit |-> IF "audit" \notin Named(doc) \/ LastOf(doc, "audit") = <<>> THEN <<>>
                    ELSE LET parts == SplitParts(LastOf(doc, "audit"), ",") IN [i \in DOMAIN parts |-> FromHex(parts[i])]]

\* The evidence of a drain, the startup frame, the pid projection and the state record.
EvidenceNames == <<"format", "pid", "process_start_token", "generation", "request_id", "completed_at_ms", "inflight_tasks",
    "cancellation_requests", "forced_terminal_tasks", "mcp_http_sessions", "mcp_http_readers", "mcp_http_cleanup_pending", "phase">>
DrainEvidenceToStorage(r) == WireLines(EvidenceNames, {"process_start_token"}, r)
EvidenceLinesValid(doc) ==
    /\ Named(doc) = ToSet(EvidenceNames) /\ LastOf(doc, "format") = <<"evidence">>
    /\ NumbersIn(doc, ToSet(EvidenceNames) \ {"format", "process_start_token", "request_id", "phase"})
    /\ LastOf(doc, "request_id") # <<>>
DrainEvidenceFromStorage(doc) ==
    IF ~EvidenceLinesValid(doc) THEN Invalid
    ELSE LET r == WireTexts(doc, EvidenceNames, {"process_start_token"}) IN
         IF /\ \A n \in {"pid", "generation", "completed_at_ms"} : Positive(r[n])
            /\ r["process_start_token"] # <<>> /\ r["phase"] = <<"drained">>
            /\ \A n \in {"mcp_http_sessions", "mcp_http_readers", "mcp_http_cleanup_pending"} : ParseNumber(r[n]) = 0
         THEN [valid |-> TRUE, field |-> r] ELSE Invalid
FrameNames == <<"format", "phase", "nonce", "launcher_pid", "child_pid", "process_start_token", "generation", "report_digest",
    "observed_at_ms", "error_kind", "cleanup_complete">>
FrameFromStorage(doc) ==
    IF ~ExactFields(doc, FrameNames) \/ LastOf(doc, "format") # <<"frame">> THEN Invalid
    ELSE LET r == WireTexts(doc, FrameNames, {})
             identity == r["process_start_token"] # <<>> /\ Positive(r["generation"])
             parsed == NumbersIn(doc, {"launcher_pid", "child_pid", "observed_at_ms"}) /\ NumbersOrAbsent(doc, {"generation"})
             live == identity /\ r["error_kind"] = <<>> /\ r["cleanup_complete"] = <<"false">>
         IN  IF /\ parsed /\ Positive(r["launcher_pid"]) /\ Positive(r["child_pid"])
                /\ r["nonce"] # <<>> /\ r["cleanup_complete"] \in {<<"true">>, <<"false">>}
                /\ \/ r["phase"] = <<"claimed">> /\ live /\ r["report_digest"] = <<>>
                   \/ r["phase"] = <<"ready">> /\ live /\ r["report_digest"] # <<>>
                   \/ r["phase"] = <<"failed">> /\ r["report_digest"] = <<>> /\ r["error_kind"] # <<>>
             THEN [valid |-> TRUE, field |-> r] ELSE Invalid
PidNames == <<"format", "pid", "process_start_token", "generation">>
PidFromStorage(doc) ==
    IF Len(doc) = 1 /\ doc[1][1] = "plain" THEN (IF ~Positive(doc[1][2]) THEN Invalid ELSE [valid |-> TRUE, legacy |-> TRUE, pid |-> doc[1][2]])
    ELSE IF ExactFields(doc, PidNames) /\ LastOf(doc, "format") = <<"pid.v1">>
            /\ \A n \in {"pid", "generation"} : Positive(LastOf(doc, n))
            /\ LastOf(doc, "process_start_token") # <<>>
         THEN [valid |-> TRUE, legacy |-> FALSE, field |-> WireTexts(doc, PidNames, {})] ELSE Invalid
\* Only a versioned projection says whose pid it is.
PidMatches(projection, identity) ==
    ~projection.legacy /\ \A n \in {"pid", "process_start_token", "generation"} : projection.field[n] = identity[n]
DaemonStateNames == <<"status", "mode", "pid", "generation_id", "project_root", "started_at_ms">>
DaemonStateFromStorage(doc) ==
    IF /\ ToSet(DaemonStateNames) \subseteq Named(doc) /\ Named(doc) \subseteq ToSet(DaemonStateNames) \cup {"stopped_at_ms"}
       /\ NumbersIn(doc, {"pid", "started_at_ms"}) /\ NumbersOrAbsent(doc, {"stopped_at_ms"})
    THEN [valid |-> TRUE, field |-> WireTexts(doc, Append(DaemonStateNames, "stopped_at_ms"), {})] ELSE Invalid

\* The ledger's records: sixteen lines, none twice and none missing, whose operation
\* digest is that of the identity beside it.  A file is named for its record's key.
EffectIdentity == <<"idempotency_key", "task_kind", "agent_id", "effect_scope", "input_digest">>
EffectNames == <<"format", "operation_digest", "state", "prepared_task_id", "prepared_owner_generation", "prepared_attempt",
    "prepared_fence_digest", "prepared_at_ms", "committed_at_ms", "result_digest", "result_size_bytes">> \o EffectIdentity
OperationDigest(r) == Sha256(JoinParts([i \in DOMAIN EffectIdentity |-> r[EffectIdentity[i]]], "\n"))
EffectRecordValid(r) ==
    /\ r["operation_digest"] = OperationDigest(r)
    /\ \A n \in ToSet(EffectIdentity) \cup {"prepared_task_id", "prepared_fence_digest"} : r[n] # <<>>
    /\ Positive(r["prepared_owner_generation"]) /\ Positive(r["prepared_attempt"])
    /\ \/ r["state"] = <<"prepared">> /\ \A n \in {"committed_at_ms", "result_digest", "result_size_bytes"} : r[n] = <<>>
       \/ /\ r["state"] = <<"committed">> /\ \A n \in {"committed_at_ms", "result_digest", "result_size_bytes"} : r[n] # <<>>
          /\ ParseNumber(r["committed_at_ms"]) >= ParseNumber(r["prepared_at_ms"])
EffectToStorage(r) == WireLines(EffectNames, {}, r)
EffectFromStorage(doc) ==
    IF /\ ExactFields(doc, EffectNames) /\ LastOf(doc, "format") = <<"ledger.v1">>
       /\ NumbersIn(doc, {"prepared_owner_generation", "prepared_attempt", "prepared_at_ms"})
       /\ NumbersOrAbsent(doc, {"committed_at_ms", "result_size_bytes"})
       /\ EffectRecordValid(WireTexts(doc, EffectNames, {}))
    THEN [valid |-> TRUE, field |-> WireTexts(doc, EffectNames, {})] ELSE Invalid
\* files: a set of [stem, doc].  One file that does not read, or under another key's name, fails the load.
LoadEffects(files) ==
    IF \A f \in files : EffectFromStorage(f.doc).valid /\ f.stem = Sha256(EffectFromStorage(f.doc).field["idempotency_key"])
    THEN {EffectFromStorage(f.doc).field : f \in files} ELSE {Invalid}

-----------------------------------------------------------------------------
(* What the stores promise.                                                  *)

(* A manifest on disk means its directories are there: whatever opens or     *)
(* crashes meanwhile, an open that finds the manifest succeeds, and at most  *)
(* one process lays the backend out at a time.                               *)
ManifestMeansLayout ==
    /\ backend.manifest => backend.dirs = LayoutDirs
    /\ \A p, q \in Actors : {opener[p].at, opener[q].at} \subseteq {"dirs", "write", "redirs"} => p = q

(* A read never returns bytes no put wrote, however puts, crashes and the    *)
(* read's own two steps interleave, and an undisturbed put stays readable    *)
(* until the next one begins to write.                                       *)
ReadsAreWhole ==
    /\ \A p \in Actors : putter[p].result[1] = "read" => putter[p].result[2] \in Contents
    /\ artifact.whole # <<>> => MatchesMetadata(artifact.object[1], artifact.meta) /\ artifact.object = artifact.whole

(* compare_and_set loses no update: every version was written over the one   *)
(* before it, and by a writer no older than the last.                        *)
SetsFormAChain ==
    /\ Len(state.wins) = state.version
    /\ \A i \in DOMAIN state.wins : state.wins[i].on = i - 1
    /\ \A i, j \in DOMAIN state.wins : i < j => state.wins[i].by <= state.wins[j].by

(* The sink never writes over a file that is still there, a corrupt one it   *)
(* skipped or a torn one of its own included.                                *)
AuditNeverOverwrites == audit.lost = {}

(* What the formats keep of a record: an audit record and an event come back *)
(* as they were, save that an optional text that was empty comes back absent.*)
Present(option) == IF option = <<<<>>>> THEN <<>> ELSE option
AuditRoundTrip(r) ==
    AuditFromStorage(AuditToStorage(r)) =
        [valid |-> TRUE, sequence |-> r.sequence, action |-> r.action, outcome |-> r.outcome,
         message |-> Present(r.message), fields |-> r.fields]
EventRoundTrip(r) ==
    LET back == EventFromStorage(EventToStorage(r)) IN
    /\ back.valid /\ back.options = [i \in DOMAIN r.options |-> Present(r.options[i])]
    /\ \A f \in {"status", "event_id", "target", "payload", "error"} : back[f] = r[f]
    /\ back.consumer = Present(r.consumer)
    /\ r.target # "broadcast" => back.target_value = r.target_value
    /\ r.payload # "empty" => back.payload_value = r.payload_value
(* No line of a state or lease record can be lost or doubled unnoticed.      *)
ExactFormats(doc, Parse(_)) ==
    Parse(doc).valid => \A i \in DOMAIN doc : ~Parse(RemoveAt(doc, i)).valid /\ ~Parse(InsertAt(doc, i, doc[i])).valid

\* Of all that happens to one event the first acknowledgement decides: its
\* consumer stays, a failure before it is forgotten and one after it refused.
\* What the log then holds reads back.
FirstAckDecides(record, ops) ==
    LET apply(r, op) ==
            LET next == IF op.kind = "ack" THEN TransitionToAcked(r, op.by) ELSE TransitionToFailed(r, op.by, op.error)
            IN  IF next = Invalid THEN r ELSE next
        final == FoldLeft(apply, record, ops)
        acks == SelectSeq(ops, LAMBDA op : op.kind = "ack")
    IN  /\ acks # <<>> => final.status = "acked" /\ final.consumer = <<acks[1].by>> /\ final.error = <<>>
        /\ acks = <<>> /\ ops # <<>> => final.status = "failed" /\ final.error = <<Last(ops).error>>
        /\ EventRoundTrip(final)

\* A log that loads takes the next event with an id of its own, and no other.
LoadedLogAppends(records, id) ==
    LET taken == {records[i].sequence : i \in DOMAIN records}
        next == Append(records, [sequence |-> SequenceMax(taken) + 1, event_id |-> id])
    IN  EventLogValid(records) => (EventLogValid(next) <=> \A i \in DOMAIN records : records[i].event_id # id)

\* A manifest that loads names each directory of the layout once, as one segment;
\* a line less is refused, and a line more is the directory's new name.
LayoutStaysInside(doc, name) ==
    LET read == ManifestFromStorage(doc) IN
    read.valid =>
        /\ NoDuplicates(doc) => \A i \in DOMAIN doc : ~ManifestFromStorage(RemoveAt(doc, i)).valid
        /\ \A d \in LayoutDirs :
              LET more == ManifestFromStorage(Append(doc, <<d, name>>)) IN
              /\ more.valid <=> name \notin {<<>>, <<".">>, <<".", ".">>} /\ {"/", "\\", " "} \cap ToSet(name) = {}
              /\ more.valid => more.dirs = [read.dirs EXCEPT ![d] = name]

\* The metadata of an artifact reads back; cut short it is refused or still names
\* the same bytes, and with a line twice it is refused.
MetadataNamesItsBytes(m) ==
    LET doc == MetadataToStorage(m)
        same(read) == read.key = m.key /\ read.digest = m.digest /\ read.size = m.size
    IN  /\ ParseArtifactMetadata(doc) = [valid |-> TRUE] @@ m
        /\ \A n \in 0..Len(doc) : LET cut == ParseArtifactMetadata(SubSeq(doc, 1, n)) IN cut.valid => same(cut)
        /\ \A i \in DOMAIN doc : ~ParseArtifactMetadata(InsertAt(doc, i, doc[i])).valid

\* Two keys never share a file, and no key leaves the directory of the store.
KeysKeepApart(key, other) ==
    ArtifactKeyValid(key) /\ ArtifactKeyValid(other) =>
        /\ key # other => KeyedPath("objects", key, "artifact") # KeyedPath("objects", other, "artifact")
        /\ \A i \in 2..(1 + Len(key)) : KeyedPath("metadata", key, "metadata")[i] \notin {<<>>, <<".">>, <<".", ".">>}

\* A committed task record reads back as it was; a scalar line twice is refused, so is
\* the loss of a line of envelope, execution or replay and of the format, and the record
\* under the label of an earlier format.  What is read without any other line differs
\* from the record in that line's field at most.
TaskRecordIsWhole(r) ==
    \A doc \in {TaskToStorage(r)} : \A back \in {TaskFromStorage(doc)} :
    LET later == {"format"} \cup ToSet(TaskEnvelopeNames \o ExecutionNames \o ReplayNames)
    IN  /\ back.valid /\ back.lists = r.lists
        /\ \A n \in DOMAIN back.field : n \in Named(doc) => back.field[n] = r.field[n]
        /\ \A k \in DOMAIN r.envelope : \A f \in DOMAIN r.envelope[k] : back.envelope[k][f] = r.envelope[k][f]
        /\ \A i \in DOMAIN doc : \A cut \in {TaskFromStorage(RemoveAt(doc, i))} :
              /\ doc[i][1] \notin ToSet(TaskLists) => ~TaskFromStorage(InsertAt(doc, i, doc[i])).valid
              /\ doc[i][1] \in later /\ (r.envelope # <<>> \/ Positive(r.field["record_version"])) => ~cut.valid
              /\ cut.valid => /\ cut.envelope = back.envelope
                              /\ \A n \in DOMAIN cut.field : n # doc[i][1] => cut.field[n] = back.field[n]
        /\ \A f \in {"v2", "v3", "v4", "v6"} :
              TaskFromStorage(<< <<"format", <<f>>>> >> \o Tail(doc)).valid => f = "v2" /\ r.envelope = <<>>

\* A provider record reads back; every line but the two optional ones and the audit's
\* is needed, none but the audit's may come twice, and an older label forgives only
\* the absence of what came later.
ProviderRecordIsWhole(r) ==
    LET doc == ProviderToStorage(r)
        as(version) == << <<"version", <<version>>>> >> \o Tail(doc)
    IN  /\ ProviderFromStorage(doc) = [valid |-> TRUE] @@ r
        /\ \A v \in ToSet(Digits) : ProviderFromStorage(as(v)).valid <=> v \in {"1", "2", "3"}
        /\ \A v \in {"1", "2", "3"}, i \in 2..Len(doc) :
              LET n == doc[i][1]
                  cut == ProviderFromStorage(RemoveAt(as(v), i))
              IN  /\ n # "audit" => ~ProviderFromStorage(InsertAt(as(v), i, doc[i])).valid
                  /\ cut.valid <=> \/ n \in ToSet(ProviderOptional) \cup {"audit"}
                                   \/ v # "3" /\ n \in ToSet(ProviderRestart)
                                   \/ v = "1" /\ n \in ToSet(ProviderCas)

\* A request that is valid reads back, one that is not is refused by its reader; no
\* line may come twice, and the label of another version is refused, so no request
\* gains or loses its envelope or the lease it is for.
ControlRequestIsExact(r) ==
    LET doc == ControlRequestToStorage(r)
        back == ControlRequestFromStorage(doc)
    IN  /\ back.valid <=> ControlRequestValid(r)
        /\ back.valid => /\ back.field = r.field /\ back.generation = r.generation /\ Len(back.envelope) = Len(r.envelope)
                         /\ \A k \in DOMAIN r.envelope : \A f \in DOMAIN r.envelope[k] : back.envelope[k][f] = r.envelope[k][f]
        /\ \A i \in DOMAIN doc :
              /\ ~ControlRequestFromStorage(InsertAt(doc, i, doc[i])).valid
              /\ LET cut == ControlRequestFromStorage(RemoveAt(doc, i)) IN
                 cut.valid /\ back.valid => /\ doc[i][1] \in ToSet(ControlHead \o ControlRest)
                                            /\ cut = [back EXCEPT !.field[doc[i][1]] = <<>>]
        /\ back.valid => \A v \in ToSet(Digits) \ {r.version} : ~ControlRequestFromStorage(<< <<"version", <<v>>>> >> \o Tail(doc)).valid

\* A response reads back.  Whatever line it lost, what is read is what was written of
\* every group that is still there, the lease is not among what can be lost, and a
\* response is never taken for one of version 1.
ResponseIsExact(r) ==
    LET doc == ResponseToStorage(r)
        back == ResponseFromStorage(doc)
    IN  /\ back.valid <=> (r.lease # <<>> /\ LeaseReportValid(r.lease[1]))
        /\ back.valid => back = [valid |-> TRUE] @@ r
        /\ back.valid => \A i \in DOMAIN doc :
              LET cut == ResponseFromStorage(RemoveAt(doc, i)) IN
              /\ ResponseFromStorage(Append(doc, doc[i])) = back
              /\ doc[i][1] \in ToSet(ResponseRequired \o LeaseGroup) \cup {"version"} => ~cut.valid
              /\ cut.valid => /\ cut.lease = r.lease
                              /\ doc[i][1] \in ToSet(StateGroup) => cut.state = <<>> /\ cut.shutdown = r.shutdown
                              /\ doc[i][1] \in ToSet(ShutdownGroup) => cut.shutdown = <<>> /\ cut.state = r.state
        /\ r.lease # <<>> => \A i \in 1..Len(doc) :
              ~ResponseFromStorage(<< <<"version", <<"1">>>> >> \o Tail(IF i = 1 THEN doc ELSE RemoveAt(doc, i))).valid

\* Evidence of a drain is believed only as a whole and only of a drain that was
\* complete; a frame says one phase and the identity that goes with it; a pid file
\* matches an identity only in all of it.
DaemonFileIsExact(doc, identity) ==
    LET evidence == DrainEvidenceFromStorage(doc)
        frame == FrameFromStorage(doc)
        pid == PidFromStorage(doc)
        record == DaemonStateFromStorage(doc)
        parses == Cardinality({x \in {evidence, frame, pid, record} : x.valid})
    IN  /\ parses <= 1
        /\ \A i \in DOMAIN doc :
              LET cut == RemoveAt(doc, i) IN
              /\ ~DrainEvidenceFromStorage(cut).valid /\ ~FrameFromStorage(cut).valid
              /\ PidFromStorage(cut).valid => doc[3 - i][1] = "plain"
              /\ DaemonStateFromStorage(cut).valid => doc[i][1] = "stopped_at_ms"
              /\ ~FrameFromStorage(InsertAt(doc, i, doc[i])).valid
        /\ evidence.valid => DrainEvidenceToStorage(evidence.field) = doc
        /\ frame.valid => /\ frame.field["phase"] = <<"ready">> <=> frame.field["report_digest"] # <<>>
                          /\ frame.field["phase"] = <<"failed">> <=> frame.field["error_kind"] # <<>>
                          /\ frame.field["error_kind"] = <<>> => Positive(frame.field["generation"]) /\ frame.field["cleanup_complete"] = <<"false">>
        /\ pid.valid /\ PidMatches(pid, identity) => doc = WireLines(PidNames, {}, [format |-> <<"pid.v1">>] @@ identity)

\* A ledger record reads back, a changed identity or result is noticed, and a ledger
\* loads all its records, each under its own name, or none.
EffectRecordIsSealed(r, other) ==
    LET doc == EffectToStorage(r)
        back == EffectFromStorage(doc)
        file(of, x) == [stem |-> Sha256(of["idempotency_key"]), doc |-> EffectToStorage(x)]
    IN  /\ back.valid <=> EffectRecordValid(r)
        /\ back.valid => /\ back.field = r
                         /\ \A n \in ToSet(EffectIdentity), t \in {<<>>, <<"z">>} :
                               EffectFromStorage(EffectToStorage([r EXCEPT ![n] = t])).valid => r[n] = t
                         /\ \A i \in DOMAIN doc : /\ ~EffectFromStorage(RemoveAt(doc, i)).valid
                                                  /\ ~EffectFromStorage(InsertAt(doc, i, doc[i])).valid
        /\ r["idempotency_key"] # other["idempotency_key"] =>
              /\ LoadEffects({file(other, r)}) = {Invalid}
              /\ LoadEffects({file(r, r), file(other, other)}) =
                     (IF EffectRecordValid(r) /\ EffectRecordValid(other) THEN {r, other} ELSE {Invalid})
=============================================================================
