---------------------------- MODULE BackupArchive ----------------------------
(***************************************************************************)
(* Backup archives of eva-backup: the text payload and its parser          *)
(* (backup_service.rs, RestorePreRestoreArchive of restore_apply.rs),      *)
(* sealing, opening and signature verification (archive.rs,                *)
(* manifest_verifier.rs), and the validation of restore plans and of the   *)
(* migration and snapshot plans.  All of it is pure: operators only.       *)
(*                                                                         *)
(* A digest is an injective function of its argument.  A byte is a pair of *)
(* nibbles, a nibble one bit, which is what hexadecimal encoding and the   *)
(* keystream tell apart.  A result is a value or the name of the error, an *)
(* Option the empty sequence or the sequence of its value.                 *)
(***************************************************************************)
EXTENDS Naturals, Sequences, SequencesExt, FiniteSets

None == << >>
Err(code) == [err |-> code]
IsErr(r)  == "err" \in DOMAIN r
Digest(x) == <<"sha256", x>>

-----------------------------------------------------------------------------
\* hex_encode and hex_decode: two characters per byte.
hex_encode(bytes) == FlattenSeq(bytes)
hex_decode(text) ==
    IF Len(text) % 2 # 0 THEN Err("hex payload length must be even")
    ELSE IF \E i \in DOMAIN text : text[i] \notin {0, 1} THEN Err("hex payload contains an invalid character")
    ELSE [ok |-> [i \in 1..(Len(text) \div 2) |-> <<text[2 * i - 1], text[2 * i]>>]]

\* A path is a sequence of characters and of names between them.
\* BackupEntry.new: what a backup may hold.
BackupPathValid(path) == ~(ToSet(path) \subseteq {" "}) /\ ToSet(path) \cap {"..", "\\", "\n"} = {}
\* validate_restore_relative_path: what a restore takes, every component a name.
RestorePathValid(path) ==
    /\ path # << >> /\ Head(path) # " " /\ Last(path) # " "
    /\ ToSet(path) \cap {"NUL", "\\", ":", "|", ".."} = {}
    /\ Head(path) \notin {"/", "."} /\ Last(path) # "/"
    /\ \A i \in 1..(Len(path) - 1) : ~(path[i] = "/" /\ path[i + 1] = "/")

\* A line is a key and a value; Unkeyed stands for one without "=".
Line(key, value) == [key |-> key, value |-> value]
Unkeyed == "no key"
\* A text is one line, or more when it holds line breaks: what follows the first
\* stands in the payload as it is.
MetadataLines(plan) ==
    <<Line("artifact", ""), Line("request", ""), Line("generation", ""), Line("project", "")>> \o plan.project
    \o <<Line("created_by", "")>> \o plan.created_by \o <<Line("reason", "")>> \o plan.reason \o <<Line("dry_run", FALSE)>>
Header == Line(Unkeyed, "eva-backup-archive:v1")
EntryLines(e) == <<Line("entry.path", e.path), Line("entry.size", Len(e.bytes)),
                   Line("entry.redacted", e.redacted), Line("entry.bytes.hex", hex_encode(e.bytes))>>
\* backup_archive_payload: the header, the metadata and four lines per entry.
backup_archive_payload(plan) ==
    <<Header>> \o MetadataLines(plan) \o FlattenSeq([i \in DOMAIN plan.entries |-> EntryLines(plan.entries[i])])

\* PendingArchiveEntry.finish: every entry needs a path a restore takes, bytes and the right size.
NoEntry == [path |-> None, size |-> None, redacted |-> None, bytes |-> None]
finish(e) ==
    IF e.path = None THEN Err("missing path")
    ELSE IF ~RestorePathValid(e.path[1]) THEN Err("invalid path")
    ELSE IF e.bytes = None THEN Err("missing bytes")
    ELSE IF e.size = None THEN Err("missing size")
    ELSE IF Len(e.bytes[1]) # e.size[1] THEN Err("size mismatch")
    ELSE [ok |-> [path |-> e.path[1], bytes |-> e.bytes[1], redacted |-> e.redacted = <<TRUE>>]]

\* One line of RestorePreRestoreArchive.parse: acc holds the finished entries, the
\* entry being read and the first error.
Taken(acc, r) ==
    IF IsErr(r) THEN [acc EXCEPT !.err = <<r.err>>]
    ELSE [acc EXCEPT !.done = SelectSeq(@, LAMBDA d : d.path # r.ok.path) \o <<r.ok>>, !.cur = NoEntry]
Closed(acc) == IF acc.err # None \/ acc.cur = NoEntry THEN acc ELSE Taken(acc, finish(acc.cur))
NextEntry(acc, path) == IF acc.err # None THEN acc ELSE [acc EXCEPT !.cur = [NoEntry EXCEPT !.path = <<path>>]]
Decoded(acc, b) == IF IsErr(b) THEN [acc EXCEPT !.err = <<b.err>>] ELSE [acc EXCEPT !.cur.bytes = <<b.ok>>]
ParseLine(acc, line) ==
    IF acc.err # None THEN acc
    ELSE CASE line.key = "entry.path" ->
                NextEntry(Closed(acc), line.value)
           [] line.key = "entry.size"     -> [acc EXCEPT !.cur.size = <<line.value>>]
           [] line.key = "entry.redacted" -> [acc EXCEPT !.cur.redacted = <<line.value>>]
           [] line.key = "entry.bytes.hex" ->
                Decoded(acc, hex_decode(line.value))
           [] line.key = Unkeyed -> [acc EXCEPT !.err = <<"line must use key=value">>]
           [] OTHER -> acc

\* The archive is what was done.
Parsed(read) == IF read.err # None THEN Err(read.err[1]) ELSE [ok |-> read.done]

\* RestorePreRestoreArchive.parse, after the digest of the record was verified.
parse_archive(lines) ==
    IF lines = << >> \/ Head(lines) # Header THEN Err("unsupported format")
    ELSE LET start == [done |-> << >>, cur |-> NoEntry, err |-> None]
         IN  Parsed(Closed(FoldLeft(ParseLine, start, Tail(lines))))

-----------------------------------------------------------------------------
\* xor_with_key: a keystream derived from the key's id and secret.
stream_byte(key, i) == (key.secret + i) % 2
xor_with_key(bits, key) == [i \in DOMAIN bits |-> (bits[i] + stream_byte(key, i)) % 2]

\* sign_archive: the signature binds the key, both checksums, the encryption's
\* algorithm and key and the remote target, and nothing else of the manifest.
Signed(encryption) == IF encryption = None THEN <<"none", "none">> ELSE <<encryption[1].algorithm, encryption[1].key_id>>
sign_archive(m, key) ==
    [key_id |-> key.id, algorithm |-> "sha256-keyed-v1",
     value |-> Digest(<<m.artifact_key, m.checksum, m.plaintext_checksum,
                        Signed(m.encryption), m.remote, key.id, key.secret>>)]

\* BackupArchiveCodec.seal.
seal(artifact_key, plaintext, signing, encryption, remote) ==
    LET bytes == IF encryption = None THEN plaintext ELSE xor_with_key(plaintext, encryption[1])
        m == [format |-> "eva.backup.archive.v1", artifact_key |-> artifact_key,
              checksum |-> Digest(bytes), plaintext_checksum |-> Digest(plaintext),
              encrypted |-> encryption # None,
              encryption |-> [i \in DOMAIN encryption |->
                  [key_id |-> encryption[i].id, algorithm |-> "xor-sha256-stream-v1", plaintext_checksum |-> Digest(plaintext)]],
              remote |-> remote]
    IN  [bytes |-> bytes, manifest |-> [signature |-> sign_archive(m, signing)] @@ m]

\* verify_record_checksum of a stored record against the digest the caller expects.
verify_record_checksum(record, expected) ==
    record.digest = Digest(record.bytes) /\ record.digest = expected

\* BackupArchiveCodec.open.
open(record, m, encryption) ==
    IF ~verify_record_checksum(record, m.checksum) THEN Err("digest mismatch")
    ELSE IF m.artifact_key # record.key THEN Err("artifact key mismatch")
    ELSE IF m.encryption # None /\ encryption = None THEN Err("requires decryption key")
    ELSE IF m.encryption # None /\ m.encryption[1].key_id # encryption[1].id THEN Err("decryption key id mismatch")
    ELSE LET plain == IF m.encryption = None THEN record.bytes ELSE xor_with_key(record.bytes, encryption[1])
         IN  IF Digest(plain) # m.plaintext_checksum THEN Err("plaintext checksum mismatch")
             ELSE [ok |-> plain]

\* BackupArchiveVerifier.verify_signature.
verify_signature(m, signing) ==
    /\ m.format = "eva.backup.archive.v1"
    /\ m.signature.key_id = signing.id
    /\ m.signature.algorithm = "sha256-keyed-v1"
    /\ sign_archive(m, signing).value = m.signature.value

\* ManifestVerifier.verify_backup_archive.
verify_backup_archive(record, m, digest, signing) ==
    /\ m.artifact_key = record.key /\ m.checksum = digest
    /\ verify_record_checksum(record, digest)
    /\ verify_signature(m, signing)

\* BackupService.create: seal, store under the plan's key, verify what was stored.
create(plan) ==
    LET key    == <<"backup", plan.id>>
        sealed == seal(key, plan.payload, plan.signing, plan.encryption, plan.remote)
        record == [key |-> key, bytes |-> sealed.bytes, digest |-> Digest(sealed.bytes)]
    IN  [record |-> record, manifest |-> sealed.manifest,
         verified |-> verify_backup_archive(record, sealed.manifest, record.digest, plan.signing)]

-----------------------------------------------------------------------------
\* RestoreMutationStep.new: which optional fields each operation needs and refuses.
MutationStepValid(s) ==
    /\ s.path = "relative"
    /\ s.source \in {"none", "relative"} /\ s.expected \in {"none", "sha256"} /\ s.pre \in {"none", "sha256"}
    /\ CASE s.op = "copy"    -> s.source # "none" /\ s.expected # "none" /\ s.pre = "none"
         [] s.op = "replace" -> s.source # "none" /\ s.expected # "none" /\ s.pre # "none"
         [] s.op = "delete"  -> s.source = "none" /\ s.expected = "none" /\ s.pre # "none"
         [] OTHER -> FALSE

\* rollback_entry: how a step would be undone.
rollback_entry(s) ==
    IF s.op = "copy" THEN [action |-> "delete_restored_path", pre |-> "none"]
                     ELSE [action |-> "restore_pre_restore_digest", pre |-> s.pre]

\* parse_restore_apply_plan: evidence comes as a pair or not at all, unknown keys
\* are refused, the three identifying fields are required.
parse_restore_apply_plan(p) ==
    IF p.unknown THEN Err("unsupported field")
    ELSE IF \E i \in DOMAIN p.steps : ~MutationStepValid(p.steps[i]) THEN Err("invalid step")
    ELSE IF ~(p.plan_id /\ p.backup_id /\ p.backup_digest) THEN Err("missing field")
    ELSE IF p.pre_id # p.pre_digest THEN Err("evidence must include artifact id and digest")
    ELSE [ok |-> [evidence |-> p.pre_id, steps |-> p.steps]]

\* RestoreApplyValidator.dry_run: both artifacts must be the ones the plan names,
\* with the digests it names.
dry_run(plan, artifact, pre) ==
    IF artifact.key # plan.backup_key THEN Err("backup artifact key mismatch")
    ELSE IF plan.pre_key = None THEN Err("requires pre-restore backup evidence")
    ELSE IF pre = None THEN Err("pre-restore backup artifact is missing")
    ELSE IF pre[1].key # plan.pre_key[1] THEN Err("pre-restore backup artifact key mismatch")
    ELSE IF ~verify_record_checksum(artifact, plan.backup_digest) THEN Err("digest mismatch")
    ELSE IF ~verify_record_checksum(pre[1], plan.pre_digest) THEN Err("digest mismatch")
    ELSE [ok |-> [affected |-> {plan.steps[i].path : i \in DOMAIN plan.steps},
                  rollback |-> [i \in DOMAIN plan.steps |-> rollback_entry(plan.steps[i])],
                  preflight |-> Digest(plan)]]

\* MigrationPackageService.verify_preflight and ReleaseSnapshotService: plans only.
verify_preflight(m, current) ==
    IF m.source # current THEN [status |-> "blocked", approval |-> FALSE]
    ELSE [status |-> IF m.reversible THEN "ready" ELSE "planned", approval |-> ~m.reversible]
release_pointer_plan(snapshot, confirm) ==
    IF confirm # snapshot.id THEN Err("confirmation does not match snapshot id")
    ELSE [ok |-> [snapshot |-> snapshot.id, apply_allowed |-> FALSE]]

-----------------------------------------------------------------------------
(* What the archive promises *)

\* A restore reads back what the service wrote, the last entry of a path
\* winning, when the paths are ones it takes and no text of the plan breaks a
\* line.  A path only the backup takes makes the whole archive unreadable, so no
\* entry read leaves the directory it is restored to; lines out of a text make it
\* unreadable or add entries, and never lose or replace one.  Of a cut-off payload
\* whole entries are read or an error is reported.
ArchiveReadsBack(plan, n) ==
    LET lines   == backup_archive_payload(plan)
        all     == parse_archive(lines)
        cut     == parse_archive(SubSeq(lines, 1, n))
        written == ToSet(plan.entries)
        last    == {plan.entries[i] : i \in {j \in DOMAIN plan.entries :
                       \A k \in DOMAIN plan.entries : plan.entries[k].path = plan.entries[j].path => k <= j}}
        clean   == plan.project \o plan.created_by \o plan.reason = << >>
        taken   == \A e \in written : RestorePathValid(e.path)
        inside(path) == path # << >> /\ Head(path) # "/" /\ ToSet(path) \cap {"..", ":", "\\"} = {}
    IN  (\A e \in written : BackupPathValid(e.path)) =>
        /\ clean /\ taken => ~IsErr(all) /\ ToSet(all.ok) = last
        /\ ~taken => IsErr(all)
        /\ ~IsErr(all) => \A e \in ToSet(all.ok) : inside(e.path)
        /\ ~IsErr(all) => last \subseteq ToSet(all.ok)
        /\ clean => IsErr(cut) \/ ToSet(cut.ok) \subseteq written

\* A backup opens with the key it was sealed with and with none that differs in
\* its name or its secret, and gives back the payload.  Neither changed bytes nor
\* a manifest changed in anything that is signed pass verification, nor does
\* another signing key.  What is not signed, the flag `encrypted` and the
\* encryption's copy of the checksum, may change and decides nothing.
BackupIsSealed(plan, otherKeys) ==
    LET b        == create(plan)
        verified(m, signing) == verify_backup_archive(b.record, m, b.record.digest, signing)
        rejected(m) == ~verified(m, plan.signing)
        accepted(m) == verified(m, plan.signing) /\ open(b.record, m, plan.encryption) = [ok |-> plan.payload]
        other    == IF plan.encryption # None THEN None
                    ELSE <<[key_id |-> "changed", algorithm |-> "xor-sha256-stream-v1", plaintext_checksum |-> << >>]>>
        forged   == [b.record EXCEPT !.bytes = Append(@, 0)]
    IN  /\ b.verified /\ open(b.record, b.manifest, plan.encryption) = [ok |-> plan.payload]
        /\ plan.encryption # None => \A key \in otherKeys : IsErr(open(b.record, b.manifest, <<key>>))
        /\ \A key \in otherKeys : ~verified(b.manifest, key)
        /\ \A field \in {"artifact_key", "checksum", "plaintext_checksum", "remote"} :
               rejected([b.manifest EXCEPT ![field] = <<"changed">>])
        /\ rejected([b.manifest EXCEPT !.format = "changed"]) /\ rejected([b.manifest EXCEPT !.encryption = other])
        /\ \A field \in {"key_id", "algorithm"} : rejected([b.manifest EXCEPT !.signature[field] = "changed"])
        /\ \A i \in DOMAIN plan.encryption, field \in {"key_id", "algorithm"} :
               rejected([b.manifest EXCEPT !.encryption[i][field] = "changed"])
        /\ accepted([b.manifest EXCEPT !.encrypted = ~@])
        /\ \A i \in DOMAIN plan.encryption : accepted([b.manifest EXCEPT !.encryption[i].plaintext_checksum = << >>])
        /\ \A r \in {forged, [forged EXCEPT !.digest = Digest(forged.bytes)]} :
               IsErr(open(r, b.manifest, plan.encryption))

\* A dry run accepts a restore only over the two artifacts the plan names, and
\* every step of a plan it accepts can be undone.
DryRunIsExact(plan, artifact, pre) ==
    LET r == dry_run(plan, artifact, pre) IN
    ~IsErr(r) => /\ artifact.key = plan.backup_key /\ Digest(artifact.bytes) = plan.backup_digest
                 /\ pre[1].key = plan.pre_key[1] /\ Digest(pre[1].bytes) = plan.pre_digest
                 /\ \A i \in DOMAIN plan.steps : plan.steps[i].op = "copy" \/ r.ok.rollback[i].pre # "none"

\* A plan as it is written: with evidence of a backup taken before the restore it
\* runs against the artifacts it names, without it never, and every step it was
\* accepted with has an undo.
ParsedPlanNeedsEvidence(p, artifact, pre) ==
    LET parsed == parse_restore_apply_plan(p)
        plan == [steps |-> parsed.ok.steps, backup_key |-> artifact.key, backup_digest |-> artifact.digest,
                 pre_key |-> IF parsed.ok.evidence THEN <<pre.key>> ELSE None, pre_digest |-> pre.digest]
        run == dry_run(plan, artifact, <<pre>>)
    IN  ~IsErr(parsed) => /\ IsErr(run) <=> ~p.pre_digest
                          /\ ~IsErr(run) => \A i \in DOMAIN p.steps :
                                (p.steps[i].pre = "none") = (run.ok.rollback[i].action = "delete_restored_path")

\* Preparing changes nothing: a migration is ready only from the version it is
\* for and with a way back, otherwise somebody must approve it or it is blocked;
\* a release pointer is planned for the snapshot the operator confirmed, and not
\* moved.
PlansOnly(m, current, snapshot, confirm) ==
    LET check == verify_preflight(m, current)
        pointer == release_pointer_plan(snapshot, confirm)
    IN  /\ check.status = "ready" => m.source = current /\ m.reversible /\ ~check.approval
        /\ m.source = current => (check.status = "ready") # check.approval
        /\ ~IsErr(pointer) => pointer.ok.snapshot = confirm /\ ~pointer.ok.apply_allowed
=============================================================================
