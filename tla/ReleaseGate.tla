---------------------------- MODULE ReleaseGate ----------------------------
(***************************************************************************)
(* The evidence of a release and its gates (eva-release/src): envelopes    *)
(* that bind a subject to a commit, the production manifest and the policy *)
(* that trusts its executors, captures of commands, platform evidence and  *)
(* the bundle of it; the five documents of evidence, the production policy *)
(* over their envelopes, and the readiness report that turns declarations  *)
(* and evidence into gates.                                                *)
(*                                                                         *)
(* Bytes are values and digests are injective: Digest(b) = <<"sha256", b>>.*)
(* A free text of an envelope is the tuple of its parts; <<>> is one the   *)
(* code refuses as empty, untrimmed or of several lines.  A text of a      *)
(* document is one of the classes the validators tell apart; a number's    *)
(* text is the tuple of the number, <<>> a text that is no number.         *)
(* A report is the set of its blockers; it is verified when that is empty. *)
(***************************************************************************)
EXTENDS Integers, Sequences, FiniteSets, SequencesExt, TLC

Refused == [ok |-> FALSE]
Accepted(v) == [ok |-> TRUE, v |-> v]
When(condition, blocker) == IF condition THEN {blocker} ELSE {}

Digest(bytes) == <<"sha256", bytes>>

\* validate_manifest_text and is_valid_manifest_text.
IsText(t) == t # <<>>

IsCommit(c) == c \in {"commit-a", "commit-b"}      \* 40 lower hex digits
IsDigest(d) == Len(d) = 2 /\ d[1] = "sha256"
IsRunNumber(n) == n \in {"1", "2", "7"}            \* a positive decimal

-----------------------------------------------------------------------------
(* key=value documents. *)

RECURSIVE ParseLines(_, _)
ParseLines(fields, lines) ==
    IF lines = <<>> THEN Accepted(fields)
    ELSE LET l == Head(lines) IN
         IF l.kind \in {"blank", "comment"} THEN ParseLines(fields, Tail(lines))
         ELSE IF l.kind = "bare" \/ l.key = "" \/ l.key \in DOMAIN fields THEN Refused
         ELSE ParseLines([k \in DOMAIN fields \cup {l.key} |->
                            IF k = l.key THEN l.value ELSE fields[k]], Tail(lines))

ParseKeyValueManifest(lines) == ParseLines([k \in {} |-> ""], lines)

Pair(k, v) == [kind |-> "pair", key |-> k, value |-> v]

-----------------------------------------------------------------------------
(* Envelopes. *)

EnvelopeFields == {"format", "kind", "source", "source_commit", "environment", "executor",
                   "timestamp", "subject_digest"}
EvidenceKinds == {"declaration", "fixture", "operator", "measurement"}

\* EvidenceEnvelope::new with from_subject_digest's stricter checks.
EnvelopeNew(e) ==
    IF /\ IsText(e.source) /\ IsCommit(e.source_commit) /\ IsText(e.environment)
       /\ IsText(e.executor) /\ e.timestamp > 0 /\ IsDigest(e.subject_digest)
    THEN Accepted(e) ELSE Refused

EnvelopeToManifest(e) == [f \in EnvelopeFields |-> e[f]]

EnvelopeParse(fields) ==
    IF /\ DOMAIN fields = EnvelopeFields
       /\ fields.format = "evidence.v1" /\ fields.kind \in EvidenceKinds
       /\ fields.timestamp > 0
       /\ \A f \in {"source", "environment", "executor"} : IsText(fields[f])
       /\ fields.source_commit # ""
    THEN Accepted([f \in EnvelopeFields |-> fields[f]]) ELSE Refused

CanonicalDigest(e) == Digest(EnvelopeToManifest(e))

SourceCommitBlocker(expected, commit) ==
    IF ~IsCommit(commit) THEN {"source_commit_invalid"}
    ELSE When(commit # expected, "source_commit_mismatch")

SubjectDigestBlocker(claimed, actual) ==
    IF ~IsDigest(claimed) THEN {"subject_digest_invalid"}
    ELSE When(claimed # actual, "subject_digest_mismatch")

\* One subject: its envelope, its bytes, and what other documents claim of it.
SubjectBlockers(expected, s) ==
    LET e == s.envelope IN
    UNION {
      When(e.format # "evidence.v1", "envelope_format_invalid"),
      When(~IsText(e.source) \/ ~IsText(e.environment) \/ ~IsText(e.executor) \/ e.timestamp = 0,
           "envelope_identity_invalid"),
      SourceCommitBlocker(expected, e.source_commit),
      UNION {SourceCommitBlocker(expected, c) : c \in s.commitClaims},
      SubjectDigestBlocker(e.subject_digest, Digest(s.bytes)),
      UNION {SubjectDigestBlocker(d, Digest(s.bytes)) : d \in s.digestClaims},
      When(\E n \in s.sizeClaims : n # s.size, "subject_size_mismatch")}

\* verify_evidence_bundle; the expected commit itself must be canonical.
VerifyEvidenceBundle(expected, subjects) ==
    LET commits == UNION {{subjects[i].envelope.source_commit} \cup subjects[i].commitClaims
                          : i \in DOMAIN subjects}
    IN  UNION {SubjectBlockers(expected, subjects[i]) : i \in DOMAIN subjects}
        \cup When(Cardinality({c \in commits : IsCommit(c)}) > 1, "bundle_mixed_source_commit")

Subject(e, bytes) == [envelope |-> e, bytes |-> bytes, size |-> 1, commitClaims |-> {},
                      digestClaims |-> {}, sizeClaims |-> {}]

-----------------------------------------------------------------------------
(* The production manifest and its policy. *)

EvidenceTypes == <<"artifact", "distribution", "security_scan", "benchmark", "mcp_compatibility">>
TypeRank(t) == CHOOSE i \in DOMAIN EvidenceTypes : EvidenceTypes[i] = t

PortablePath(p) == p \notin {"", "/absolute", "../outside", "back\\slash", "a//b"}

\* ReleaseEvidenceManifestEntry::new: only artifacts have a subject path, and
\* they must have one.
EntryNew(e) ==
    /\ PortablePath(e.evidence) /\ PortablePath(e.envelope)
    /\ (e.subject # "none") <=> (e.type = "artifact")
    /\ e.subject # "none" => PortablePath(e.subject)
    /\ e.envelope_digest # <<>> => IsDigest(e.envelope_digest)

SortedByType(entries) ==
    LET n == Len(entries)
        order == CHOOSE p \in [1..n -> 1..n] :
                   \A i, j \in 1..n : i < j => TypeRank(entries[p[i]].type)
                                                < TypeRank(entries[p[j]].type)
    IN  [i \in 1..n |-> entries[order[i]]]

ManifestNew(scope, commit, entries) ==
    IF \/ ~IsCommit(commit) \/ entries = <<>>
       \/ \E i \in DOMAIN entries : ~EntryNew(entries[i])
       \/ \E i, j \in DOMAIN entries : i # j /\ entries[i].type = entries[j].type
    THEN Refused
    ELSE Accepted([scope |-> scope, source_commit |-> commit, entries |-> SortedByType(entries)])

\* to_manifest: one field per entry and property, absent ones left out.
EntryProperties == {"type", "evidence", "envelope", "envelope_digest", "subject"}

ManifestFields(m) ==
    [scope |-> m.scope, source_commit |-> m.source_commit,
     entry |-> [k \in {<<i - 1, f>> : i \in DOMAIN m.entries, f \in EntryProperties} \
                      ({<<i - 1, "subject">> : i \in {i \in DOMAIN m.entries :
                                                        m.entries[i].subject = "none"}}
                       \cup {<<i - 1, "envelope_digest">> : i \in {i \in DOMAIN m.entries :
                                                        m.entries[i].envelope_digest = <<>>}})
                |-> m.entries[k[1] + 1][k[2]]]]

Field(fields, i, f, default) ==
    IF <<i, f>> \in DOMAIN fields.entry THEN fields.entry[<<i, f>>] ELSE default

ManifestParse(fields) ==
    LET indexes == {k[1] : k \in DOMAIN fields.entry}
        n == Cardinality(indexes)
    IN  IF \/ fields.scope \notin {"alpha", "production"}
           \/ \E k \in DOMAIN fields.entry : k[2] \notin EntryProperties
           \/ indexes # 0..(n - 1)
           \/ \E i \in indexes, f \in {"type", "evidence", "envelope"} :
                <<i, f>> \notin DOMAIN fields.entry
           \/ \E i \in indexes : ~\E t \in DOMAIN EvidenceTypes :
                EvidenceTypes[t] = fields.entry[<<i, "type">>]
        THEN Refused
        ELSE ManifestNew(fields.scope, fields.source_commit,
               [i \in 1..n |-> [type |-> fields.entry[<<i - 1, "type">>],
                                evidence |-> fields.entry[<<i - 1, "evidence">>],
                                envelope |-> fields.entry[<<i - 1, "envelope">>],
                                envelope_digest |-> Field(fields, i - 1, "envelope_digest", <<>>),
                                subject |-> Field(fields, i - 1, "subject", "none")]])

\* An executor is its prefix and the parts after it.
RuleMatches(rule, executor, run, attempt) ==
    /\ rule.prefix = executor.prefix
    /\ Len(executor.parts) = 3
    /\ executor.parts[1] = run
    /\ executor.parts[2] = attempt
    /\ executor.parts[3] \notin {"", "bad job"}

TrustsExecutor(policy, type, executor) ==
    \E rule \in policy.rules :
      rule.type = type /\ RuleMatches(rule, executor, policy.run, policy.attempt)

\* ProductionEvidenceContext::new and ProductionEvidencePolicy::new.
PolicyNew(p) ==
    /\ p.now > 0 /\ p.maxAge > 0
    /\ IsText(p.version) /\ p.tag = <<"v", p.version[1]>>
    /\ IsRunNumber(p.run) /\ IsRunNumber(p.attempt)
    /\ IsDigest(p.manifestDigest)
    /\ \A t \in DOMAIN EvidenceTypes : \E rule \in p.rules : rule.type = EvidenceTypes[t]

\* The rules of the release workflow, one executor prefix for each type; times
\* in minutes.
GithubActions(now, run, attempt, digest) ==
    [now |-> now, maxAge |-> 1440, maxSkew |-> 5, version |-> <<"1.11.4">>, tag |-> <<"v", "1.11.4">>,
     run |-> run, attempt |-> attempt, manifestDigest |-> digest,
     rules |-> {[type |-> EvidenceTypes[t], prefix |-> EvidenceTypes[t]]
                : t \in DOMAIN EvidenceTypes}]

-----------------------------------------------------------------------------
(* Captured commands. *)

\* A capture names its three files by digest and size.
CaptureOf(id, outcome, f) ==
    [id |-> id, outcome |-> outcome,
     manifest |-> Digest(f.manifest), manifestSize |-> f.manifest.size,
     stdout |-> Digest(f.stdout), stdoutSize |-> f.stdout.size,
     stderr |-> Digest(f.stderr), stderrSize |-> f.stderr.size]

\* verify_bytes.
CaptureBytesBlockers(c, f) ==
    UNION {
      When(c.manifest # Digest(f.manifest) \/ c.manifestSize # f.manifest.size, "manifest_digest"),
      When(c.stdout # Digest(f.stdout), "stdout_digest"),
      When(c.stderr # Digest(f.stderr), "stderr_digest"),
      When(c.stdoutSize # f.stdout.size \/ c.stderrSize # f.stderr.size, "stream_size"),
      When(c.outcome # "success", "outcome")}

NormalizeOs(os) ==
    IF os \in {"windows", "linux"} THEN os
    ELSE IF os \in {"macos", "mac", "darwin"} THEN "macos" ELSE "unknown"
NormalizeArch(arch) ==
    IF arch \in {"x64", "amd64", "x86_64"} THEN "x86_64"
    ELSE IF arch \in {"arm64", "aarch64"} THEN "aarch64" ELSE "unknown"

\* capture_runner_matches: the runner says whose job of which attempt it was.
CaptureRunnerMatches(m, e) ==
    /\ m.provider = "github-actions"
    /\ IsText(m.runnerName)
    /\ m.identity = <<m.runnerName, e.run, e.attempt, e.job>>
    /\ m.identity = e.envelope.executor
    /\ m.run = e.run /\ m.attempt = e.attempt /\ m.job = e.job
    /\ NormalizeOs(m.os) = e.os /\ NormalizeArch(m.arch) = e.arch

Executable(role) == IF role = "smoke" THEN "eva" ELSE "rustc"

\* verify_capture_manifest: what the manifest itself says of the command.
CaptureManifestBlockers(c, f, role, e) ==
    LET m == f.manifest IN
    IF m.json = "bad" THEN {"manifest"}
    ELSE UNION {
      When(m.format # "capture.v1" \/ m.id # c.id \/ m.outcome # c.outcome, "manifest"),
      When(c.outcome # "success" \/ m.exitCode # "0", "outcome"),
      When(m.executable # Executable(role) \/ m.argv # <<"--version">>
           \/ ~CaptureRunnerMatches(m, e), "identity"),
      When(m.stdout # c.stdout, "stdout_digest"),
      When(m.stderr # c.stderr, "stderr_digest"),
      When(m.stdoutSize # c.stdoutSize \/ m.stdoutSize # f.stdout.size
           \/ m.stderrSize # c.stderrSize \/ m.stderrSize # f.stderr.size, "stream_size")}

-----------------------------------------------------------------------------
(* Platform evidence. *)

Target(os, arch) ==
    IF os = "windows" /\ arch = "x86_64" THEN "x86_64-pc-windows-msvc"
    ELSE IF os = "linux" /\ arch = "x86_64" THEN "x86_64-unknown-linux-gnu"
    ELSE IF os = "macos" /\ arch = "x86_64" THEN "x86_64-apple-darwin"
    ELSE IF os = "macos" /\ arch = "aarch64" THEN "aarch64-apple-darwin" ELSE "none"

ArtifactName(tag, target) ==
    <<"eva-cli", tag[2], target, IF target = "x86_64-pc-windows-msvc" THEN "zip" ELSE "tar.gz">>

IsTag(tag) == Len(tag) = 2 /\ tag[1] = "v" /\ tag[2] \in {"1.11.4", "1.11.5"}

SubjectFields == {"tag", "commit", "os", "arch", "toolchain", "run", "attempt", "job", "name",
                  "target", "artifact", "artifactSize", "capture", "toolchainCapture"}

ToSubject(e) == [f \in SubjectFields |-> e[f]]

\* ReleasePlatformEvidence::new; os and arch are stored normalised.
PlatformNew(s, envelope) ==
    LET os == NormalizeOs(s.os)
        arch == NormalizeArch(s.arch)
        e == [f \in SubjectFields \cup {"envelope", "envelopeDigest"} |->
                IF f = "os" THEN os ELSE IF f = "arch" THEN arch
                ELSE IF f = "envelope" THEN envelope
                ELSE IF f = "envelopeDigest" THEN CanonicalDigest(envelope) ELSE s[f]]
    IN  IF /\ IsTag(s.tag) /\ IsCommit(s.commit) /\ IsText(s.toolchain) /\ IsText(s.job)
           /\ IsRunNumber(s.run) /\ IsRunNumber(s.attempt) /\ IsDigest(s.artifact)
           /\ os # "unknown" /\ arch # "unknown"
           /\ s.target = Target(os, arch) /\ s.target # "none"
           /\ s.name = ArtifactName(s.tag, s.target)
           /\ envelope.subject_digest = Digest(ToSubject(e))
        THEN Accepted(e) ELSE Refused

\* parse_manifest also refuses a text that is not the canonical one.
PlatformParse(s, envelope) ==
    LET r == PlatformNew(s, envelope)
    IN  IF r.ok /\ ToSubject(r.v) = s THEN r ELSE Refused

Renamed(blockers, names, to) == {IF b \in names THEN to ELSE b : b \in blockers}

ToolchainNames == {"manifest", "manifest_digest", "stdout_digest", "stderr_digest",
                   "stream_size", "outcome", "identity"}

\* The identity a platform must have, and the mapping of its artifact.
IdentityBlockers(e, expected) ==
    UNION {
      When(e.tag # expected.tag, "tag"), When(e.commit # expected.commit, "commit"),
      When(e.run # expected.run, "run"), When(e.attempt # expected.attempt, "attempt"),
      When(~(/\ IsTag(e.tag) /\ IsCommit(e.commit) /\ e.os # "" /\ e.arch # ""
             /\ IsText(e.toolchain) /\ IsRunNumber(e.run) /\ IsRunNumber(e.attempt)
             /\ IsText(e.job)), "platform_identity"),
      When(e.target # Target(e.os, e.arch) \/ e.name # ArtifactName(e.tag, e.target), "target")}

\* Both captures, the smoke output and the toolchain line.
CapturesBlockers(e, f) ==
    UNION {
      CaptureBytesBlockers(e.capture, f.smoke),
      CaptureManifestBlockers(e.capture, f.smoke, "smoke", e),
      Renamed(CaptureBytesBlockers(e.toolchainCapture, f.toolchain), ToolchainNames, "toolchain"),
      Renamed(CaptureManifestBlockers(e.toolchainCapture, f.toolchain, "toolchain", e),
              ToolchainNames, "toolchain"),
      When(f.toolchain.stdout.text # e.toolchain \/ e.toolchain[1] # "rustc", "toolchain_mismatch"),
      When(f.smoke.stdout.text # <<"eva", e.tag[2]>>, "smoke")}

Later(a, b) == IF a > b THEN a ELSE b

\* The envelope: a measurement of this platform, dated by the later capture.
EnvelopeBlockers(e, f, expected) ==
    LET v == e.envelope IN
    UNION {
      When(\/ v.kind # "measurement"
           \/ v.source # <<"release-platform", e.target>>
           \/ v.environment # <<e.os, e.arch, e.toolchain>>
           \/ f.smoke.manifest.json = "bad" \/ f.toolchain.manifest.json = "bad"
           \/ v.timestamp # Later(f.smoke.manifest.finished, f.toolchain.manifest.finished),
           "envelope_identity"),
      When(v.subject_digest # Digest(ToSubject(e)) \/ e.envelopeDigest # CanonicalDigest(v),
           "envelope_digest"),
      VerifyEvidenceBundle(expected.commit, <<Subject(v, ToSubject(e))>>)}

\* verify_with_bytes.
VerifyPlatform(e, expected, f) ==
    UNION {IdentityBlockers(e, expected),
           When(e.artifact # Digest(f.artifact) \/ e.artifactSize # f.artifact.size, "artifact"),
           CapturesBlockers(e, f),
           EnvelopeBlockers(e, f, expected)}

-----------------------------------------------------------------------------
(* Bundles: entries sorted by target, one for each platform. *)

Targets == <<"aarch64-apple-darwin", "x86_64-apple-darwin", "x86_64-pc-windows-msvc",
             "x86_64-unknown-linux-gnu">>
TargetRank(e) == CHOOSE i \in DOMAIN Targets : Targets[i] = e.target
IdentityKey(e) == <<e.target, e.os, e.arch>>
Payload(entries) == [i \in DOMAIN entries |-> <<ToSubject(entries[i]), entries[i].envelope>>]

Ordered(entries) ==
    \A i \in 1..(Len(entries) - 1) : TargetRank(entries[i]) <= TargetRank(entries[i + 1])
Duplicated(entries) ==
    \E i, j \in DOMAIN entries : i # j /\ IdentityKey(entries[i]) = IdentityKey(entries[j])

\* For an input that is already in order (new sorts, parse_manifest demands it).
BundleNew(entries) ==
    IF entries = <<>> \/ Duplicated(entries) THEN Refused
    ELSE Accepted([entries |-> entries, digest |-> Digest(Payload(entries))])

BundleToManifest(b) ==
    [digest |-> b.digest, count |-> Len(b.entries),
     entry |-> [i \in 0..(Len(b.entries) - 1) |->
                 [subject |-> ToSubject(b.entries[i + 1]), envelope |-> b.entries[i + 1].envelope]]]

BundleParse(m) ==
    LET n == Cardinality(DOMAIN m.entry)
        parsed == [i \in 1..n |-> PlatformParse(m.entry[i - 1].subject, m.entry[i - 1].envelope)]
        entries == [i \in 1..n |-> parsed[i].v]
    IN  IF m.count # n \/ DOMAIN m.entry # 0..(n - 1) THEN Refused
        ELSE IF \E i \in 1..n : ~parsed[i].ok THEN Refused
        ELSE IF ~Ordered(entries) THEN Refused
        ELSE LET b == BundleNew(entries)
             IN  IF b.ok /\ b.v.digest = m.digest THEN b ELSE Refused

\* ReleasePlatformEvidenceBundle::verify; the inputs are found by platform.
BundleVerify(b, expected, inputs) ==
    UNION {
      When(b.entries = <<>> \/ Len(inputs) # Len(b.entries), "bundle_unknown"),
      When(~Ordered(b.entries), "bundle_order"),
      When(Duplicated(b.entries), "bundle_duplicate"),
      When(b.digest # Digest(Payload(b.entries)), "bundle_digest"),
      UNION {LET hit == {i \in DOMAIN inputs : inputs[i].key = IdentityKey(b.entries[n])}
             IN  IF hit = {} THEN {"bundle_unknown"}
                 ELSE VerifyPlatform(b.entries[n], expected,
                        inputs[CHOOSE i \in hit : \A j \in hit : i <= j].files)
             : n \in DOMAIN b.entries},
      When(Cardinality({b.entries[n].commit : n \in DOMAIN b.entries}) > 1
           \/ Cardinality({b.entries[n].tag : n \in DOMAIN b.entries}) > 1, "bundle_conflict")}

-----------------------------------------------------------------------------
(* Dates of captures. *)

Leap(y) == y % 4 = 0 /\ (y % 100 # 0 \/ y % 400 = 0)

DaysInMonth(y, m) ==
    IF m \in {1, 3, 5, 7, 8, 10, 12} THEN 31
    ELSE IF m \in {4, 6, 9, 11} THEN 30 ELSE IF Leap(y) THEN 29 ELSE 28

ValidCalendarDate(y, m, d) == m \in 1..12 /\ d \in 1..DaysInMonth(y, m)

DaysSinceUnixEpoch(year, m, d) ==
    LET y == year - IF m <= 2 THEN 1 ELSE 0
        era == y \div 400
        yoe == y - era * 400
        doy == (153 * (m + IF m > 2 THEN -3 ELSE 9) + 2) \div 5 + d - 1
    IN  era * 146097 + yoe * 365 + yoe \div 4 - yoe \div 100 + doy - 719468

\* parse_utc_timestamp_millis: in seconds and milliseconds apart, since the
\* product leaves TLC's integers.
UtcSeconds(t) ==
    [days |-> DaysSinceUnixEpoch(t.year, t.month, t.day),
     seconds |-> t.hour * 3600 + t.minute * 60 + t.second,
     millis |-> LET n == IF Len(t.fraction) < 3 THEN Len(t.fraction) ELSE 3
                    digit(i) == IF i <= n THEN t.fraction[i] ELSE 0
                IN  100 * digit(1) + 10 * digit(2) + digit(3)]

ValidUtc(t) ==
    /\ t.year >= 1970 /\ ValidCalendarDate(t.year, t.month, t.day)
    /\ t.hour <= 23 /\ t.minute <= 59 /\ t.second <= 59

-----------------------------------------------------------------------------
(* The JSON of capture manifests, over tokens: punctuation, keys (strings)    *)
(* and scalars.  A parse is [ok, at (the next token), v].                     *)

Failed == [ok |-> FALSE, at |-> 0, v |-> <<>>]
Strings == {"a", "b"}
Scalars == {"0", "true", "null"}
TokenAt(t, i) == IF i <= Len(t) THEN t[i] ELSE "end"

RECURSIVE JsonValue(_, _), JsonMembers(_, _, _), JsonElements(_, _, _)

\* object(): a key seen before is refused.
JsonMembers(t, i, members) ==
    IF TokenAt(t, i) \notin Strings \/ TokenAt(t, i + 1) # ":" THEN Failed
    ELSE LET r == JsonValue(t, i + 2)
             more == Append(members, <<t[i], r.v>>)
         IN  IF ~r.ok \/ (\E k \in DOMAIN members : members[k][1] = t[i]) THEN Failed
             ELSE IF TokenAt(t, r.at) = "}" THEN [ok |-> TRUE, at |-> r.at + 1, v |-> <<"object", more>>]
             ELSE IF TokenAt(t, r.at) = "," THEN JsonMembers(t, r.at + 1, more) ELSE Failed

\* array()
JsonElements(t, i, elements) ==
    LET r == JsonValue(t, i)
        more == Append(elements, r.v)
    IN  IF ~r.ok THEN Failed
        ELSE IF TokenAt(t, r.at) = "]" THEN [ok |-> TRUE, at |-> r.at + 1, v |-> <<"array", more>>]
        ELSE IF TokenAt(t, r.at) = "," THEN JsonElements(t, r.at + 1, more) ELSE Failed

\* value()
JsonValue(t, i) ==
    LET c == TokenAt(t, i) IN
    IF c = "{" THEN IF TokenAt(t, i + 1) = "}" THEN [ok |-> TRUE, at |-> i + 2, v |-> <<"object", <<>>>>]
                    ELSE JsonMembers(t, i + 1, <<>>)
    ELSE IF c = "[" THEN IF TokenAt(t, i + 1) = "]" THEN [ok |-> TRUE, at |-> i + 2, v |-> <<"array", <<>>>>]
                         ELSE JsonElements(t, i + 1, <<>>)
    ELSE IF c \in Strings \cup Scalars THEN [ok |-> TRUE, at |-> i + 1, v |-> <<"leaf", <<c>>>>]
    ELSE Failed

\* parse(): nothing may follow the value.
JsonParse(t) == LET r == JsonValue(t, 1) IN IF r.ok /\ r.at = Len(t) + 1 THEN r ELSE Failed

RECURSIVE Render(_)
Joined(parts) ==
    LET RECURSIVE From(_)
        From(i) == IF i > Len(parts) THEN <<>>
                   ELSE (IF i = 1 THEN <<>> ELSE <<",">>) \o parts[i] \o From(i + 1)
    IN  From(1)

\* The text of a value, the reference the parser is measured by.
Render(v) ==
    IF v[1] = "leaf" THEN v[2]
    ELSE IF v[1] = "array" THEN <<"[">> \o Joined([i \in DOMAIN v[2] |-> Render(v[2][i])]) \o <<"]">>
    ELSE <<"{">> \o Joined([i \in DOMAIN v[2] |-> <<v[2][i][1], ":">> \o Render(v[2][i][2])]) \o <<"}">>

-----------------------------------------------------------------------------
(* Properties. *)

\* A token sequence is read as a value exactly when it is that value's text:
\* nothing else is accepted, nothing is lost, and no object repeats a key.
JsonReadsItsText(t) ==
    LET r == JsonParse(t) IN r.ok => Render(r.v) = t

\* The calendar arithmetic counts every day once: 1970-01-01 is day 0 and the
\* day after a valid date is one more, over month, year and leap-year ends.
EveryDayCounts(y, m) ==
    /\ DaysSinceUnixEpoch(1970, 1, 1) = 0
    /\ \A d \in 1..DaysInMonth(y, m) :
         LET nextDay == IF d < DaysInMonth(y, m) THEN DaysSinceUnixEpoch(y, m, d + 1)
                        ELSE IF m < 12 THEN DaysSinceUnixEpoch(y, m + 1, 1)
                        ELSE DaysSinceUnixEpoch(y + 1, 1, 1)
         IN  nextDay = DaysSinceUnixEpoch(y, m, d) + 1

\* What a manifest writes it reads back, and no manifest lacking a required
\* field or skipping an index is read at all.
ManifestRoundTrip(m) ==
    LET fields == ManifestFields(m)
        without(k) == [fields EXCEPT !.entry = [x \in DOMAIN fields.entry \ {k} |-> fields.entry[x]]]
    IN  /\ ManifestParse(fields) = Accepted(m)
        /\ \A k \in DOMAIN fields.entry :
             k[2] # "envelope_digest" => ~ManifestParse(without(k)).ok

\* A platform's evidence made from its files verifies; changing any one of the
\* evidence, the files or the expectation blocks it.
TamperIsBlocked(e, expected, f, changedEvidence, changedExpected, changedFiles) ==
    /\ VerifyPlatform(e, expected, f) = {}
    /\ \A x \in changedEvidence : x # e => VerifyPlatform(x, expected, f) # {}
    /\ \A x \in changedExpected : x # expected => VerifyPlatform(e, x, f) # {}
    /\ \A x \in changedFiles : x # f => VerifyPlatform(e, expected, x) # {}

\* An envelope reads back from its text, whatever blank and comment lines stand
\* between its own; with a line missing or doubled it is not read at all.
EnvelopeReadsBack(v, order) ==
    LET lines == [i \in DOMAIN order |-> Pair(order[i], v[order[i]])]
        read(ls) == LET fields == ParseKeyValueManifest(ls)
                    IN  IF fields.ok THEN EnvelopeParse(fields.v) ELSE Refused
        comment == [kind |-> "comment"]
    IN  EnvelopeNew(v).ok =>
          /\ read(lines) = Accepted(v)
          /\ \A i \in DOMAIN lines :
               /\ ~read(RemoveAt(lines, i)).ok /\ ~read(InsertAt(lines, i, lines[i])).ok
               /\ read(InsertAt(lines, i, comment)) = Accepted(v)

\* A bundle reads back and verifies with the files it was made from; it has each
\* platform once, and neither a changed entry, a missing input, a wrong count nor
\* another digest passes.
BundleIsSealed(e, expected, f, changed) ==
    LET b == BundleNew(<<e>>).v
        text == BundleToManifest(b)
        input == [key |-> IdentityKey(e), files |-> f]
        forged(x) == [b EXCEPT !.entries = <<x>>]
    IN  /\ BundleParse(text) = Accepted(b)
        /\ BundleVerify(b, expected, <<input>>) = {}
        /\ ~BundleNew(<<e, e>>).ok /\ ~BundleNew(<<>>).ok
        /\ ~BundleParse([text EXCEPT !.count = 2]).ok
        /\ BundleVerify(b, expected, <<>>) # {}
        /\ \A x \in changed \ {e} :
             /\ BundleVerify(forged(x), expected, <<input>>) # {}
             /\ Payload(<<x>>) # Payload(<<e>>) => ~BundleParse(BundleToManifest(forged(x))).ok

\* Two timestamps are ordered as their text says, to the millisecond.
TimestampsKeepOrder(t, u) ==
    LET place(x) == UtcSeconds(x)
        milli(x) == [i \in 1..3 |-> IF i <= Len(x.fraction) THEN x.fraction[i] ELSE 0]
        text(x) == <<x.year, x.month, x.day, x.hour, x.minute, x.second>> \o milli(x)
        number(x) == <<place(x).days, place(x).seconds, place(x).millis>>
        before(p, q) == \E i \in DOMAIN p : p[i] < q[i] /\ \A j \in 1..(i - 1) : p[j] = q[j]
    IN  ValidUtc(t) /\ ValidUtc(u) => (before(text(t), text(u)) <=> before(number(t), number(u)))

-----------------------------------------------------------------------------
(* Documents: a head of fields and lists of items, described by a schema     *)
(* that gives each field its validator.                                      *)

\* The validators: trimmed and on one line; without white space; a file name;
\* a repository markdown path; and the enumerations.
NonEmpty(v) == v \notin {"", " x", "two\nlines"}
Token(v) == NonEmpty(v) /\ v # "two words"
FileName(v) == Token(v) /\ v \notin {"a/b", ".."}
DocPath(v) == NonEmpty(v) /\ v \in {"docs/install.md", "docs/remove.md", "docs/upgrade.md"}
Statuses == {"passed", "blocked", "failed", "skipped"}
Severities == {"low", "medium", "high", "critical"}
HexCommit(v) == v \in {"commit-a", "commit-b", "COMMIT-A"}   \* either case

Valid(class, v) ==
    CASE class = "text" -> NonEmpty(v)
      [] class = "token" -> Token(v)
      [] class = "name" -> FileName(v)
      [] class = "doc" -> DocPath(v)
      [] class = "commit" -> HexCommit(v)
      [] class = "status" -> v \in Statuses
      [] class = "os" -> v \in {"windows", "linux", "macos"}
      [] class = "severity" -> v \in Severities
      [] class = "positive" -> v > 0
      [] class = "nat" -> TRUE
      [] class = "flag" -> v \in BOOLEAN
      [] class \in {"digest", "signature"} -> Len(v) = 2

Numeric(class) == class \in {"positive", "nat"}
Written(class, v) == IF Numeric(class) THEN <<v>> ELSE v
Readable(class, text) == Numeric(class) => Len(text) = 1
Read(class, text) == IF Numeric(class) THEN text[1] ELSE text

Identity == [version |-> "token", source_tag |-> "token", source_commit |-> "commit"]

ArtifactSchema ==
    [head |-> Identity @@ [name |-> "name", target |-> "token", package |-> "token",
                           binary |-> "name", digest |-> "digest", size |-> "positive",
                           signed |-> "flag", builder |-> "text", provenance_commit |-> "commit",
                           build_command |-> "text", build_profile |-> "token", sbom |-> "text",
                           scan_status |-> "token", key_id |-> "token", algorithm |-> "token",
                           value |-> "signature"],
     lists |-> [l \in {} |-> {}]]

DistributionSchema ==
    [head |-> Identity @@ [install |-> "doc", uninstall |-> "doc", upgrade |-> "doc"],
     lists |-> [smoke |-> [os |-> "os", target |-> "token", artifact |-> "name",
                           package_format |-> "token", install_command |-> "text",
                           smoke_command |-> "text", uninstall_command |-> "text",
                           upgrade_command |-> "text", status |-> "status"],
                package |-> [manager |-> "token", package |-> "text", target |-> "text",
                             command |-> "text", status |-> "status"]]]

BenchmarkSchema ==
    [head |-> Identity @@ [benchmark_status |-> "status"],
     lists |-> [measurement |-> [component |-> "token", metric |-> "text", budget_ms |-> "positive",
                                 observed_ms |-> "nat", sample_count |-> "positive",
                                 command |-> "text", environment |-> "text"]]]

ScanSchema ==
    [head |-> Identity @@ [scanner |-> "token", scanner_version |-> "text",
                           scan_status |-> "status", command |-> "text"],
     lists |-> [finding |-> [id |-> "token", package |-> "text", version |-> "text",
                             severity |-> "severity", summary |-> "text", remediation |-> "text"]]]

\* The constructors: every field of the head and of every item is valid.
DocumentNew(schema, doc) ==
    /\ \A f \in DOMAIN schema.head : Valid(schema.head[f], doc.head[f])
    /\ \A l \in DOMAIN schema.lists : \A i \in DOMAIN doc.lists[l] :
         \A f \in DOMAIN schema.lists[l] : Valid(schema.lists[l][f], doc.lists[l][i][f])

\* to_manifest: numbered fields for the items, from zero.
ItemKeys(schema, doc) ==
    UNION {{<<l, i - 1, f>> : i \in DOMAIN doc.lists[l], f \in DOMAIN schema.lists[l]}
           : l \in DOMAIN schema.lists}

ToManifest(schema, doc) ==
    [head |-> [f \in DOMAIN schema.head |-> Written(schema.head[f], doc.head[f])],
     items |-> [k \in ItemKeys(schema, doc) |->
                  Written(schema.lists[k[1]][k[3]], doc.lists[k[1]][k[2] + 1][k[3]])]]

\* indexed_fields: the indexes that occur, in their numeric order.
Indexes(fields, l) == {k[2] : k \in {k \in DOMAIN fields.items : k[1] = l}}
Nth(S, n) == CHOOSE i \in S : Cardinality({j \in S : j < i}) = n - 1

\* parse_manifest: a missing field and an invalid one are refused; gaps
\* between the indexes are closed and unknown fields are skipped.
DocumentParse(schema, fields) ==
    LET complete ==
          /\ DOMAIN schema.head \subseteq DOMAIN fields.head
          /\ \A l \in DOMAIN schema.lists : \A i \in Indexes(fields, l) :
               \A f \in DOMAIN schema.lists[l] : <<l, i, f>> \in DOMAIN fields.items
        readable ==
          /\ \A f \in DOMAIN schema.head : Readable(schema.head[f], fields.head[f])
          /\ \A l \in DOMAIN schema.lists : \A i \in Indexes(fields, l) :
               \A f \in DOMAIN schema.lists[l] :
                 Readable(schema.lists[l][f], fields.items[<<l, i, f>>])
        doc == [head |-> [f \in DOMAIN schema.head |-> Read(schema.head[f], fields.head[f])],
                lists |-> [l \in DOMAIN schema.lists |->
                             [n \in 1..Cardinality(Indexes(fields, l)) |->
                                LET i == Nth(Indexes(fields, l), n) IN
                                [f \in DOMAIN schema.lists[l] |->
                                   Read(schema.lists[l][f], fields.items[<<l, i, f>>])]]]]
    IN  IF complete /\ readable THEN IF DocumentNew(schema, doc) THEN Accepted(doc) ELSE Refused
        ELSE Refused

\* to_envelope of the three listed documents: the text must read back as this
\* document, and the envelope's own checks hold.
DocumentEnvelope(schema, doc, envelope) ==
    IF DocumentParse(schema, ToManifest(schema, doc)) = Accepted(doc)
    THEN EnvelopeNew([envelope EXCEPT !.source_commit = doc.head.source_commit,
                                      !.subject_digest = Digest(ToManifest(schema, doc))])
    ELSE Refused

-----------------------------------------------------------------------------
(* What each document says of the release. *)

LocalKey == "eva-local-release-signing-key"

\* signature_payload: everything but the signature.
SignedFields == DOMAIN ArtifactSchema.head \ {"key_id", "algorithm", "value"}
Sign(head, key) ==
    [head EXCEPT !.key_id = key, !.algorithm = "keyed-sha256",
                 !.value = <<key, [f \in SignedFields |-> head[f]]>>]

ArtifactRisks(h, key) ==
    LET expected == Sign(h, key) IN
    UNION {When(~h.signed, "unsigned"), When(h.key_id # expected.key_id, "key"),
           When(h.algorithm # expected.algorithm, "algorithm"),
           When(h.value # expected.value, "value"),
           When(h.provenance_commit # h.source_commit, "commit"),
           When(h.scan_status # "passed", "scan")}

\* verify: the signature and the provenance, apart from the list of risks.
ArtifactVerified(h, key) ==
    LET expected == Sign(h, key) IN
    /\ h.signed
    /\ h.key_id = expected.key_id /\ h.algorithm = expected.algorithm /\ h.value = expected.value
    /\ h.provenance_commit = h.source_commit
    /\ h.scan_status = "passed" /\ h.sbom # ""

DistributionRisks(d) ==
    LET smokes == {d.lists.smoke[i] : i \in DOMAIN d.lists.smoke}
        runs == {d.lists.package[i] : i \in DOMAIN d.lists.package}
        passed == {s.os : s \in {s \in smokes : s.status = "passed"}}
    IN  UNION {When(\E s \in smokes : s.status # "passed", <<"smoke">>),
               {<<"missing", os>> : os \in {"windows", "linux", "macos"} \ passed},
               When(runs = {}, <<"no_dry_run">>),
               When(\E r \in runs : r.status # "passed", <<"dry_run">>)}

ScanRisks(s) ==
    When(s.head.scan_status # "passed", <<"status">>)
    \cup {<<"finding", i>> : i \in {i \in DOMAIN s.lists.finding :
                                      s.lists.finding[i].severity \in {"high", "critical"}}}

\* RELEASE_BENCHMARK_BUDGET_POLICIES in seconds; 0 where there is none.
TrustedBudget(m) ==
    IF m.component = "release.version" /\ m.metric = "version wall time" THEN 2
    ELSE IF m.component = "release.check" /\ m.metric = "check wall time" THEN 5 ELSE 0

MeasurementStatus(m) ==
    IF TrustedBudget(m) # 0 /\ m.budget_ms = TrustedBudget(m) /\ m.observed_ms <= TrustedBudget(m)
    THEN "pass" ELSE "blocked"

BenchmarkRisks(b) ==
    LET ms == b.lists.measurement IN
    UNION {When(b.head.benchmark_status # "passed", <<"status">>), When(ms = <<>>, <<"empty">>),
           {<<"policy", i>> : i \in {i \in DOMAIN ms : TrustedBudget(ms[i]) = 0}},
           {<<"budget", i>> : i \in {i \in DOMAIN ms : TrustedBudget(ms[i]) # 0
                                                       /\ ms[i].budget_ms # TrustedBudget(ms[i])}},
           {<<"over", i>> : i \in {i \in DOMAIN ms : TrustedBudget(ms[i]) # 0
                                                     /\ ms[i].observed_ms > TrustedBudget(ms[i])}}}

\* PerformanceBudget: unmeasured and synthetic only warn.
BudgetStatus(kind, observed, budget) ==
    IF kind # "measurement" THEN "warn" ELSE IF observed <= budget THEN "pass" ELSE "blocked"

\* to_budget falls back to the claimed budget and then blocks the claim.
ToBudget(m) ==
    LET budget == IF TrustedBudget(m) = 0 THEN m.budget_ms ELSE TrustedBudget(m) IN
    IF TrustedBudget(m) # m.budget_ms THEN "blocked"
    ELSE BudgetStatus("measurement", m.observed_ms, budget)

\* to_performance_report.
PerformanceStatus(b) ==
    LET ms == b.lists.measurement IN
    IF \/ b.head.benchmark_status # "passed" \/ ms = <<>>
       \/ \E i \in DOMAIN ms : TrustedBudget(ms[i]) # ms[i].budget_ms
    THEN "blocked"
    ELSE IF \A i \in DOMAIN ms : ToBudget(ms[i]) = "pass" THEN "within_budget" ELSE "over_budget"

-----------------------------------------------------------------------------
(* The MCP compatibility measurement: a fixed order of fields, its text its  *)
(* only text.                                                                *)

McpExpected ==
    [format |-> "eva.mcp-compatibility.v1", evidence_kind |-> "measurement", server_name |-> "eva",
     server_version |-> "1.11.5", protocol_version |-> "2025-11-25",
     transport |-> "streamable_http", tls_peer_name |-> "127.0.0.1", tool_name |-> "compat.echo"]
McpTrue == {"tls_handshake_completed", "initialize_server_info_observed",
            "tools_list_schema_observed", "tools_call_result_observed", "abort_socket_closed",
            "abort_session_deleted", "abort_reader_joined"}
McpPositive == {"tls_handshake_count", "schema_bytes", "output_bytes"}
McpZero == {"abort_sessions_after", "abort_readers_after", "abort_cleanup_pending_after"}

\* verify.
McpFailures(m) ==
    UNION {{f \in DOMAIN McpExpected : m[f] # McpExpected[f]}, {f \in McpTrue : ~m[f]},
           {f \in McpPositive : m[f] = 0}, {f \in McpZero : m[f] # 0},
           When(m.tls_protocol \notin {"TLSv1_2", "TLSv1_3"}, "tls_protocol")}

\* A number's text is its decimal digits; leading zeros are not canonical.
CanonicalNumber(digits) ==
    /\ digits # <<>> /\ \A i \in DOMAIN digits : digits[i] \in 0..9
    /\ Len(digits) > 1 => digits[1] # 0

\* parse_manifest: line by line in the one order, every value canonical.
McpParse(order, kinds, lines, ended) ==
    /\ ended                                           \* ASCII, LF only, final newline
    /\ Len(lines) = Len(order)
    /\ \A i \in DOMAIN lines :
         /\ lines[i].key = order[i]
         /\ kinds[i] = "bool" => lines[i].value \in {<<"true">>, <<"false">>}
         /\ kinds[i] = "u64" => CanonicalNumber(lines[i].value)
         /\ kinds[i] = "digest" => IsDigest(lines[i].value)
         /\ lines[i].value # <<>>

-----------------------------------------------------------------------------
(* The bundle: the manifest's entries are the candidates, and each candidate *)
(* is [evidence, envelope, bytes] of its type.                               *)

Types == {EvidenceTypes[t] : t \in DOMAIN EvidenceTypes}

\* The subject of each candidate: what other documents claim of the same bytes.
SubjectOf(t, c) ==
    [envelope |-> c.envelope, bytes |-> c.bytes, size |-> c.size,
     commitClaims |-> IF t = "artifact" THEN {c.evidence.source_commit, c.evidence.provenance_commit}
                      ELSE IF t = "mcp_compatibility" THEN {} ELSE {c.evidence.source_commit},
     digestClaims |-> IF t = "artifact" THEN {c.evidence.digest} ELSE {},
     sizeClaims |-> IF t = "artifact" THEN {c.evidence.size} ELSE {}]

\* verify_inner without a policy: "ok" or why it is refused.
VerifyInner(manifest, expected, candidates) ==
    LET present == {manifest.entries[i].type : i \in DOMAIN manifest.entries}
        order == SelectSeq(EvidenceTypes, LAMBDA t : t \in present)
        subjects == [i \in DOMAIN order |-> SubjectOf(order[i], candidates[order[i]])]
    IN  IF manifest.source_commit # expected THEN "commit"
        ELSE IF present # DOMAIN candidates THEN "entries"
        ELSE IF VerifyEvidenceBundle(expected, subjects) # {} THEN "integrity" ELSE "ok"

\* The paths the manifest names, one for each entry and role.
PathRoles(manifest) ==
    UNION {{<<i, "evidence">>, <<i, "envelope">>}
           \cup (IF manifest.entries[i].subject = "none" THEN {} ELSE {<<i, "subject">>})
           : i \in DOMAIN manifest.entries}

EntryOf(manifest, t) ==
    manifest.entries[CHOOSE i \in DOMAIN manifest.entries : manifest.entries[i].type = t]

CaptureIdentity(v) == <<v.source, v.environment, v.executor, v.timestamp>>

\* verify_production_policy over each envelope.
EnvelopePolicyBlockers(manifest, policy, t, v) ==
    LET digest == EntryOf(manifest, t).envelope_digest IN
    UNION {
      IF digest = <<>> THEN {"envelope_digest_missing"}
      ELSE When(digest # CanonicalDigest(v), "envelope_digest_mismatch"),
      When(v.kind # "measurement", "kind_not_measurement"),
      IF v.timestamp > policy.now + policy.maxSkew THEN {"future_timestamp"}
      ELSE When(policy.now - v.timestamp > policy.maxAge, "stale"),
      When(~TrustsExecutor(policy, t, v.executor), "executor_untrusted")}

\* Two envelopes of the same bytes, or of the same capture.
Duplicates(candidates) ==
    LET clash(F(_)) == \E s, t \in DOMAIN candidates : s # t /\ F(s) = F(t)
        Bytes(t) == candidates[t].envelope.subject_digest
        Capture(t) == CaptureIdentity(candidates[t].envelope)
    IN  When(clash(Bytes), "subject_duplicate") \cup When(clash(Capture), "identity_conflict")

\* Every document but the MCP measurement names the release, and names this one.
ReleaseIdentityBlockers(policy, candidates) ==
    When(\E t \in DOMAIN candidates \ {"mcp_compatibility"} :
           \/ candidates[t].evidence.version # policy.version
           \/ candidates[t].evidence.source_tag # policy.tag, "release_identity")

\* verify_production_policy: the manifest itself, its coverage and its paths,
\* then the envelopes and the release.
ProductionBlockers(manifest, policy, candidates) ==
    UNION {
      When(Digest(ManifestFields(manifest)) # policy.manifestDigest, "manifest_digest"),
      When(DOMAIN candidates # Types, "coverage_missing"),
      When(\E p, q \in PathRoles(manifest) :
             p # q /\ manifest.entries[p[1]][p[2]] = manifest.entries[q[1]][q[2]],
           "identity_conflict"),
      UNION {EnvelopePolicyBlockers(manifest, policy, t, candidates[t].envelope)
             : t \in DOMAIN candidates},
      Duplicates(candidates), ReleaseIdentityBlockers(policy, candidates)}

\* verify and verify_production: each scope has its own entry.
Verify(manifest, expected, candidates) ==
    IF manifest.scope = "production" THEN "policy_required"
    ELSE VerifyInner(manifest, expected, candidates)

\* Fault: the policy is not asked.
VerifyProductionFault(manifest, expected, candidates, policy) ==
    LET inner == VerifyInner(manifest, expected, candidates) IN
    IF manifest.scope # "production" THEN "scope" ELSE inner

VerifyProduction(manifest, expected, candidates, policy) ==
    LET inner == VerifyInner(manifest, expected, candidates) IN
    IF manifest.scope # "production" THEN "scope"
    ELSE IF inner # "ok" THEN inner
    ELSE IF ProductionBlockers(manifest, policy, candidates) # {} THEN "policy" ELSE "ok"

-----------------------------------------------------------------------------
(* The gates. *)

Gate(kind, status, required) == [kind |-> kind, status |-> status, required |-> required]
Blocking(gate) == gate.required /\ gate.status = "blocked"

\* status_from: the worst of them.
StatusFrom(statuses) ==
    IF "blocked" \in statuses THEN "blocked" ELSE IF "warn" \in statuses THEN "warn" ELSE "pass"

\* platforms(target): all of them, or the one.
Platforms(target) == IF target = "all" THEN {"windows", "linux", "macos"} ELSE {target}
StabilityScenarios == {"STAB-TASK-001", "STAB-CANCEL-001", "STAB-UPGRADE-001", "STAB-RECOVERY-001"}

CoreGates(target) ==
    LET declared == [g \in {"REL-PLATFORM-001", "REL-STABILITY-001", "REL-DOCS-001"} |->
                       CASE g = "REL-PLATFORM-001"  -> Platforms(target)
                         [] g = "REL-STABILITY-001" -> StabilityScenarios
                         [] OTHER                   -> {"docs"}]
    IN  [g \in DOMAIN declared |->
           Gate("declaration", StatusFrom({"pass" : d \in declared[g]}), TRUE)]

\* security_review and security_gate: a finding is required from high on.
SecurityFindings ==
    [f \in {"SEC-PERM-001", "SEC-SANDBOX-001", "SEC-SECRET-001", "SEC-MCP-001", "SEC-HW-001",
            "SEC-LIFE-001"} |->
       [severity |-> IF f \in {"SEC-SECRET-001", "SEC-LIFE-001"} THEN "medium" ELSE "high",
        status |-> IF f = "SEC-LIFE-001" THEN "warn" ELSE "pass"]]
SecurityGates ==
    [f \in DOMAIN SecurityFindings |->
       Gate("declaration", SecurityFindings[f].status,
            SecurityFindings[f].severity \in {"high", "critical"})]

\* performance_baseline: six budgets nobody measured; performance_gate.
PerformanceGates ==
    [c \in {"PERF-EVENTBUS-PUBLISH", "PERF-SCHEDULER-ROUTE", "PERF-ADAPTER-PROBE",
            "PERF-MEMORY-CONTEXT", "PERF-BACKUP-CREATE", "PERF-RELEASE-CHECK"} |->
       Gate("declaration", BudgetStatus("unmeasured", 0, 1), TRUE)]

\* migration_guide and migration_gate: no breaking changes.
BreakingChanges == {}
MigrationGate == ("REL-MIGRATION-001" :> Gate("declaration",
                     IF BreakingChanges = {} THEN "pass" ELSE "warn", TRUE))

\* The gates that declare what earlier releases showed.
Declared(ids) == [g \in ids |-> Gate("declaration", "pass", TRUE)]
DurableGates == Declared({"REL-DURABLE-BACKEND-001", "REL-DURABLE-EVENTBUS-001",
                          "REL-DURABLE-STORES-001", "REL-DURABLE-RECOVERY-001",
                          "REL-DURABLE-DIAGNOSTICS-001"})
LuaGates == Declared({"REL-LUA-VM-EXECUTION-001", "REL-LUA-HOST-BINDINGS-001",
                      "REL-LUA-RESOURCE-LIMITS-001", "REL-LUA-HOT-RELOAD-001"})
OperationGates == Declared({"REL-BACKUP-ARCHIVE-001", "REL-RESTORE-APPLY-GATE-001",
                            "REL-SUPERVISOR-HANDOFF-001", "REL-SERVICE-MANAGER-ABSTRACTION-001",
                            "REL-DAEMON-RUNTIME-001"})
SafetyGates == Declared({"REL-PROVIDER-SUPERVISION-001", "REL-HARDWARE-SAFETY-001",
                         "REL-OBSERVABILITY-POLICY-001", "REL-JSON-CONTRACT-001"})

\* The MCP gate: the measurement when there is one, else the fixture matrix
\* built into the program, which is compatible.
McpGate(documents) ==
    ("REL-MCP-COMPAT-001" :>
       IF "mcp_compatibility" \in DOMAIN documents
       THEN Gate("declaration",
                 IF McpFailures(documents["mcp_compatibility"]) = {} THEN "pass" ELSE "blocked", TRUE)
       ELSE Gate("fixture", "pass", TRUE))

GateId == [artifact |-> "REL-ARTIFACT-PROVENANCE-001", distribution |-> "REL-DISTRIBUTION-001",
           security_scan |-> "REL-SECURITY-SCAN-001", benchmark |-> "REL-BENCHMARK-001",
           mcp_compatibility |-> "REL-MCP-COMPAT-001"]

\* The four gates only evidence makes.
EvidenceGate(t, document) ==
    Gate("declaration",
         IF CASE t = "artifact" -> ArtifactVerified(document.head, LocalKey)
              [] t = "distribution" -> DistributionRisks(document) = {}
              [] t = "security_scan" -> ScanRisks(document) = {}
              [] t = "benchmark" -> BenchmarkRisks(document) = {}
         THEN "pass" ELSE "blocked", TRUE)

EvidenceGates(documents) ==
    [id \in {GateId[t] : t \in DOMAIN documents \ {"mcp_compatibility"}} |->
       LET t == CHOOSE t \in DOMAIN documents : GateId[t] = id IN EvidenceGate(t, documents[t])]

ClosureIds == {"REL-DAEMON-RUNTIME-001", "REL-MCP-COMPAT-001", "REL-PROVIDER-SUPERVISION-001",
               "REL-RESTORE-APPLY-GATE-001", "REL-SERVICE-MANAGER-ABSTRACTION-001",
               "REL-HARDWARE-SAFETY-001", "REL-OBSERVABILITY-POLICY-001", "REL-JSON-CONTRACT-001"}

\* v1x_closure_report: anything but a pass blocks.
Closure(gates) ==
    LET passed == {id \in ClosureIds \cap DOMAIN gates : gates[id].status = "pass"}
        missing == ClosureIds \ DOMAIN gates
        blocking == (ClosureIds \cap DOMAIN gates) \ passed
    IN  [passed |-> passed, missing |-> missing, blocking |-> blocking,
         status |-> IF missing = {} /\ blocking = {} THEN "ready_with_external_blockers"
                    ELSE "blocked"]

ClosureGate(closure) ==
    ("REL-V1X-CLOSURE-001" :>
       Gate("declaration", IF closure.status = "blocked" THEN "blocked" ELSE "pass", TRUE))

ReportStatus(gates) == IF \E id \in DOMAIN gates : Blocking(gates[id]) THEN "blocked" ELSE "ready"

\* readiness_inner: the target is checked first; closure is computed from the
\* gates before its own.
WithClosure(gates) ==
    LET closure == Closure(gates)
        all == gates @@ ClosureGate(closure)
    IN  [gates |-> all, closure |-> closure, status |-> ReportStatus(all), scope |-> "alpha"]

Readiness(target, documents) ==
    IF target \notin {"all", "windows", "linux", "macos"} THEN Refused
    ELSE Accepted(WithClosure(CoreGates(target) @@ SecurityGates @@ PerformanceGates @@ MigrationGate
                              @@ DurableGates @@ LuaGates @@ OperationGates @@ McpGate(documents)
                              @@ SafetyGates @@ EvidenceGates(documents)))

\* set_gate_evidence_kind for every envelope of the bundle.
WithKinds(report, kinds) ==
    [report EXCEPT !.gates = [id \in DOMAIN report.gates |->
       LET ts == {t \in DOMAIN kinds : GateId[t] = id} IN
       IF ts = {} THEN report.gates[id]
       ELSE [report.gates[id] EXCEPT !.kind = kinds[CHOOSE t \in ts : TRUE]]]]

\* enforce_production_measurement_gates.
Enforced(report) ==
    LET gates == [id \in DOMAIN report.gates |->
                    IF report.gates[id].required /\ report.gates[id].kind # "measurement"
                    THEN [report.gates[id] EXCEPT !.status = "blocked"] ELSE report.gates[id]]
    IN  [report EXCEPT !.gates = gates, !.status = ReportStatus(gates)]

\* readiness_with_verified_release_evidence.
InScope(report, scope) ==
    [IF scope = "production" THEN Enforced(report) ELSE report EXCEPT !.scope = scope]

Verified(r, kinds, scope) ==
    IF r.ok THEN Accepted(InScope(WithKinds(r.v, kinds), scope)) ELSE Refused

ReadinessVerified(target, documents, kinds, scope) ==
    Verified(Readiness(target, documents), kinds, scope)

BlockingCount(report) == Cardinality({id \in DOMAIN report.gates : Blocking(report.gates[id])})
WarningCount(report) ==
    Cardinality({id \in DOMAIN report.gates : report.gates[id].status = "warn"})

-----------------------------------------------------------------------------
(* Properties. *)

\* A document reads back as it was written, and a document that lacks a field
\* is not read at all.
DocumentRoundTrip(schema, doc) ==
    LET fields == ToManifest(schema, doc)
        without(k) == [fields EXCEPT !.items = [x \in DOMAIN fields.items \ {k} |-> fields.items[x]]]
    IN  DocumentNew(schema, doc) =>
          /\ DocumentParse(schema, fields) = Accepted(doc)
          /\ \A k \in DOMAIN fields.items : ~DocumentParse(schema, without(k)).ok

\* verify and to_performance_report judge one benchmark document twice and
\* agree; so do a measurement's own status and its budget.
BenchmarkAgrees(b) ==
    /\ (BenchmarkRisks(b) = {}) <=> (PerformanceStatus(b) = "within_budget")
    /\ \A i \in DOMAIN b.lists.measurement :
         MeasurementStatus(b.lists.measurement[i]) = ToBudget(b.lists.measurement[i])

\* An artifact is verified exactly when no risk is listed, and once signed no
\* field of it can be changed.
SignatureCovers(head, changed) ==
    LET signed == Sign(head, LocalKey) IN
    /\ ArtifactVerified(signed, LocalKey) <=> ArtifactRisks(signed, LocalKey) = {}
    /\ \A h \in changed :
         [f \in SignedFields |-> h[f]] # [f \in SignedFields |-> head[f]]
           => ~ArtifactVerified([h EXCEPT !.key_id = signed.key_id, !.algorithm = signed.algorithm,
                                          !.value = signed.value], LocalKey)

\* The production policy takes the honest bundle and no altered one.
PolicyTakesOnlyHonest(honest, altered) ==
    /\ PolicyNew(honest.policy)
    /\ Verify(honest.manifest, honest.commit, honest.candidates) = "policy_required"
    /\ VerifyProduction(honest.manifest, honest.commit, honest.candidates, honest.policy) = "ok"
    /\ \A b \in altered : VerifyProduction(b.manifest, b.commit, b.candidates, b.policy) # "ok"

\* No production report passes a required gate that was not measured, failed
\* evidence blocks in either scope, and the status says what the gates say.
ReportSays(report, documents, scope) ==
      /\ scope = "production" =>
           \A id \in DOMAIN report.gates :
             report.gates[id].required /\ report.gates[id].kind # "measurement"
               => report.gates[id].status = "blocked"
      /\ \A t \in DOMAIN documents \ {"mcp_compatibility"} :
           EvidenceGate(t, documents[t]).status = "blocked" => report.status = "blocked"
      /\ (report.status = "blocked") <=> (BlockingCount(report) > 0)
      /\ report.status = "ready" =>
           WarningCount(report) = Cardinality({id \in DOMAIN report.gates :
                                 report.gates[id].status # "pass" /\ ~Blocking(report.gates[id])})

ReportIsHonest(target, documents, kinds, scope) ==
    \A r \in {ReadinessVerified(target, documents, kinds, scope)} :
      r.ok => ReportSays(r.v, documents, scope)

\* The envelope a document is sealed with verifies with that document and its
\* commit, and with no other commit.
EnvelopeBinds(schema, doc, envelope, others) ==
    LET sealed == DocumentEnvelope(schema, doc, envelope)
        subjects == <<Subject(sealed.v, ToManifest(schema, doc))>>
    IN  DocumentNew(schema, doc) =>
          /\ sealed.ok /\ VerifyEvidenceBundle(doc.head.source_commit, subjects) = {}
          /\ \A c \in others \ {doc.head.source_commit} : VerifyEvidenceBundle(c, subjects) # {}

\* An MCP report has one text: a number has one spelling, and a text with a line
\* missing, doubled or out of its place is refused.
McpTextIsExact(order, kinds, lines, digits) ==
    LET value(d) == FoldLeft(LAMBDA acc, x : 10 * acc + x, 0, d)
        accepted(ls) == McpParse(order, kinds, ls, TRUE)
    IN  /\ \A d, e \in digits : CanonicalNumber(d) /\ CanonicalNumber(e) /\ value(d) = value(e) => d = e
        /\ accepted(lines) =>
             /\ ~McpParse(order, kinds, lines, FALSE)
             /\ \A i \in DOMAIN lines :
                  /\ ~accepted(RemoveAt(lines, i)) /\ ~accepted(InsertAt(lines, i, lines[i]))
                  /\ \A j \in DOMAIN lines \ {i} :
                       ~accepted([lines EXCEPT ![i] = lines[j], ![j] = lines[i]])
=============================================================================
