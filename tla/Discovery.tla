------------------------------ MODULE Discovery ------------------------------
(***************************************************************************)
(* Discovery of adapters, capabilities and commands (eva-discovery): the   *)
(* sources and their deadline, the durable cache with one partition per    *)
(* source, and the preflight that a configuration generation makes of them *)
(* (eva-runtime/src/config_generation.rs).                                 *)
(*                                                                         *)
(* The machine is one generation build after another over a cache          *)
(* directory that outlives them, with the project, the clock and the       *)
(* process changing in between.  The operators after it are the decisions  *)
(* of the sources and the text of a cache file.                            *)
(***************************************************************************)
EXTENDS Naturals, Sequences, FiniteSets, SequencesExt

CONSTANTS Sources,      \* the sources, in the order they are scanned
          Ids,          \* candidate identifiers
          Rank(_),      \* the order of the sources' names
          Ttl,          \* how long a partition is taken from disk
          MaxClock, MaxEdits, MaxCrashes

SourceSet == ToSet(Sources)

NoPartition == [present |-> FALSE, found |-> {}, expires |-> 0]

Partition(found, at) == [present |-> TRUE, found |-> found, expires |-> at + Ttl]

VARIABLES world,     \* what each source would find now
          disk,      \* the partition files
          cache,     \* the partitions of the open cache
          build,     \* the generation being built
          clock, edits, crashes

discoveryVars == <<world, disk, cache, build, clock, edits, crashes>>

NoBuild == [pc |-> "idle", seen |-> [s \in SourceSet |-> {}],
            failed |-> {}, at |-> 1, unsaved |-> FALSE]

TypeOK ==
    /\ world \in [SourceSet -> SUBSET Ids]
    /\ \A s \in SourceSet :
          /\ disk[s].found \subseteq Ids
          /\ cache[s].found \subseteq Ids
    /\ build.pc \in {"idle", "scan", "merge", "accepted", "refused"}
    /\ build.at \in 1 .. (Len(Sources) + 1)
    /\ clock \in 0 .. MaxClock

DiscoveryInit ==
    /\ world \in [SourceSet -> SUBSET Ids]
    /\ disk = [s \in SourceSet |-> NoPartition]
    /\ cache = [s \in SourceSet |-> NoPartition]
    /\ build = NoBuild
    /\ clock = 0
    /\ edits = 0
    /\ crashes = 0

\* dedupe: the candidates of all partitions in the order of identifier and
\* source, with the first one of every identifier kept.
Snapshot(partitions) ==
    {c \in Ids \X SourceSet :
        /\ partitions[c[2]].present
        /\ c[1] \in partitions[c[2]].found
        /\ \A other \in SourceSet :
              partitions[other].present /\ c[1] \in partitions[other].found
                  => Rank(c[2]) <= Rank(other)}

\* DiscoveryCache::open_directory: a partition that has expired is removed.
Fresh(s) == disk[s].present /\ disk[s].expires > clock

OpenCache ==
    /\ build.pc \in {"idle", "accepted", "refused"}
    /\ cache' = [s \in SourceSet |-> IF Fresh(s) THEN disk[s] ELSE NoPartition]
    /\ disk' = cache'
    /\ build' = [NoBuild EXCEPT !.pc = "scan"]
    /\ UNCHANGED <<world, clock, edits, crashes>>

\* scan_sources: a source answers, fails, or answers after its deadline; the
\* last two are errors of the report and leave no candidates.
ScanSource(ok) ==
    LET s == Sources[build.at]
    IN  /\ build.pc = "scan"
        /\ build.at <= Len(Sources)
        /\ build' = [build EXCEPT !.seen[s] = IF ok THEN world[s] ELSE {},
                                  !.failed = IF ok THEN @ ELSE @ \union {s},
                                  !.at = @ + 1]
        /\ UNCHANGED <<world, disk, cache, clock, edits, crashes>>

ScanDone ==
    /\ build.pc = "scan"
    /\ build.at > Len(Sources)
    /\ build' = [build EXCEPT !.pc = "merge", !.at = 1]
    /\ UNCHANGED <<world, disk, cache, clock, edits, crashes>>

\* merge_source writes the partition's file and then the open cache; the first
\* write that fails ends the merge and becomes an error of the report.
MergeSource(written) ==
    LET s == Sources[build.at]
        partition == Partition(build.seen[s], clock)
    IN  /\ build.pc = "merge"
        /\ build.at <= Len(Sources)
        /\ IF s \in build.failed
           THEN /\ written
                /\ build' = [build EXCEPT !.at = @ + 1]
                /\ UNCHANGED <<disk, cache>>
           ELSE IF written
           THEN /\ disk' = [disk EXCEPT ![s] = partition]
                /\ cache' = [cache EXCEPT ![s] = partition]
                /\ build' = [build EXCEPT !.at = @ + 1]
           ELSE /\ build' = [build EXCEPT !.at = Len(Sources) + 1,
                                          !.unsaved = TRUE]
                /\ UNCHANGED <<disk, cache>>
        /\ UNCHANGED <<world, clock, edits, crashes>>

\* build_with_discovery_layout refuses the generation if the report has an error.
Preflight ==
    /\ build.pc = "merge"
    /\ build.at > Len(Sources)
    /\ build' = [build EXCEPT !.pc = IF build.failed # {} \/ build.unsaved
                                     THEN "refused" ELSE "accepted"]
    /\ UNCHANGED <<world, disk, cache, clock, edits, crashes>>

Edit ==
    /\ edits < MaxEdits
    /\ edits' = edits + 1
    /\ \E s \in SourceSet, found \in SUBSET Ids : world' = [world EXCEPT ![s] = found]
    /\ UNCHANGED <<disk, cache, build, clock, crashes>>

CrashBuild ==
    /\ build.pc \in {"scan", "merge"}
    /\ crashes < MaxCrashes
    /\ crashes' = crashes + 1
    /\ cache' = [s \in SourceSet |-> NoPartition]
    /\ build' = NoBuild
    /\ UNCHANGED <<world, disk, clock, edits>>

Tick ==
    /\ clock < MaxClock
    /\ clock' = clock + 1
    /\ UNCHANGED <<world, disk, cache, build, edits, crashes>>

DiscoveryNext ==
    \/ OpenCache
    \/ \E ok \in BOOLEAN : ScanSource(ok)
    \/ ScanDone
    \/ \E written \in BOOLEAN : MergeSource(written)
    \/ Preflight
    \/ Edit
    \/ CrashBuild
    \/ Tick

\* The candidates of a generation that passed the preflight are the ones its own
\* scan found: nothing that an earlier build, a crashed one or an older project
\* left in the cache directory is offered with them (service.rs scan_project).
AcceptedIsScanned ==
    build.pc = "accepted" =>
        Snapshot(cache) =
            Snapshot([s \in SourceSet |-> Partition(build.seen[s], clock)])

(***************************************************************************)
(* What the sources offer of a project.  An adapter is [id, enabled,       *)
(* transport, capabilities, command, tools, hits]; a capability manifest   *)
(* is [name, kind, provider].  A candidate is [id, source, trust,          *)
(* rejected].                                                              *)
(***************************************************************************)
Candidate(kind, adapter, name, source, trust, rejected) ==
    [id |-> <<kind, adapter, name>>, source |-> source, trust |-> trust,
     rejected |-> rejected]

AdapterKind(adapter) ==
    CASE adapter.transport = "mcp" -> "mcp_tool"
      [] adapter.transport = "skill" -> "skill"
      [] OTHER -> "capability"

AdapterCandidates(adapter) ==
    <<Candidate("adapter", adapter.id, "", "project_config", "project_manifest", FALSE)>>
    \o [i \in 1 .. Len(adapter.capabilities) |->
            Candidate(AdapterKind(adapter), adapter.id, adapter.capabilities[i],
                      "project_config",
                      IF adapter.enabled THEN "project_manifest" ELSE "display_only",
                      ~adapter.enabled)]

ProjectConfigScan(project) ==
    FlattenSeq([i \in 1 .. Len(project.adapters) |->
                    AdapterCandidates(project.adapters[i])])
    \o [i \in 1 .. Len(project.capabilities) |->
            LET c == project.capabilities[i]
            IN  Candidate(c.kind, c.provider, c.name, "project_config",
                          "configured_allowlist", FALSE)]

\* hits is how the command resolves: "path" (not a bare name), "none",
\* "outside" (the allowed paths), "plain" (not executable) or "executable".
PathCommandsScan(project) ==
    LET stdio == SelectSeq(project.adapters,
                           LAMBDA a : a.transport = "stdio" /\ a.command # "")
    IN  [i \in 1 .. Len(stdio) |->
            Candidate("path_command", stdio[i].id, stdio[i].command,
                      "path_commands", "configured_allowlist",
                      ~stdio[i].enabled \/ stdio[i].hits # "executable")]

\* A command is probed, that is executed, only in this case.
Probed(adapter) ==
    /\ adapter.transport = "stdio"
    /\ adapter.command # ""
    /\ adapter.enabled
    /\ adapter.hits = "executable"

McpScan(project) ==
    LET mcp == SelectSeq(project.adapters, LAMBDA a : a.transport = "mcp")
        offered(a) ==
            IF a.tools = <<>>
            THEN <<Candidate("mcp_tool", a.id, "tool_allowlist", "mcp",
                             "display_only", TRUE)>>
            ELSE [j \in 1 .. Len(a.tools) |->
                     Candidate("mcp_tool", a.id, a.tools[j], "mcp",
                               "configured_allowlist", ~a.enabled)]
    IN  FlattenSeq([i \in 1 .. Len(mcp) |-> offered(mcp[i])])

CodexScan(project) ==
    LET codex == SelectSeq(project.adapters, LAMBDA a : a.id = "codex" \/ a.command = "codex")
    IN  [i \in 1 .. Len(codex) |->
            Candidate("workflow", codex[i].id, "codex-cli", "codex",
                      "configured_allowlist", ~codex[i].enabled)]

MarkerScan(kind, name, source, present) ==
    <<Candidate(kind, "", name, source,
                IF present /\ source = "omx" THEN "configured_allowlist"
                ELSE "display_only", ~present)>>

SourceRank(source) ==
    SelectInSeq(<<"codex", "external_registry", "mcp", "omx", "path_commands",
                  "project_config">>, LAMBDA s : s = source)

ScanAll(project) ==
    ProjectConfigScan(project) \o PathCommandsScan(project) \o McpScan(project)
    \o MarkerScan("workflow", "omx-workspace", "omx", project.omx)
    \o CodexScan(project)
    \o MarkerScan("registry_entry", "configured", "external_registry",
                  project.registry)

\* The stable sort by identifier and source keeps, of the candidates with one
\* identifier, the earliest of the lowest source.
Dedupe(candidates) ==
    {candidates[i] : i \in {n \in 1 .. Len(candidates) :
        \A m \in 1 .. Len(candidates) :
            candidates[m].id = candidates[n].id =>
                LET a == SourceRank(candidates[n].source)
                    b == SourceRank(candidates[m].source)
                IN  a < b \/ (a = b /\ n <= m)}}

\* What a disabled adapter provides is offered as rejected by every source, also
\* where a capability manifest or another source names the same candidate, and
\* its command is never run (scanner.rs, path_commands.rs, normalizer.rs dedupe).
DisabledIsRejected(project) ==
    \A i \in 1 .. Len(project.adapters) :
        LET a == project.adapters[i]
            own == AdapterCandidates(a)
        IN  ~a.enabled =>
                /\ ~Probed(a)
                /\ \A c \in Dedupe(ScanAll(project)) :
                      /\ c.id \in {own[j].id : j \in 2 .. Len(own)} => c.rejected
                      /\ c.source # "project_config" /\ c.id[2] = a.id => c.rejected

(***************************************************************************)
(* A cache file: a sequence of <<key, value>> lines.  The digest of the    *)
(* candidates is the candidates themselves.                                *)
(***************************************************************************)
Keys == <<"format", "source", "fetched", "expires", "digest", "count">>

EncodePartition(p) ==
    <<<<"format", <<"v1">>>>, <<"source", <<p.source>>>>,
      <<"fetched", <<p.fetched>>>>, <<"expires", <<p.expires>>>>,
      <<"digest", p.candidates>>, <<"count", <<Len(p.candidates)>>>>>>
    \o [i \in 1 .. Len(p.candidates) |-> <<"candidate", p.candidates[i]>>]

Refused == [ok |-> FALSE]

\* A candidate that claims a granted handle is not one a scan wrote.
DecodePartition(lines) ==
    LET of(key) == SelectSeq(lines, LAMBDA l : l[1] = key)
        value(key) == of(key)[1][2]
        candidates == [i \in 1 .. Len(of("candidate")) |-> of("candidate")[i][2]]
    IN  IF \/ \E i \in 1 .. Len(lines) :
                  lines[i][1] \notin ToSet(Keys) \union {"candidate"}
           \/ \E key \in ToSet(Keys) : Len(of(key)) # 1
           \/ \E i \in 1 .. Len(candidates) : candidates[i].granted
        THEN Refused
        ELSE IF \/ value("format") # <<"v1">>
                \/ value("count") # <<Len(candidates)>>
                \/ \E i \in 1 .. Len(candidates) :
                       candidates[i].source # value("source")[1]
                \/ value("digest") # candidates
        THEN Refused
        ELSE [ok |-> TRUE, source |-> value("source")[1],
              fetched |-> value("fetched")[1], expires |-> value("expires")[1],
              candidates |-> candidates]

\* A partition that a scan wrote is read back as it was, and a file with a line
\* lost, repeated or with another candidate in its place is not read at all
\* (cache.rs encode_partition, decode_partition).
PartitionIsExact(p, other) ==
    LET lines == EncodePartition(p)
    IN  /\ DecodePartition(lines) =
              [ok |-> TRUE, source |-> p.source, fetched |-> p.fetched,
               expires |-> p.expires, candidates |-> p.candidates]
        /\ \A i \in 1 .. Len(lines) :
              /\ ~DecodePartition(RemoveAt(lines, i)).ok
              /\ ~DecodePartition(InsertAt(lines, i, lines[i])).ok
        /\ \A i \in (Len(Keys) + 1) .. Len(lines) :
              lines[i][2] # other =>
                  ~DecodePartition([lines EXCEPT ![i][2] = other]).ok
=============================================================================
