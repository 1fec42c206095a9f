---------------------------- MODULE CommandLine ----------------------------
(***************************************************************************)
(* The command line of eva-cli (src/run.rs and src/run/<command>_cmd.rs):  *)
(* which arguments are read as which command, and the exit code.           *)
(*                                                                         *)
(* Every parser of the crate has one shape: a loop over the arguments that *)
(* takes the options it knows, sets the others aside, checks the values,   *)
(* and hands what was set aside to parse_common_options.  The loop is      *)
(* written once, and each parser is the table of its options.  An argument *)
(* is a string that stands for the class the parsers tell it apart by;     *)
(* the wording of errors is left out, since every parse error exits alike. *)
(***************************************************************************)
EXTENDS Naturals, Sequences, SequencesExt, FiniteSets, TLC

-----------------------------------------------------------------------------
(* Values.                                                                   *)

Numerals == {"0", "1", "2", "7"}

\* Whether a parser takes the argument as a value of the class.  An id is
\* refused when it is empty or holds a blank, a path and a text never.
Fits(class, arg) ==
    CASE class \in {"text", "path"} -> TRUE
      [] class = "id" -> arg \notin {"", "two words"}
      [] class = "nonblank" -> arg # ""
      [] class \in {"number", "atLeastOne"} -> arg \in Numerals
      [] class = "positive" -> arg \in Numerals \ {"0"}
      [] class = "budget" -> arg \in Numerals \ {"0", "1"}
      [] class = "file" -> arg # ""
      [] class = "hex" -> arg \in {"", "beef"}
      [] class = "output" -> arg \in {"text", "human", "json"}
      [] class = "role" -> arg \in {"pre_release", "pre", "post_release", "post"}
      [] class = "scope" -> arg \in {"alpha", "production"}
      [] class = "sink" -> arg \in {"jsonl", "dev-console"}
      [] class = "drop" -> arg \in {"drop-new", "drop_new", "drop-oldest", "drop_oldest"}
      [] class = "health" -> arg \in {"healthy", "pass", "passed", "failed", "fail", "unhealthy"}
      [] class = "upgradeHealth" ->
           arg \in {"healthy", "pass", "passed", "failed", "fail", "unhealthy", "unavailable", "missing"}

\* The value an argument is read as: synonyms are one value.
ReadAs(class, arg) ==
    CASE class = "output" /\ arg = "human" -> "text"
      [] class = "atLeastOne" /\ arg = "0" -> "1"
      [] class = "role" /\ arg = "pre" -> "pre_release"
      [] class = "role" /\ arg = "post" -> "post_release"
      [] class = "drop" /\ arg = "drop_new" -> "drop-new"
      [] class = "drop" /\ arg = "drop_oldest" -> "drop-oldest"
      [] class \in {"health", "upgradeHealth"} /\ arg \in {"pass", "passed"} -> "healthy"
      [] class \in {"health", "upgradeHealth"} /\ arg \in {"fail", "unhealthy"} -> "failed"
      [] class = "upgradeHealth" /\ arg = "missing" -> "unavailable"
      [] OTHER -> arg

-----------------------------------------------------------------------------
(* Tables.                                                                   *)

\* An option that takes a value; one that sets a field by itself; one that is
\* refused once a field of bars is set; one that may be given once.
Opt(names, field, class) ==
    [names |-> names, field |-> field, class |-> class, bars |-> {}, sets |-> "arg"]
Flag(names, field, value) == [Opt(names, field, "flag") EXCEPT !.sets = value]
Barred(option, fields) == [option EXCEPT !.bars = fields]
Once(names, field, class) == Barred(Opt(names, field, class), {field})

NoCheck == [f \in {} |-> ""]

\* A parser: its options, the fields that must be given, the classes checked
\* after the loop, the field a bare word is read into ("" for none), whether
\* the loop keeps a common option together with its value, and the parser
\* that reads what the loop sets aside (none: that is refused).
LastTable(opts) ==
    [opts |-> opts, required |-> {}, late |-> NoCheck, word |-> "", pairs |-> FALSE, next |-> <<>>]

CommonTable ==
    LastTable({Opt({"--project", "--project-root", "-p"}, "project_root", "path"),
               Opt({"--output", "-o"}, "output", "output")})

Table(opts, required, late) ==
    [LastTable(opts) EXCEPT !.required = required, !.late = late, !.next = <<CommonTable>>]

Ids(fields) == [f \in fields |-> "id"]

RequestOpt == Opt({"--request-id", "--task-id", "--task"}, "request_id", "text")
AgentOpt == Opt({"--agent", "--agent-id"}, "agent_id", "text")
AdapterOpt == Opt({"--adapter", "--adapter-id"}, "adapter_id", "text")
BackendOpt == Opt({"--durable-backend", "--durable-backend-root"}, "durable_backend", "path")
StoreOpt == Opt({"--artifact-store", "--artifact-store-dir"}, "artifact_store", "path")
LockStoreOpt == Opt({"--lock-store", "--lock-store-dir"}, "lock_store", "path")
SnapshotOpt == Opt({"--snapshot", "--snapshot-id"}, "snapshot_id", "text")
ReleaseOpt == Opt({"--release", "--release-ref"}, "release_ref", "text")
DirOpts == {Opt({"--state-dir", "--state-store"}, "state_dir", "path"),
            Opt({"--lock-dir", "--lock-store"}, "lock_dir", "path"),
            Opt({"--pid-dir"}, "pid_dir", "path")}

TaskTable ==
    Table({Opt({"--task", "--task-id"}, "task_id", "text"), Opt({"--reason"}, "reason", "text"),
           BackendOpt}, {}, NoCheck)

BackupCreateTable ==
    Table({Opt({"--artifact", "--artifact-id"}, "artifact_id", "text"), RequestOpt,
           Opt({"--project-id"}, "project_id", "text"), Opt({"--reason"}, "reason", "text"), StoreOpt,
           Flag({"--dry-run"}, "dry_run", "yes"), Flag({"--encrypt"}, "encrypt", "yes")},
          {}, Ids({"request_id"}))

SnapshotCreateTable ==
    Table({SnapshotOpt, RequestOpt, ReleaseOpt, Opt({"--role"}, "role", "role"), StoreOpt},
          {}, Ids({"request_id"}))

SnapshotPromoteTable ==
    Table({SnapshotOpt, Opt({"--confirm"}, "confirm", "text"), RequestOpt, ReleaseOpt, StoreOpt},
          {}, Ids({"request_id"}))

MemoryContextTable ==
    Table({AgentOpt, Opt({"--query"}, "query", "text"), RequestOpt,
           Opt({"--private-limit"}, "private_limit", "number"),
           Opt({"--global-limit"}, "global_limit", "number"),
           Opt({"--knowledge-limit"}, "knowledge_limit", "number"), BackendOpt},
          {}, Ids({"agent_id", "request_id"}))

RunTable ==
    Table({Opt({"--example"}, "example", "text"), Opt({"--task-id", "--task"}, "task_id", "id"),
           BackendOpt, Opt({"--timeout-ms"}, "timeout_ms", "number"),
           Flag({"--no-timeout"}, "timeout_ms", "none"), Flag({"--cancel"}, "cancel", "yes"),
           Opt({"--retry-attempts"}, "retry_attempts", "atLeastOne"),
           Flag({"--replay-dead-letters"}, "replay_dead_letters", "yes")}, {}, NoCheck)

InspectTable ==
    Table({Flag({"all", "config", "runtime", "routes", "policy", "agents", "adapters", "capabilities"},
                "subject", "project"),
           Flag({"durable", "durable-backend"}, "subject", "durable"), BackendOpt,
           Opt({"--redrive-ready-at-ms"}, "redrive_ready_at_ms", "number")}, {}, NoCheck)

ObservabilitySmokeTable ==
    Table({Opt({"--backend", "--observability-backend"}, "backend", "path"),
           Opt({"--tracing-sink"}, "tracing_sink", "sink"), Opt({"--otel-endpoint"}, "otel_endpoint", "text"),
           Opt({"--otel-auth-header"}, "otel_auth_header", "text"),
           Opt({"--otel-batch-size"}, "otel_batch_size", "number"),
           Opt({"--otel-timeout-ms"}, "otel_timeout_ms", "number"),
           Opt({"--otel-drop-policy"}, "otel_drop_policy", "drop"),
           Opt({"--otel-max-metric-labels"}, "otel_max_metric_labels", "number")}, {}, NoCheck)

HardwareProbeTable == Table({AdapterOpt}, {}, Ids({"adapter_id"}))
HardwareBindTable ==
    Table({AdapterOpt, RequestOpt, Flag({"--apply"}, "apply", "yes")}, {}, Ids({"adapter_id", "request_id"}))

EmitPayloads == {"payload_text", "payload_empty", "payload_hex"}
EmitTargets == {"target_agent", "target_capability", "target_adapter"}
EmitTable ==
    [Table({Once({"--topic"}, "topic", "text"), Opt({"--event-id", "--event"}, "event_id", "text"),
            Opt({"--request-id", "--request"}, "request_id", "text"),
            Opt({"--generation", "--generation-id"}, "generation_id", "text"),
            Opt({"--correlation-id"}, "correlation_id", "text"),
            Opt({"--causation-id"}, "causation_id", "text"),
            Barred(Opt({"--payload", "--payload-text"}, "payload_text", "text"), EmitPayloads),
            Barred(Flag({"--payload-empty"}, "payload_empty", "yes"), EmitPayloads),
            Barred(Opt({"--payload-bytes-hex"}, "payload_hex", "hex"), EmitPayloads),
            Barred(Opt({"--target-agent", "--agent"}, "target_agent", "id"), EmitTargets),
            Barred(Opt({"--target-capability", "--capability"}, "target_capability", "id"), EmitTargets),
            Barred(Opt({"--target-adapter", "--adapter"}, "target_adapter", "id"), EmitTargets), BackendOpt},
           {"topic"},
           Ids({"topic", "event_id", "request_id", "generation_id", "correlation_id", "causation_id"}))
        EXCEPT !.word = "topic", !.pairs = TRUE]

AgentStatusTable == Table({AgentOpt}, {}, Ids({"agent_id"}))
AgentDrainTable ==
    Table({AgentOpt, Opt({"--generation", "--generation-id"}, "generation", "text"),
           Opt({"--inflight", "--inflight-tasks"}, "inflight_tasks", "number"),
           Opt({"--timeout-ms", "--timeout"}, "timeout_ms", "number"), BackendOpt,
           Opt({"--control-timeout-ms"}, "control_timeout_ms", "number")} \cup DirOpts,
          {"agent_id"}, Ids({"agent_id", "generation"}))
AgentReloadTable ==
    Table({AgentOpt, Opt({"--from-generation"}, "from_generation", "text"),
           Opt({"--to-generation"}, "to_generation", "text"), Opt({"--from-release"}, "from_release", "text"),
           Opt({"--to-release"}, "to_release", "text"),
           Opt({"--inflight", "--inflight-tasks"}, "inflight_tasks", "number"),
           Opt({"--timeout-ms", "--timeout"}, "timeout_ms", "number"), BackendOpt,
           Opt({"--control-timeout-ms"}, "control_timeout_ms", "number")} \cup DirOpts,
          {"agent_id"}, Ids({"agent_id", "from_generation", "to_generation"}))

CapabilityProbeTable ==
    [Table({Opt({"--capability"}, "capability", "text"),
            Opt({"--provider", "--adapter", "--adapter-id"}, "provider", "text")},
           {}, Ids({"capability", "provider"}))
        EXCEPT !.word = "capability", !.pairs = TRUE]
CapabilityCallTable ==
    [Table({Opt({"--capability"}, "capability", "text"),
            Opt({"--provider", "--adapter", "--adapter-id"}, "provider", "text"),
            Opt({"--input", "--payload"}, "input", "text"),
            Opt({"--request-id", "--request", "--task-id"}, "request_id", "text"),
            Opt({"--confirm"}, "confirm", "text"), Flag({"--dry-run"}, "dry_run", "yes")},
           {}, Ids({"capability", "provider", "request_id", "confirm"}))
        EXCEPT !.word = "capability", !.pairs = TRUE]

SkillRunTable ==
    Table({AdapterOpt, Opt({"--skill", "--skill-id"}, "skill_id", "text"),
           Opt({"--capability"}, "capability", "text"), Opt({"--input"}, "input", "text"), RequestOpt},
          {}, Ids({"request_id"}))

AdapterProbeTable ==
    Table({AdapterOpt, Opt({"--capability"}, "capability", "text"), Opt({"--provider"}, "provider", "text")},
          {}, NoCheck)

McpProbeTable == Table({AdapterOpt, Opt({"--tool"}, "tool", "text")}, {}, NoCheck)
McpMeasureTable ==   \* has no project
    LastTable({Opt({"--output", "-o"}, "output", "output"),
               Opt({"--subject-output"}, "subject_output", "file")})

ServiceTable == Table({Barred(Flag({"--dev"}, "dev", "yes"), {"dev"})}, {}, NoCheck)

DaemonPathOpts ==
    {BackendOpt, Opt({"--observability-backend", "--observability-dir"}, "observability_backend", "path"),
     Opt({"--request-id"}, "request_id", "text")} \cup DirOpts
DaemonTaskOpts ==
    {Opt({"--task", "--task-id"}, "task_id", "text"), Opt({"--kind", "--task-kind"}, "task_kind", "text"),
     AgentOpt, Opt({"--input", "--task-input"}, "task_input", "text"),
     Opt({"--artifact-ref", "--input-artifact"}, "task_artifact_ref", "text"),
     Opt({"--artifact-digest", "--input-digest"}, "task_artifact_digest", "text"),
     Opt({"--idempotency-key"}, "task_idempotency_key", "text"),
     Opt({"--max-attempts", "--retry-attempts"}, "task_max_attempts", "number"),
     Opt({"--retry-backoff-ms"}, "task_retry_backoff_ms", "number"),
     Opt({"--attempt-timeout-ms"}, "task_attempt_timeout_ms", "number")}
DaemonTable ==
    Table(DaemonPathOpts \cup DaemonTaskOpts \cup
          {Opt({"--reason"}, "reason", "text"), Opt({"--plan", "--plan-id"}, "plan_id", "text"),
           Opt({"--generation", "--generation-id"}, "generation_id", "text"),
           Opt({"--control-timeout-ms", "--timeout-ms"}, "control_timeout_ms", "number"),
           Opt({"--drain-timeout-ms"}, "drain_timeout_ms", "budget"),
           Opt({"--startup-timeout-ms"}, "startup_timeout_ms", "positive"),
           Flag({"--foreground"}, "foreground", "yes"), Flag({"--background"}, "foreground", "no"),
           Flag({"--dev", "--dev-mode"}, "dev_mode", "yes"),
           Flag({"--shutdown-after-smoke"}, "shutdown_after_smoke", "yes"),
           Flag({"--no-shutdown-after-smoke"}, "shutdown_after_smoke", "no")}, {}, NoCheck)

\* The hidden entry of the background child takes its handshake and leaves the
\* rest to the daemon's parser.
BackgroundChildTable ==
    [LastTable({Once({"--startup-nonce"}, "nonce", "nonblank"),
                Once({"--launcher-pid"}, "launcher_pid", "positive"),
                Once({"--child-start-token"}, "child_start_token", "nonblank")})
        EXCEPT !.required = {"nonce", "launcher_pid", "child_start_token"}, !.next = <<DaemonTable>>]

PackageMetadataTable ==
    Table({Flag({"generate"}, "generate", "yes"), Opt({"--manifest"}, "manifest", "path"),
           Opt({"--output-root"}, "output_root", "path"),
           Opt({"--installed-size-kib"}, "installed_size_kib", "number")},
          {"manifest", "output_root"}, NoCheck)

ReleaseCheckTable ==
    Table({Opt({"--target", "--platform"}, "target", "text"), Once({"--scope"}, "scope", "scope"),
           Once({"--evidence-manifest"}, "evidence_manifest", "path"),
           Once({"--expected-source-commit"}, "expected_source_commit", "text"),
           Once({"--expected-run-id"}, "expected_run_id", "text"),
           Once({"--expected-run-attempt"}, "expected_run_attempt", "text"),
           Once({"--expected-manifest-digest"}, "expected_manifest_digest", "text"),
           Opt({"--artifact-evidence", "--artifact-evidence-file"}, "artifact_evidence", "path"),
           Opt({"--distribution-evidence", "--distribution-evidence-file"}, "distribution_evidence", "path"),
           Opt({"--security-scan-evidence", "--scanner-evidence", "--security-scan-evidence-file"},
               "security_scan_evidence", "path"),
           Opt({"--benchmark-evidence", "--benchmark-evidence-file"}, "benchmark_evidence", "path")},
          {}, [target |-> "nonblank"])

ReleasePerfTable ==
    Table({Opt({"--benchmark-evidence", "--benchmark-evidence-file"}, "benchmark_evidence", "path")},
          {}, NoCheck)

ReleaseMigrationTable ==
    Table({Opt({"--from", "--from-version"}, "from_version", "text"),
           Opt({"--to", "--to-version"}, "to_version", "text")},
          {}, [from_version |-> "nonblank", to_version |-> "nonblank"])

RestorePlanTable == Table({SnapshotOpt, RequestOpt, ReleaseOpt, StoreOpt}, {}, Ids({"request_id"}))
RestoreApplyTable ==
    Table({Opt({"--plan"}, "plan", "path"), Opt({"--confirm"}, "confirm", "text"), StoreOpt, LockStoreOpt,
           Opt({"--owner"}, "owner", "text"), Opt({"--health", "--health-check"}, "health", "health"),
           Flag({"--dry-run"}, "dry_run", "yes")}, {}, NoCheck)
RestoreRollbackTable ==
    Table({Opt({"--plan"}, "plan", "path"), Opt({"--confirm"}, "confirm", "text"), StoreOpt, LockStoreOpt,
           Opt({"--transaction-log", "--txn"}, "transaction_log", "path"),
           Opt({"--owner"}, "owner", "text"), Opt({"--health", "--health-check"}, "health", "health")},
          {}, NoCheck)

UpgradeCheckTable ==
    Table({Opt({"--from-generation"}, "from_generation", "text"),
           Opt({"--to-generation"}, "to_generation", "text"),
           Opt({"--from-release"}, "from_release", "text"), Opt({"--to-release"}, "to_release", "text")},
          {}, Ids({"from_generation", "to_generation"}))
UpgradeApplyTable ==
    Table({Opt({"--plan"}, "plan", "path"), Opt({"--confirm"}, "confirm", "text"), LockStoreOpt,
           Opt({"--state-store", "--state-store-dir"}, "state_store", "path"),
           Opt({"--runtime-binary"}, "runtime_binary", "path"), Opt({"--owner"}, "owner", "text"),
           Opt({"--health", "--health-check"}, "health", "upgradeHealth")}, {}, NoCheck)

-----------------------------------------------------------------------------
(* The commands: each word after the first chooses a subcommand, and its     *)
(* synonyms choose the same one.                                             *)

TaskCommands == [s \in {"status", "logs", "cancel"} |-> TaskTable]
BackupCommands == [create |-> BackupCreateTable]
SnapshotCommands == [create |-> SnapshotCreateTable, promote |-> SnapshotPromoteTable]
MemoryCommands == [context |-> MemoryContextTable]
ConfigCommands == [validate |-> CommonTable]
ObservabilityCommands == [smoke |-> ObservabilitySmokeTable]
HardwareCommands == [list |-> CommonTable, probe |-> HardwareProbeTable, bind |-> HardwareBindTable]
AgentCommands == [status |-> AgentStatusTable, drain |-> AgentDrainTable, reload |-> AgentReloadTable]
CapabilityCommands == [list |-> CommonTable, probe |-> CapabilityProbeTable, call |-> CapabilityCallTable]
SkillCommands == [list |-> CommonTable, run |-> SkillRunTable]
DiscoveryCommands == [scan |-> CommonTable]
AdapterCommands == [list |-> CommonTable, probe |-> AdapterProbeTable]
McpCommands == [list |-> CommonTable, probe |-> McpProbeTable, compatibility |-> McpMeasureTable]
ServiceCommands ==
    [s \in {"install", "status", "start", "stop", "restart", "uninstall", "remove"} |-> ServiceTable]
DaemonOperations ==
    ("status" :> "status") @@ ("stop" :> "shutdown") @@ ("shutdown" :> "shutdown")
    @@ ("submit" :> "submit_task") @@ ("submit-task" :> "submit_task") @@ ("cancel" :> "cancel_task")
    @@ ("cancel-task" :> "cancel_task") @@ ("drain" :> "drain") @@ ("reload" :> "reload_plan")
    @@ ("reload-plan" :> "reload_plan")
DaemonCommands ==
    ("start" :> DaemonTable) @@ ("__background-child" :> BackgroundChildTable)
    @@ [s \in DOMAIN DaemonOperations |-> DaemonTable]
ReleaseCommands ==
    ("check" :> ReleaseCheckTable) @@ ("security" :> CommonTable) @@ ("perf" :> ReleasePerfTable)
    @@ ("performance" :> ReleasePerfTable) @@ ("migration" :> ReleaseMigrationTable)
    @@ ("package-metadata" :> PackageMetadataTable)
RestoreCommands == [plan |-> RestorePlanTable, apply |-> RestoreApplyTable, rollback |-> RestoreRollbackTable]
UpgradeCommands == [check |-> UpgradeCheckTable, apply |-> UpgradeApplyTable]

Subcommands ==
    [task |-> TaskCommands, backup |-> BackupCommands, snapshot |-> SnapshotCommands,
     memory |-> MemoryCommands, config |-> ConfigCommands, observability |-> ObservabilityCommands,
     hardware |-> HardwareCommands, agent |-> AgentCommands, capability |-> CapabilityCommands,
     skill |-> SkillCommands, discovery |-> DiscoveryCommands, adapter |-> AdapterCommands,
     mcp |-> McpCommands, service |-> ServiceCommands, daemon |-> DaemonCommands,
     release |-> ReleaseCommands, restore |-> RestoreCommands, upgrade |-> UpgradeCommands]

\* Commands whose options follow the command itself.
PlainCommands ==
    [version |-> CommonTable, doctor |-> CommonTable, inspect |-> InspectTable, run |-> RunTable,
     emit |-> EmitTable]

Tables == UNION {{Subcommands[c][s] : s \in DOMAIN Subcommands[c]} : c \in DOMAIN Subcommands}
          \cup {PlainCommands[c] : c \in DOMAIN PlainCommands}

\* Arguments that begin with a dash: every option's name but the words.
Words == {"all", "config", "runtime", "routes", "policy", "agents", "adapters", "capabilities",
          "durable", "durable-backend", "generate"}
OptionNames == UNION {UNION {o.names : o \in t.opts} : t \in Tables} \ Words
Dashed(arg) == arg = "--other" \/ arg \in OptionNames

-----------------------------------------------------------------------------
(* The loop.                                                                 *)

Refused == [ok |-> FALSE, fields |-> NoCheck, rest |-> <<>>]

\* Sets a field; one that may be given once refuses a second value.
SetOnce(acc, field, value) ==
    IF field \in DOMAIN acc.fields THEN Refused
    ELSE [acc EXCEPT !.fields = (field :> value) @@ @]

Keep(acc, args) == [acc EXCEPT !.rest = @ \o args]

\* An option takes the argument after it as its value, whatever that is.
TakeOption(o, acc, args) ==
    LET value == IF o.sets = "arg" THEN ReadAs(o.class, args[2]) ELSE o.sets IN
    IF o.sets = "arg" /\ (Len(args) = 1 \/ ~Fits(o.class, args[2])) THEN Refused
    ELSE IF o.bars \cap DOMAIN acc.fields # {} THEN Refused
    ELSE [acc EXCEPT !.fields = (o.field :> value) @@ @]

Width(o) == IF o.sets = "arg" THEN 3 ELSE 2

IsCommon(arg) == \E o \in CommonTable.opts : arg \in o.names

RECURSIVE Scan(_, _, _)
Scan(table, acc, args) ==
    IF args = <<>> \/ ~acc.ok THEN acc
    ELSE LET arg == Head(args) IN
         IF \E o \in table.opts : arg \in o.names THEN
             LET o == CHOOSE opt \in table.opts : arg \in opt.names
             IN  Scan(table, TakeOption(o, acc, args), SubSeq(args, Width(o), Len(args)))
         ELSE IF table.pairs /\ IsCommon(arg) THEN
             IF Len(args) = 1 THEN Refused
             ELSE Scan(table, Keep(acc, SubSeq(args, 1, 2)), SubSeq(args, 3, Len(args)))
         ELSE IF table.word # "" /\ ~Dashed(arg) THEN
             Scan(table, SetOnce(acc, table.word, arg), Tail(args))
         ELSE Scan(table, Keep(acc, <<arg>>), Tail(args))

Start == [ok |-> TRUE, fields |-> NoCheck, rest |-> <<>>]

\* Only what has both of the run's two options names a run.
RunIsWhole(fields) ==
    ("expected_run_id" \in DOMAIN fields) = ("expected_run_attempt" \in DOMAIN fields)

\* What the loop sets aside is read by the next parser, the common options'
\* last; an argument nobody knows is refused there.
Accepted(table, scanned, others) ==
    IF /\ scanned.ok /\ others.ok
       /\ table.required \subseteq DOMAIN scanned.fields
       /\ \A f \in DOMAIN table.late \cap DOMAIN scanned.fields :
             Fits(table.late[f], scanned.fields[f])
       /\ RunIsWhole(scanned.fields)
    THEN [ok |-> TRUE, fields |-> scanned.fields @@ others.fields, rest |-> <<>>]
    ELSE Refused

RECURSIVE Parse(_, _), ParseOthers(_, _)
ParseOthers(table, scanned) ==
    Accepted(table, scanned, IF table.next = <<>> THEN [Start EXCEPT !.ok = (scanned.rest = <<>>)]
                             ELSE Parse(table.next[1], scanned.rest))
Parse(table, args) == ParseOthers(table, Scan(table, Start, args))

-----------------------------------------------------------------------------
(* The command line and the exit code.                                       *)

\* The service entry takes its four options in one order and nothing else.
ServiceEntryArgs == <<"--project", "--service-name", "--service-kind", "--service-identity">>
ParseServiceEntry(args) ==
    IF Len(args) = 8 /\ \A i \in 1..4 : args[2 * i - 1] = ServiceEntryArgs[i]
    THEN [ok |-> TRUE, rest |-> <<>>,
          fields |-> [project_root |-> args[2], service_name |-> args[4],
                      service_kind |-> args[6], service_identity |-> args[8]]]
    ELSE Refused

Command(name, parsed) ==
    IF parsed.ok THEN [kind |-> name, fields |-> parsed.fields] ELSE [kind |-> <<"refused">>, fields |-> NoCheck]
Help == [kind |-> <<"help">>, fields |-> NoCheck]

\* parse_command: the help of any argument wins over everything else, then the
\* words choose the parser.  child says that the launcher's variable is set.
ParseCommand(args, child) ==
    LET word(i) == IF i <= Len(args) THEN args[i] ELSE ""
        after(i) == SubSeq(args, i, Len(args)) IN
    IF args = <<>> \/ (\E i \in DOMAIN args : args[i] \in {"--help", "-h"}) THEN Help
    ELSE IF args \in {<<"--version">>, <<"-V">>} THEN Command(<<"version">>, Start)
    ELSE IF word(1) = "help" THEN Help
    ELSE IF word(1) \in DOMAIN PlainCommands
    THEN Command(<<word(1)>>, Parse(PlainCommands[word(1)], after(2)))
    ELSE IF word(1) = "daemon" /\ word(2) = "__service-entry"
    THEN Command(<<"daemon", "__service-entry">>, ParseServiceEntry(after(3)))
    ELSE IF word(1) = "daemon" /\ word(2) = "__background-child" /\ ~child THEN Command(<<>>, Refused)
    ELSE IF word(1) = "mcp" /\ word(2) = "compatibility"
    THEN Command(<<"mcp", "compatibility">>,
                 IF word(3) = "measure" THEN Parse(McpMeasureTable, after(4)) ELSE Refused)
    ELSE IF word(1) \in DOMAIN Subcommands /\ word(2) \in DOMAIN Subcommands[word(1)]
    THEN Command(<<word(1), word(2)>>, Parse(Subcommands[word(1)][word(2)], after(3)))
    ELSE Command(<<>>, Refused)

ExitUsage == 64

\* The exit code of an error a command ends with, by its kind.
ExitCodeForError(kind) ==
    CASE kind = "permission_denied" -> 3
      [] kind \in {"timeout", "unavailable"} -> 5
      [] kind = "unsupported" -> 4
      [] kind \in {"invalid_argument", "not_found", "conflict"} -> 2
      [] kind = "internal" -> 1

\* run_with_args: result is "ok" or the kind of error execution ends with.
ExitCode(command, result) ==
    CASE command = Help -> 0
      [] command.kind = <<"refused">> -> ExitUsage
      [] OTHER -> IF result = "ok" THEN 0 ELSE ExitCodeForError(result)
RunWithArgs(args, child, result) == ExitCode(ParseCommand(args, child), result)

-----------------------------------------------------------------------------
(* Properties.                                                               *)

\* An option with no value after it is refused by every parser, whatever
\* complete options come before it: no command runs with the default the
\* caller meant to replace.
MissingValueIsRefused(table, args) ==
    \A o \in table.opts \cup CommonTable.opts :
        o.sets = "arg" => \A n \in o.names : ~Parse(table, args \o <<n>>).ok

\* Where the loop keeps a common option with its value, the value a command
\* runs with is the argument that followed the option on the command line.
ValueFollowsOption(table, args) ==
    \A parsed \in {Parse(table, args)} :
    parsed.ok => \A o \in table.opts \cup CommonTable.opts :
        o.sets = "arg" /\ o.field \in DOMAIN parsed.fields /\ o.field # table.word =>
            \E i \in 1..(Len(args) - 1) :
                /\ \E p \in table.opts \cup CommonTable.opts : p.field = o.field /\ args[i] \in p.names
                /\ ReadAs(o.class, args[i + 1]) = parsed.fields[o.field]

\* The names of an option are one option, whatever is given beside it.
SynonymsAgree(table, value, args) ==
    \A o \in table.opts : \A a, b \in o.names :
        LET with(n) == (IF o.sets = "arg" THEN <<n, value>> ELSE <<n>>) \o args
        IN  Parse(table, with(a)) = Parse(table, with(b))

\* Two options with their values commute, unless they set one field or the
\* first bars the second.
OrderIsIrrelevant(table, p, q) ==
    LET opts == table.opts \cup CommonTable.opts
        of(args) == CHOOSE o \in opts : args[1] \in o.names
    IN  (of(p).field # of(q).field) => Parse(table, p \o q) = Parse(table, q \o p)

\* The exit code tells what happened.  Help anywhere on the line runs nothing and
\* ends with 0; otherwise 0 means a command that parsed and ended well, and the
\* usage code one that never started.  Only the launcher's child, which its
\* variable marks, is a background child, and a command
\* that would run is refused with one argument more that nobody knows.
ExitTellsTheOutcome(args, child, result) ==
    /\ \A i \in 0..Len(args) : RunWithArgs(SubSeq(args, 1, i) \o <<"--help">> \o SubSeq(args, i + 1, Len(args)), child, result) = 0
    /\ \A command \in {ParseCommand(args, child)}, more \in {ParseCommand(Append(args, "--other"), child)} :
          /\ ExitCode(command, result) = 0 <=> command = Help \/ (command.kind # <<"refused">> /\ result = "ok")
          /\ ExitCode(command, result) = ExitUsage <=> command.kind = <<"refused">>
          /\ command.kind = <<"daemon", "__background-child">> => child
          /\ command.kind # <<"refused">> /\ command # Help => more.kind = <<"refused">>

\* The service entry runs with the four values it was installed with, and with
\* no option left out, moved or added.
ServiceEntryIsExact(values, args) ==
    \A built \in {FlattenSeq([i \in 1..4 |-> <<ServiceEntryArgs[i], values[i]>>])} :
        /\ \A parsed \in {ParseServiceEntry(built)} : parsed.ok /\ parsed.fields.service_identity = values[4]
        /\ \A list \in {built, args} :
              \A entry \in {ParseCommand(<<"daemon", "__service-entry">> \o list, FALSE).kind} :
                 /\ list = built /\ "--help" \notin ToSet(values) => entry = <<"daemon", "__service-entry">>
                 /\ entry = <<"daemon", "__service-entry">> =>
                      list = FlattenSeq([i \in 1..4 |-> <<ServiceEntryArgs[i], list[2 * i]>>])
=============================================================================
