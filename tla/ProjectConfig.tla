--------------------------- MODULE ProjectConfig ---------------------------
(***************************************************************************)
(* The configuration of a project (eva-config): the layers of eva.yaml and *)
(* their merge, the canonical form its generation digests, the schema      *)
(* validator, the documents and the references between them; and           *)
(* eva-policy: the domains parsed from the project's policy documents, the *)
(* gate that decides high-risk actions, the layers an effective policy is  *)
(* the intersection of, and the inventory of mutations with their gates.   *)
(*                                                                         *)
(* Values are those of AdapterManifest (texts are sequences of tokens).    *)
(* The file system is a function from the paths of existing files to their *)
(* values; an optional value is a sequence of at most one; a refusal and a *)
(* decision carry no reason.                                               *)
(***************************************************************************)
EXTENDS AdapterManifest

-----------------------------------------------------------------------------
(* Identifiers, capability names, topics and patterns (eva-core).  A segment *)
(* is one token; "a*" stands for one with a wildcard inside, "#" for one     *)
(* with a character no name has.                                             *)

MaxIdLen == 4
IdValid(text) == /\ Trimmed(text) /\ Len(text) <= MaxIdLen
                 /\ Tokens(text) \cap {"/", "\\", " ", "#", "*", "**", "a*"} = {}
CapabilityNameValid(text) ==
    /\ text # <<>> /\ Len(text) % 2 = 1
    /\ \A i \in DOMAIN text : IF i % 2 = 0 THEN text[i] = "." ELSE text[i] \notin {".", "/", " ", "#", ":", "*", "a*"}
ParseSegments(text, refused) ==
    /\ text # <<>> /\ Len(text) % 2 = 0
    /\ \A i \in DOMAIN text : IF i % 2 = 1 THEN text[i] = "/" ELSE text[i] \notin refused \cup {"/"}
Segments(text) == [i \in 1..(Len(text) \div 2) |-> text[2 * i]]
TopicValid(text) == ParseSegments(text, {"*", "**", "a*", " "})
TopicPatternValid(text) ==
    /\ ParseSegments(text, {"a*", " "})
    /\ \A i \in DOMAIN text : text[i] = "**" => i = Len(text)
IsExact(pattern) == Tokens(pattern) \cap {"*", "**"} = {}
\* The walk over the pattern's segments, each against the topic's next one.
TopicMatches(pattern, topic) ==
    LET p == Segments(pattern)
        t == Segments(topic)
        walk[i \in 1..(Len(p) + 1)] ==
            IF i > Len(p) THEN Len(t) = Len(p)
            ELSE IF p[i] = "**" THEN TRUE
            ELSE /\ i <= Len(t)
                 /\ p[i] = "*" \/ p[i] = t[i]
                 /\ walk[i + 1]
    IN  walk[1]

-----------------------------------------------------------------------------
(* Values.                                                                   *)

Bool(b) == [t |-> "bool", v |-> b]
Null == [t |-> "null", v |-> 0]
\* A number with a fraction: a number for serde, no integer for a schema.
Frac(n) == [t |-> "frac", v |-> n]
ValueKind(v) == IF v.t = "frac" THEN "num" ELSE v.t

-----------------------------------------------------------------------------
(* Layers (layering.rs).                                                     *)

LayerRank == [base |-> 1, profile |-> 2, user |-> 3, environment |-> 4]

RECURSIVE MergeOk(_, _), MergeValue(_, _), RecordLeafSources(_, _), Touched(_, _, _)
\* Mappings merge, a value replaces one of its own type, a type never changes.
MergeOk(target, incoming) ==
    IF IsMap(target) /\ IsMap(incoming)
    THEN \A k \in DOMAIN target.v \cap DOMAIN incoming.v : MergeOk(target.v[k], incoming.v[k])
    ELSE ValueKind(target) = ValueKind(incoming)
MergeValue(target, incoming) ==
    IF IsMap(target) /\ IsMap(incoming)
    THEN Mapping([k \in DOMAIN target.v \cup DOMAIN incoming.v |->
                    IF k \notin DOMAIN incoming.v THEN target.v[k]
                    ELSE IF k \notin DOMAIN target.v THEN incoming.v[k]
                    ELSE MergeValue(target.v[k], incoming.v[k])])
    ELSE incoming
RecordLeafSources(value, field) ==
    IF IsMap(value) THEN UNION {RecordLeafSources(value.v[k], Append(field, k)) : k \in DOMAIN value.v}
    ELSE {field}
\* The fields whose source a merge records.
Touched(target, incoming, field) ==
    IF IsMap(target) /\ IsMap(incoming)
    THEN UNION {IF k \in DOMAIN target.v THEN Touched(target.v[k], incoming.v[k], Append(field, k))
                ELSE RecordLeafSources(incoming.v[k], Append(field, k)) : k \in DOMAIN incoming.v}
    ELSE {field}

EmptyMap == [k \in {} |-> Null]
SortLayers(layers) ==
    SortSeq(layers, LAMBDA l, r : \/ LayerRank[l.kind] < LayerRank[r.kind]
                                  \/ l.kind = r.kind /\ l.path < r.path)
MergeStep(m, layer) ==
    [ok |-> m.ok /\ IsMap(layer.value) /\ MergeOk(m.value, layer.value),
     value |-> MergeValue(m.value, layer.value),
     sources |-> LET set == Touched(m.value, layer.value, <<>>)
                 IN  [f \in set |-> layer.kind] @@ m.sources]
RECURSIVE MergeAll(_, _)
MergeAll(m, layers) ==
    IF layers = <<>> \/ ~m.ok THEN m
    ELSE IF ~IsMap(layers[1].value) THEN [m EXCEPT !.ok = FALSE]
    ELSE MergeAll(MergeStep(m, layers[1]), Tail(layers))
MergeConfigLayers(layers) ==
    MergeAll([ok |-> Cardinality({i \in DOMAIN layers : layers[i].kind = "base"}) = 1,
              value |-> Mapping(EmptyMap), sources |-> [f \in {} |-> ""]], SortLayers(layers))

-----------------------------------------------------------------------------
(* The canonical form: tagged, length-prefixed, keys in order, and the       *)
(* secrets left out.                                                         *)

SecretWords == {"token", "password", "secret", "authorization", "credential"}
\* The word inside a longer key; a key that merely counts tokens has one too.
WordsOf(key) == {Lower(key)} \cup (CASE key \in {"max_tokens", "access_token"} -> {"token"}
                                     [] key = "credential_ref" -> {"credential"} [] OTHER -> {})
IsSensitiveField(key) == WordsOf(key) \cap SecretWords # {}
EncodeBytes(tag, text) == <<tag, ToString(Len(text))>> \o text
\* The byte order of keys: some fixed enumeration of the set.
RECURSIVE SortedKeys(_)
SortedKeys(keys) == IF keys = {} THEN <<>>
                    ELSE LET first == CHOOSE k \in keys : TRUE IN <<first>> \o SortedKeys(keys \ {first})

RECURSIVE EncodeValue(_, _), EncodeSeq(_), EncodeEntries(_, _)
EncodeValue(value, field) ==
    IF IsSensitiveField(field) THEN EncodeBytes("R", <<"<redacted>">>)
    ELSE CASE value.t = "null" -> <<"N">>
           [] value.t = "bool" -> <<IF value.v THEN "B1" ELSE "B0">>
           [] value.t \in {"num", "frac"} -> EncodeBytes("#", <<value.t, ToString(value.v)>>)
           [] value.t = "str" -> EncodeBytes("S", value.v)
           [] value.t = "seq" -> <<"[", ToString(Len(value.v))>> \o EncodeSeq(value.v)
           [] value.t = "map" -> <<"{", ToString(Cardinality(DOMAIN value.v))>>
                                   \o EncodeEntries(value.v, SortedKeys(DOMAIN value.v))
EncodeSeq(values) == IF values = <<>> THEN <<>> ELSE EncodeValue(values[1], "") \o EncodeSeq(Tail(values))
EncodeEntries(map, keys) ==
    IF keys = <<>> THEN <<>>
    ELSE EncodeBytes("K", <<keys[1]>>) \o EncodeValue(map[keys[1]], keys[1]) \o EncodeEntries(map, Tail(keys))
CanonicalConfigBytes(value) == EncodeValue(value, "")

-----------------------------------------------------------------------------
(* The schema validator (schema.rs), on the subset of JSON Schema it reads.  *)

ValueMatchesType(value, expected) ==
    CASE expected = <<"object">> -> IsMap(value)
      [] expected = <<"array">> -> value.t = "seq"
      [] expected = <<"string">> -> IsStr(value)
      [] expected = <<"boolean">> -> value.t = "bool"
      [] expected = <<"number">> -> value.t \in {"num", "frac"}
      [] expected = <<"integer">> -> value.t = "num"
      [] expected = <<"null">> -> value.t = "null"
      [] OTHER -> TRUE
ValidateType(data, schema) ==
    Has(schema, "type") =>
        CASE IsStr(schema["type"]) -> ValueMatchesType(data, schema["type"].v)
          [] schema["type"].t = "seq" -> \E i \in DOMAIN schema["type"].v :
                 IsStr(schema["type"].v[i]) /\ ValueMatchesType(data, schema["type"].v[i].v)
          [] OTHER -> TRUE
SameScalar(a, b) == a.t = b.t /\ a.v = b.v
ValidateEnum(data, schema) ==
    Has(schema, "enum") /\ schema["enum"].t = "seq" =>
        \E i \in DOMAIN schema["enum"].v : SameScalar(schema["enum"].v[i], data)
\* The two patterns the validator knows; any other is an error.
MatchesSupportedPattern(pattern, text) ==
    CASE pattern = <<"^/.+">> -> Len(text) > 1 /\ text[1] = "/"
      [] pattern = <<"^id$">> -> text # <<>> /\ text[1] \notin {"_", ".", "-"} /\ Tokens(text) \cap {" ", "/", "#"} = {}
      [] OTHER -> FALSE
ValidatePattern(data, schema) ==
    (TextAt(schema, "pattern") # <<>> /\ IsStr(data)) => MatchesSupportedPattern(TextAt(schema, "pattern")[1], data.v)
ValidateMinProperties(data, schema) ==
    (Has(schema, "minProperties") /\ schema["minProperties"].t = "num" /\ IsMap(data)) =>
        Cardinality(DOMAIN data.v) >= schema["minProperties"].v
\* The names of required properties, each a text of one token.
RequiredNames(schema) == {text[1] : text \in StringList(schema, "required")}
ValidateRequired(map, schema) == RequiredNames(schema) \subseteq DOMAIN map
\* Only `false` closes an object, and only one that declares its properties.
ValidateAdditionalProperties(map, schema) ==
    (/\ Has(schema, "additionalProperties") /\ schema["additionalProperties"].t = "bool"
     /\ ~schema["additionalProperties"].v
     /\ Has(schema, "properties") /\ IsMap(schema["properties"])) =>
        DOMAIN map \subseteq DOMAIN schema["properties"].v
RECURSIVE ValidateSchemaNode(_, _)
ValidateProperties(map, schema) ==
    LET properties == Sub(schema, "properties")
    IN  \A k \in DOMAIN properties \cap DOMAIN map : ValidateSchemaNode(map[k], properties[k])
ValidateSchemaNode(data, node) ==
    /\ IsMap(node)
    /\ LET schema == node.v IN
       /\ ValidateType(data, schema) /\ ValidateEnum(data, schema)
       /\ ValidatePattern(data, schema) /\ ValidateMinProperties(data, schema)
       /\ IsMap(data) => /\ ValidateRequired(data.v, schema)
                         /\ ValidateProperties(data.v, schema)
                         /\ ValidateAdditionalProperties(data.v, schema)
       /\ Has(schema, "items") /\ data.t = "seq" =>
             \A i \in DOMAIN data.v : ValidateSchemaNode(data.v[i], schema["items"])

-----------------------------------------------------------------------------
(* eva.yaml (eva_yaml.rs).  serde refuses a field of another type.           *)

RequireNonEmpty(map, key) == TextAt(map, key) # <<>> /\ Trimmed(TextAt(map, key)[1])
OptionalNonEmpty(map, key) == Has(map, key) => RequireNonEmpty(map, key)
RequireNonEmptyPath(map, key) == TextAt(map, key) # <<>> /\ TextAt(map, key)[1] # <<>>
OptionalPositive(map, key) == Has(map, key) => map[key].t = "num" /\ map[key].v > 0
OptionalBool(map, key) == Has(map, key) => map[key].t = "bool"
OptionalOneOf(map, key, texts) == Has(map, key) => IsStr(map[key]) /\ map[key].v \in texts
Flag(map, key) == Has(map, key) /\ map[key].t = "bool" /\ map[key].v
OptionalSection(map, key, Valid(_)) == Has(map, key) => IsMap(map[key]) /\ Valid(map[key].v)

RetrievalFields == {"agent", "capability", "provider", "query"}
\* A worker that is off carries no settings; one that is on carries them all.
RetrievalWorkerValid(raw) ==
    /\ OptionalBool(raw, "enabled")
    /\ IF ~Flag(raw, "enabled") THEN ~\E k \in RetrievalFields \cup {"interval_ms"} : Has(raw, k)
       ELSE /\ \A k \in RetrievalFields : RequireNonEmpty(raw, k)
            /\ Has(raw, "interval_ms") /\ OptionalPositive(raw, "interval_ms")
RuntimeConfigValid(raw) ==
    /\ RequireNonEmpty(raw, "env") /\ RequireNonEmptyPath(raw, "workspace")
    /\ OptionalSection(raw, "retrieval_worker", RetrievalWorkerValid)
OtelExporterValid(raw) ==
    /\ \A k \in {"endpoint", "auth_header_env"} : OptionalNonEmpty(raw, k)
    /\ \A k \in {"batch_size", "timeout_ms", "max_metric_labels"} : OptionalPositive(raw, k)
    /\ OptionalOneOf(raw, "drop_policy", {<<"drop-new">>, <<"drop_new">>, <<"drop-oldest">>, <<"drop_oldest">>})
RetentionValid(raw) ==
    /\ OptionalOneOf(raw, "sink", {<<"jsonl">>, <<"jsonl-file">>, <<"jsonl_file">>, <<"durable-audit">>,
                                   <<"durable_audit">>, <<"database">>, <<"db">>})
    /\ \A k \in {"max_file_bytes", "max_rotated_files", "retain_for_ms"} : OptionalPositive(raw, k)
    /\ OptionalOneOf(raw, "corrupt_record_policy", {<<"skip-and-report">>, <<"skip_and_report">>,
                                                    <<"fail-fast">>, <<"fail_fast">>})
ObservabilityValid(raw) ==
    /\ \A k \in {"log_level", "otel_endpoint_env"} : OptionalNonEmpty(raw, k)
    /\ \A k \in {"tracing", "metrics", "audit"} : OptionalBool(raw, k)
    /\ OptionalSection(raw, "otel_exporter", OtelExporterValid)
    /\ OptionalSection(raw, "retention", RetentionValid)
ServiceManagerKinds == {<<"fake">>, <<"windows_service">>, <<"windows-service">>, <<"windows">>,
                        <<"systemd">>, <<"launchd">>}
ServiceManagerValid(raw) ==
    /\ OptionalBool(raw, "enabled")
    /\ OptionalOneOf(raw, "kind", ServiceManagerKinds)
    /\ \A k \in {"service_name", "unit_name"} : OptionalNonEmpty(raw, k)
    /\ Flag(raw, "enabled") => Has(raw, "kind") /\ Has(raw, "service_name")
RootFields == {"agent_dir", "adapter_dir", "capability_dir", "policy_dir", "route_file", "schema_dir"}
ConfigRootsValid(raw) == \A k \in RootFields : RequireNonEmptyPath(raw, k)
EvaConfigValid(value) ==
    /\ IsMap(value) /\ {"runtime", "observability", "config"} \subseteq DOMAIN value.v
    /\ OptionalSection(value.v, "runtime", RuntimeConfigValid)
    /\ OptionalSection(value.v, "observability", ObservabilityValid)
    /\ OptionalSection(value.v, "service_manager", ServiceManagerValid)
    /\ OptionalSection(value.v, "config", ConfigRootsValid)
EnvironmentOf(value) == value.v["runtime"].v["env"].v
\* Paths of the file system are tuples from the root "/".
ResolvePath(root, path) == IF path[1] = "/" THEN path ELSE root \o path
ResolveAgainst(value, root) == [k \in RootFields |-> ResolvePath(root, value.v["config"].v[k].v)]

-----------------------------------------------------------------------------
(* The other documents, after serde: an Agent [id, parent, children, script, *)
(* subscriptions, emit, capabilities, providers], a capability manifest      *)
(* [id, name, version, kind, capability, providers, required], routes        *)
(* [pattern, delivery, agents]; optional fields are sequences.               *)

Elements(seq) == {seq[i] : i \in DOMAIN seq}
AgentValid(a) ==
    /\ \A id \in {a.id} \cup Elements(a.parent) \cup Elements(a.children) : IdValid(id)
    /\ a.script # <<>>
    /\ \A p \in Elements(a.subscriptions) \cup Elements(a.emit) : TopicPatternValid(p)
    /\ \A c \in Elements(a.capabilities) : CapabilityNameValid(c)
CapabilityKinds == {"adapter_capability", "lua_capability", "mcp_tool", "skill"}
CapabilityValid(c) ==
    /\ IdValid(c.id) /\ Trimmed(c.name) /\ Trimmed(c.version)
    /\ c.kind \in CapabilityKinds
    /\ \A n \in {c.capability} \cup Elements(c.required) : CapabilityNameValid(n)
    /\ \A id \in Elements(c.providers) : IdValid(id)
RouteValid(r) ==
    /\ TopicPatternValid(r.pattern) /\ r.delivery \in {"fanout", "compete"}
    /\ r.agents # <<>> /\ \A id \in Elements(r.agents) : IdValid(id)
RoutesValid(routes) == routes # <<>> /\ \A i \in DOMAIN routes : RouteValid(routes[i])
PolicyDocumentValid(value) ==
    IsMap(value) /\ DOMAIN value.v # {} /\ \A k \in DOMAIN value.v : k \notin {"", " "}

-----------------------------------------------------------------------------
(* The project: [env, roots, agents, adapters, capabilities, policies,       *)
(* routes, dirs, files], manifests in the order of their sorted paths, and   *)
(* the references between them (lib.rs).                                     *)

Ids(manifests) == {manifests[i].id : i \in DOMAIN manifests}
UniqueIds(manifests) == Distinct([i \in DOMAIN manifests |-> manifests[i].id])
ValidateAgentReferences(p) ==
    \A a \in Elements(p.agents) : Elements(a.parent) \cup Elements(a.children) \subseteq Ids(p.agents)
KnownCapabilities(p) ==
    UNION {a.capabilities : a \in Elements(p.adapters)} \cup {c.capability : c \in Elements(p.capabilities)}
ValidateAgentPermissionReferences(p) ==
    \A a \in Elements(p.agents) : /\ Elements(a.providers) \subseteq Ids(p.adapters)
                                  /\ Elements(a.capabilities) \subseteq KnownCapabilities(p)
ValidateAgentScripts(p) == \A a \in Elements(p.agents) : ResolvePath(a.dir, a.script) \in p.files
ValidateCapabilityProviders(p) == \A c \in Elements(p.capabilities) : Elements(c.providers) \subseteq Ids(p.adapters)
ValidateRouteAgents(p) == \A r \in Elements(p.routes) : Elements(r.agents) \subseteq Ids(p.agents)
\* Five directories and the route file have to be there.
ValidateRoots(p) == \A k \in RootFields : p.roots[k] \in IF k = "route_file" THEN p.files ELSE p.dirs
ValidateProjectConfig(p) ==
    /\ ValidateRoots(p)
    /\ UniqueIds(p.agents) /\ UniqueIds(p.adapters) /\ UniqueIds(p.capabilities)
    /\ ValidateAgentReferences(p) /\ ValidateAgentPermissionReferences(p) /\ ValidateAgentScripts(p)
    /\ \A m \in Elements(p.adapters) : /\ HardwareConfigValid(m)
                                       /\ ValidateForEnvironment(m, IsProduction(p.env))
    /\ ValidateCapabilityProviders(p) /\ ValidateRouteAgents(p)

\* eva.yaml's layers on disk: disk holds "base", "user" and, for each
\* environment, "profile" and "environment" files, and the "sources" of each
\* kind as they are read, in the order of their paths.
LayersFor(disk, env) ==
    <<[kind |-> "base", path |-> 0, value |-> disk.base]>>
    \o (IF Has(disk.profile, env) THEN <<[kind |-> "profile", path |-> 0, value |-> disk.profile[env]]>> ELSE <<>>)
    \o [i \in DOMAIN disk.user |-> [kind |-> "user", path |-> i, value |-> disk.user[i]]]
    \o (IF Has(disk.environment, env)
        THEN <<[kind |-> "environment", path |-> 0, value |-> disk.environment[env]]>> ELSE <<>>)
LoadLayers(disk) == LayersFor(disk, EnvironmentOf(disk.base))
SchemaDir(value) == value.v["config"].v["schema_dir"].v
\* load_project_config: the base names the environment whose layers are read,
\* the merged value is checked against the base's schema and decoded again.
\* schemas gives the schema files of each schema directory there is.
EvaLoads(disk, schemas) ==
    /\ EvaConfigValid(disk.base)
    /\ LET merged == MergeConfigLayers(LoadLayers(disk)) IN
       /\ merged.ok /\ Has(schemas, SchemaDir(disk.base))
       /\ ValidateSchemaNode(merged.value, schemas[SchemaDir(disk.base)].eva) /\ EvaConfigValid(merged.value)
LoadedEva(disk) == MergeConfigLayers(LoadLayers(disk)).value
DocumentsLoad(p) ==
    /\ \A a \in Elements(p.agents) : AgentValid(a)
    /\ \A m \in Elements(p.adapters) : TryFromRaw(m)
    /\ \A c \in Elements(p.capabilities) : CapabilityValid(c)
    /\ \A d \in Elements(p.policies) : PolicyDocumentValid(d)
    /\ RoutesValid(p.routes)
SourceKinds == {"agents", "adapters", "capabilities", "policies"}
\* validate_config_files_with_schemas: every file against the schemas of the
\* merged configuration, the base file once more among them.
ValidateConfigFiles(disk, schemas) ==
    LET dir == SchemaDir(LoadedEva(disk)) IN
    /\ Has(schemas, dir) /\ ValidateSchemaNode(disk.base, schemas[dir].eva)
    /\ \A k \in SourceKinds : \A i \in DOMAIN disk.sources[k] : ValidateSchemaNode(disk.sources[k][i], schemas[dir][k])
    /\ ValidateSchemaNode(disk.sources.routes, schemas[dir].routes)
\* p holds the decoded documents; environment and roots are those of eva.yaml.
LoadProjectConfig(disk, schemas, p, root) ==
    /\ EvaLoads(disk, schemas) /\ ValidateConfigFiles(disk, schemas) /\ DocumentsLoad(p)
    /\ LET eva == LoadedEva(disk) IN
       ValidateProjectConfig([p EXCEPT !.env = EnvironmentOf(eva), !.roots = ResolveAgainst(eva, root)])
\* generation.rs merges the layers again, of the environment the project has
\* then, and digests them with that environment and all the sources.
MergedMainConfig(disk) == MergeConfigLayers(LayersFor(disk, EnvironmentOf(LoadedEva(disk))))
FromProject(disk) ==
    Mapping([k \in SourceKinds |-> List(disk.sources[k])]
            @@ [environment |-> Str(EnvironmentOf(LoadedEva(disk))), eva |-> MergedMainConfig(disk).value,
                routes |-> disk.sources.routes])
\* There is none when those layers do not merge.
GenerationDigest(disk) == IF MergedMainConfig(disk).ok THEN <<CanonicalConfigBytes(FromProject(disk))>> ELSE <<>>

-----------------------------------------------------------------------------
(* Properties.                                                               *)

FieldAt(value, field) ==
    LET f[n \in 0..Len(field)] == IF n = 0 THEN <<value>>
            ELSE IF f[n-1] # <<>> /\ IsMap(f[n-1][1]) /\ Has(f[n-1][1].v, field[n]) THEN <<f[n-1][1].v[field[n]]>>
            ELSE <<>>
    IN  f[Len(field)]
\* A merge that succeeds gives every leaf the value of the strongest layer that
\* sets it and names that layer as its source, and names no other field.
MergeFollowsRank(layers) ==
    LET m == MergeConfigLayers(layers) IN
    m.ok =>
      /\ DOMAIN m.sources = RecordLeafSources(m.value, <<>>)
      /\ \A f \in DOMAIN m.sources : \E i \in DOMAIN layers :
            /\ layers[i].kind = m.sources[f]
            /\ FieldAt(layers[i].value, f) # <<>> /\ SameScalar(FieldAt(layers[i].value, f)[1], FieldAt(m.value, f)[1])
            /\ \A j \in DOMAIN layers :
                  LayerRank[layers[j].kind] > LayerRank[layers[i].kind] => FieldAt(layers[j].value, f) = <<>>

RECURSIVE SameUpToSecrets(_, _)
SameUpToSecrets(a, b) ==
    a.t = b.t /\ CASE a.t = "map" -> /\ DOMAIN a.v = DOMAIN b.v
                                     /\ \A k \in DOMAIN a.v : IsSensitiveField(k) \/ SameUpToSecrets(a.v[k], b.v[k])
                   [] a.t = "seq" -> Len(a.v) = Len(b.v) /\ \A i \in DOMAIN a.v : SameUpToSecrets(a.v[i], b.v[i])
                   [] OTHER -> a.v = b.v
\* Two configurations have one canonical form exactly when they differ only
\* under keys that contain a secret word: the digest shows nothing kept there,
\* not even a limit such as max_tokens, and misses no other edit.
DigestIsExact(a, b) == CanonicalConfigBytes(a) = CanonicalConfigBytes(b) <=> SameUpToSecrets(a, b)

\* Whether the layers leave the environment the base names.
KeepsEnvironment(disk) == EnvironmentOf(LoadedEva(disk)) = EnvironmentOf(disk.base)
Naming(env) == Mapping("runtime" :> Mapping("env" :> Str(env)))
\* What the generation digests is the main configuration that was loaded while
\* the layers keep the base's environment.  When one of them renames it, the
\* loader still has the base's layers, and the digest is of what it would have
\* loaded from a base with the new name.
DigestCoversLoaded(disk, schemas) ==
    EvaLoads(disk, schemas) =>
        LET env == EnvironmentOf(LoadedEva(disk))
            renamed == [disk EXCEPT !.base = MergeValue(@, Naming(env))]
            digested == MergedMainConfig(disk)
        IN  /\ KeepsEnvironment(disk) => digested.ok /\ digested.value = LoadedEva(disk)
            /\ digested.ok = MergeConfigLayers(LoadLayers(renamed)).ok
            /\ digested.ok => MergeValue(digested.value, Naming(env)) = MergeValue(LoadedEva(renamed), Naming(env))
\* Two projects whose layers keep their environment have one digest exactly when
\* everything they load, the main configuration and each source, differs under
\* secret keys only; projects of different environments never have.
DigestSeesEdits(d, e, schemas) ==
    (EvaLoads(d, schemas) /\ EvaLoads(e, schemas)) =>
        /\ GenerationDigest(d) # <<>> /\ GenerationDigest(d) = GenerationDigest(e) =>
              EnvironmentOf(LoadedEva(d)) = EnvironmentOf(LoadedEva(e))
        /\ KeepsEnvironment(d) /\ KeepsEnvironment(e) =>
              (GenerationDigest(d) = GenerationDigest(e) <=>
                  /\ SameUpToSecrets(LoadedEva(d), LoadedEva(e))
                  /\ \A k \in SourceKinds : SameUpToSecrets(List(d.sources[k]), List(e.sources[k]))
                  /\ SameUpToSecrets(d.sources.routes, e.sources.routes))

\* A pattern matches the topics that agree with it segment by segment: as many
\* as it has, or from there on when it ends in "**"; an exact one only itself.
PatternsAgree(pattern, topic) ==
    (TopicPatternValid(pattern) /\ TopicValid(topic)) =>
        LET p == Segments(pattern)
            t == Segments(topic)
            tail == p[Len(p)] = "**"
            n == IF tail THEN Len(p) - 1 ELSE Len(p)
        IN  /\ TopicMatches(pattern, topic) <=>
                  /\ IF tail THEN Len(t) >= n ELSE Len(t) = n
                  /\ \A i \in 1..n : p[i] \in {"*", t[i]}
            /\ IsExact(pattern) => (TopicMatches(pattern, topic) <=> pattern = topic)

\* A project that loads is closed: every Agent a route names is one manifest
\* with a script on disk, and taking that manifest away, or adding any manifest a
\* second time, stops the load.  The directories it is read from are absolute
\* and there, and it is production, under either name, that refuses a plaintext
\* credential, whichever layer named the environment.
LoadedIsRoutable(disk, schemas, p, root) ==
    LET loads(q) == LoadProjectConfig(disk, schemas, q, root)
        routed == UNION {Elements(r.agents) : r \in Elements(p.routes)}
        dirs == ResolveAgainst(LoadedEva(disk), root)
    IN  loads(p) =>
          /\ \A id \in routed : \E a \in Elements(p.agents) :
                a.id = id /\ (\E f \in p.files : f = ResolvePath(a.dir, a.script)) /\ Elements(a.providers) \subseteq Ids(p.adapters)
          /\ \A i \in DOMAIN p.agents : p.agents[i].id \in routed =>
                ~loads([p EXCEPT !.agents = SelectSeq(@, LAMBDA a : a # p.agents[i])])
          /\ \A i \in DOMAIN p.agents : ~loads([p EXCEPT !.agents = Append(@, p.agents[i])])
          /\ \A i \in DOMAIN p.adapters : ~loads([p EXCEPT !.adapters = Append(@, p.adapters[i])])
          /\ \A k \in RootFields : /\ dirs[k][1] = "/"
                                   /\ ~loads([p EXCEPT !.dirs = @ \ {dirs[k]}, !.files = @ \ {dirs[k]}])
          /\ EnvironmentOf(LoadedEva(disk)) \in {<<"production">>, <<"Prod">>} => 
                \A m \in Elements(p.adapters) : ValidateForEnvironment(m, TRUE) /\ NoPlaintextInProduction(m)
          /\ \A i \in DOMAIN p.adapters : p.adapters[i].transport = "hardware" =>
                ~loads([p EXCEPT !.adapters[i].extra = ("hardware" :> Mapping("bus" :> Str(<<"other">>))) @@ @])

-----------------------------------------------------------------------------
(* Permissions and sandboxes (permissions.rs, sandbox.rs, effective.rs).     *)

DenyAll == [network |-> FALSE, shell |-> FALSE, read_workspace |-> FALSE, write_workspace |-> FALSE,
            max_timeout_ms |-> <<>>, capabilities |-> <<>>, adapters |-> <<>>]
PermissionFlags == {"network", "shell", "read_workspace", "write_workspace"}
MinOption(left, right) ==
    IF left = <<>> THEN right ELSE IF right = <<>> THEN left
    ELSE <<IF left[1] < right[1] THEN left[1] ELSE right[1]>>
\* Fault: a missing allowlist is an empty one.
IntersectOptionalSetsFault(left, right) ==
    IF left = <<>> \/ right = <<>> THEN <<>> ELSE <<left[1] \cap right[1]>>

IntersectOptionalSets(left, right) ==
    IF left = <<>> THEN right ELSE IF right = <<>> THEN left ELSE <<left[1] \cap right[1]>>
NarrowedBy(self, other) ==
    [network |-> self.network /\ other.network, shell |-> self.shell /\ other.shell,
     read_workspace |-> self.read_workspace /\ other.read_workspace,
     write_workspace |-> self.write_workspace /\ other.write_workspace,
     max_timeout_ms |-> MinOption(self.max_timeout_ms, other.max_timeout_ms),
     capabilities |-> IntersectOptionalSets(self.capabilities, other.capabilities),
     adapters |-> IntersectOptionalSets(self.adapters, other.adapters)]
\* A request without a time limit is not taken to exceed one.
TimeoutExpands(requested, bound) == requested # <<>> /\ bound # <<>> /\ requested[1] > bound[1]
OptionalSetExpands(requested, bound) == bound # <<>> /\ (requested = <<>> \/ ~(requested[1] \subseteq bound[1]))
DiffAgainst(self, bound) ==
    {f \in PermissionFlags : self[f] /\ ~bound[f]}
    \cup (IF TimeoutExpands(self.max_timeout_ms, bound.max_timeout_ms) THEN {"max_timeout_ms"} ELSE {})
    \cup {f \in {"capabilities", "adapters"} : OptionalSetExpands(self[f], bound[f])}
Allows(option, item) == option = <<>> \/ item \in option[1]

LuaDefault == [disabled_libs |-> {<<"debug">>, <<"io">>, <<"os">>}, memory_mb |-> <<64>>, execution_timeout_ms |-> <<30000>>,
               filesystem |-> FALSE, network |-> FALSE, environment |-> FALSE,
               return_schema |-> TRUE, emitted_topic |-> TRUE]
SandboxNarrowedBy(self, other) ==
    [disabled_libs |-> self.disabled_libs \cup other.disabled_libs,
     memory_mb |-> MinOption(self.memory_mb, other.memory_mb),
     execution_timeout_ms |-> MinOption(self.execution_timeout_ms, other.execution_timeout_ms),
     filesystem |-> self.filesystem /\ other.filesystem, network |-> self.network /\ other.network,
     environment |-> self.environment /\ other.environment,
     return_schema |-> self.return_schema \/ other.return_schema,
     emitted_topic |-> self.emitted_topic \/ other.emitted_topic]

PolicyLayer(permissions, sandbox) == [permissions |-> permissions, sandbox |-> sandbox]
\* from_layers: the intersection of the layers, of which there is at least one.
FromLayers(layers) ==
    LET upTo[n \in 1..Len(layers)] ==
            IF n = 1 THEN layers[1]
            ELSE PolicyLayer(NarrowedBy(upTo[n-1].permissions, layers[n].permissions),
                             SandboxNarrowedBy(upTo[n-1].sandbox, layers[n].sandbox))
    IN  upTo[Len(layers)]
NarrowRequest(effective, request) == NarrowedBy(effective.permissions, request)
EnsureRequestAllowed(effective, request) == DiffAgainst(request, effective.permissions) = {}

-----------------------------------------------------------------------------
(* The domains of the policy documents (domains.rs).                         *)

HighRiskActions == {"adapter.invoke", "provider.credential_session", "mcp.tool.call", "mcp.topic.emit", "skill.run",
                    "hardware.bind", "hardware.raw_io", "backup.create", "restore.apply", "upgrade.apply",
                    "release.pointer_mutation", "supervisor.handoff"}

BoolField(map, key, default) == IF Has(map, key) THEN map[key].v ELSE default
BoolFieldValid(map, key) == OptionalBool(map, key)
OptionalU64Field(map, key) == IF Has(map, key) THEN <<map[key].v>> ELSE <<>>
OptionalU64Valid(map, key) == Has(map, key) => map[key].t = "num"
\* A list of texts each of which parses.
TextSetValid(map, key, Parses(_)) ==
    Has(map, key) => map[key].t = "seq" /\ \A i \in DOMAIN map[key].v :
                        IsStr(map[key].v[i]) /\ Parses(map[key].v[i].v)
AnyText(text) == TRUE
IsAction(text) == Len(text) = 1 /\ text[1] \in HighRiskActions
SectionValid(map, key, Valid(_)) == Has(map, key) => IsMap(map[key]) /\ Valid(map[key].v)

PermissionDefaultsValid(m) == (\A f \in PermissionFlags : BoolFieldValid(m, f)) /\ OptionalU64Valid(m, "max_timeout_ms")
ParsePermissionDefaults(m) ==
    [DenyAll EXCEPT !.network = BoolField(m, "network", FALSE), !.shell = BoolField(m, "shell", FALSE),
                    !.read_workspace = BoolField(m, "read_workspace", FALSE),
                    !.write_workspace = BoolField(m, "write_workspace", FALSE),
                    !.max_timeout_ms = OptionalU64Field(m, "max_timeout_ms")]
SkillPolicyValid(m) ==
    /\ \A f \in {"require_schema", "allow_user_local_skills"} : BoolFieldValid(m, f)
    /\ \A f \in {"allowed_runtime_gates", "deny_kinds"} : TextSetValid(m, f, AnyText)
MaxAttempts == 99
RetryConfigValid(m) ==
    /\ \A f \in {"max_attempts", "backoff_ms"} : OptionalU64Valid(m, f)
    /\ Has(m, "max_attempts") => m["max_attempts"].v <= MaxAttempts
RetryPolicyValid(m) ==
    /\ SectionValid(m, "default", RetryConfigValid)
    /\ LET All(map) == \A k \in DOMAIN map : k \notin {"", " "} /\ IsMap(map[k]) /\ RetryConfigValid(map[k].v)
       IN  SectionValid(m, "capabilities", All)
AdapterPolicyValid(m) ==
    /\ SectionValid(m, "defaults", PermissionDefaultsValid)
    /\ TextSetValid(m, "allow_write_workspace", IdValid) /\ TextSetValid(m, "deny_capabilities", CapabilityNameValid)
    /\ SectionValid(m, "skill", SkillPolicyValid) /\ SectionValid(m, "retry", RetryPolicyValid)
\* A skill section without gates allows none; without a section, "normal".
ParseAdapterPolicy(m) ==
    [defaults |-> ParsePermissionDefaults(Sub(m, "defaults")),
     deny_capabilities |-> StringList(m, "deny_capabilities"),
     skill_gates |-> IF Has(m, "skill") THEN StringList(Sub(m, "skill"), "allowed_runtime_gates") ELSE {<<"normal">>},
     retry |-> Sub(Sub(m, "retry"), "capabilities")]
RedactionPolicyValid(m) ==
    /\ \A f \in {"enabled", "audit_redactions"} : BoolFieldValid(m, f)
    /\ Has(m, "replacement") => IsStr(m["replacement"]) /\ ~Blank(m["replacement"].v)
    /\ \A f \in {"sensitive_key_fragments", "sensitive_token_prefixes"} : TextSetValid(m, f, Trimmed)
MemoryPolicyValid(m) == SectionValid(m, "redaction", RedactionPolicyValid)
HardwareDefaultsValid(m) ==
    /\ \A f \in {"allow_raw_io", "network_bridge"} : BoolFieldValid(m, f)
    /\ Has(m, "claim") => IsStr(m["claim"])
    /\ OptionalU64Valid(m, "max_timeout_ms")
HotplugPolicyValid(m) ==
    /\ \A f \in {"require_identity_match", "quarantine_unknown_devices"} : BoolFieldValid(m, f)
    /\ TextSetValid(m, "emit_events", TopicValid)
HardwarePolicyValid(m) ==
    /\ SectionValid(m, "defaults", HardwareDefaultsValid) /\ BoolFieldValid(m, "enabled")
    /\ TextSetValid(m, "allowed_buses", AnyText) /\ TextSetValid(m, "denied_capabilities", CapabilityNameValid)
    /\ SectionValid(m, "hotplug", HotplugPolicyValid)
ParseHardwarePolicy(m) ==
    LET defaults == Sub(m, "defaults") IN
    [enabled |-> BoolField(m, "enabled", FALSE), allow_raw_io |-> BoolField(defaults, "allow_raw_io", FALSE),
     network_bridge |-> BoolField(defaults, "network_bridge", FALSE),
     max_timeout_ms |-> OptionalU64Field(defaults, "max_timeout_ms"),
     allowed_buses |-> StringList(m, "allowed_buses"), denied_capabilities |-> StringList(m, "denied_capabilities")]
McpToolPolicyValid(m) ==
    /\ BoolFieldValid(m, "enabled") /\ OptionalU64Valid(m, "timeout_ms")
    /\ TextSetValid(m, "allowed_agents", IdValid) /\ TextSetValid(m, "allowed_providers", IdValid)
    /\ TextSetValid(m, "allowed_capabilities", CapabilityNameValid)
    /\ TextSetValid(m, "allowed_topics", TopicPatternValid)
McpServerPolicyValid(m) ==
    /\ BoolFieldValid(m, "enabled") /\ (Has(m, "bind") => IsStr(m["bind"]))
    /\ LET All(map) == \A k \in DOMAIN map : k \notin {"", " "} /\ IsMap(map[k]) /\ McpToolPolicyValid(map[k].v)
       IN  SectionValid(m, "tools", All)
ParseMcpToolPolicy(m) ==
    [enabled |-> BoolField(m, "enabled", FALSE), agents |-> StringList(m, "allowed_agents"),
     capabilities |-> StringList(m, "allowed_capabilities"), providers |-> StringList(m, "allowed_providers"),
     topics |-> StringList(m, "allowed_topics"), timeout_ms |-> OptionalU64Field(m, "timeout_ms")]
ParseMcpServerPolicy(m) ==
    LET tools == Sub(m, "tools") IN
    [enabled |-> BoolField(m, "enabled", FALSE), tools |-> [k \in DOMAIN tools |-> ParseMcpToolPolicy(tools[k].v)]]
RuntimePolicyValid(m) == TextSetValid(m, "allow_high_risk_actions", IsAction)
ParseRuntimePolicy(m) == {text[1] : text \in StringList(m, "allow_high_risk_actions")}
LuaSwitches == {"filesystem", "network", "environment"}
LuaSandboxValid(m) ==
    /\ TextSetValid(m, "disabled_libs", AnyText)
    /\ LET Limits(l) == OptionalU64Valid(l, "memory_mb") /\ OptionalU64Valid(l, "execution_timeout_ms")
           Switch(l) == BoolFieldValid(l, "enabled")
       IN  SectionValid(m, "limits", Limits) /\ \A s \in LuaSwitches : SectionValid(m, s, Switch)
    /\ \A f \in {"return_schema_validation", "emitted_topic_validation"} : BoolFieldValid(m, f)
\* The disabled libraries are the document's alone; a limits section without an
\* execution timeout removes the default one.
ParseLuaSandbox(m) ==
    LET limits == Sub(m, "limits")
        Enabled(s) == BoolField(Sub(m, s), "enabled", LuaDefault[s])
    IN  [disabled_libs |-> StringList(m, "disabled_libs"),
         memory_mb |-> IF Has(limits, "memory_mb") THEN OptionalU64Field(limits, "memory_mb") ELSE LuaDefault.memory_mb,
         execution_timeout_ms |-> IF Has(m, "limits") THEN OptionalU64Field(limits, "execution_timeout_ms")
                                  ELSE LuaDefault.execution_timeout_ms,
         filesystem |-> Enabled("filesystem"), network |-> Enabled("network"), environment |-> Enabled("environment"),
         return_schema |-> BoolField(m, "return_schema_validation", TRUE),
         emitted_topic |-> BoolField(m, "emitted_topic_validation", TRUE)]

\* from_documents: of one domain the last document wins, while every document's
\* layers stay; without a layer there is the one that denies all.
DefaultDomains == [adapter |-> ParseAdapterPolicy(EmptyMap), hardware |-> ParseHardwarePolicy(EmptyMap),
                   mcp |-> ParseMcpServerPolicy(EmptyMap), runtime |-> {}, layers |-> <<>>]
DocumentDomains == <<"adapter_policy", "hardware_policy", "lua_sandbox", "mcp_server", "memory_policy", "runtime_policy">>
DomainValid(name, value) ==
    IsMap(value) /\ CASE name = "adapter_policy" -> AdapterPolicyValid(value.v)
                      [] name = "memory_policy" -> MemoryPolicyValid(value.v)
                      [] name = "hardware_policy" -> HardwarePolicyValid(value.v)
                      [] name = "mcp_server" -> McpServerPolicyValid(value.v)
                      [] name = "runtime_policy" -> RuntimePolicyValid(value.v)
                      [] name = "lua_sandbox" -> LuaSandboxValid(value.v)
HardwarePermissions(hardware) ==
    [DenyAll EXCEPT !.network = hardware.network_bridge, !.max_timeout_ms = hardware.max_timeout_ms]
ApplyDomain(d, name, m) ==
    CASE name = "adapter_policy" ->
            LET adapter == ParseAdapterPolicy(m)
            IN  [d EXCEPT !.adapter = adapter, !.layers = Append(@, PolicyLayer(adapter.defaults, LuaDefault))]
      [] name = "hardware_policy" ->
            LET hardware == ParseHardwarePolicy(m)
            IN  [d EXCEPT !.hardware = hardware,
                          !.layers = Append(@, PolicyLayer(HardwarePermissions(hardware), LuaDefault))]
      [] name = "lua_sandbox" -> [d EXCEPT !.layers = Append(@, PolicyLayer(DenyAll, ParseLuaSandbox(m)))]
      [] name = "mcp_server" -> [d EXCEPT !.mcp = ParseMcpServerPolicy(m)]
      [] name = "runtime_policy" -> [d EXCEPT !.runtime = ParseRuntimePolicy(m)]
      [] OTHER -> d
DocumentsValid(docs) ==
    \A i \in DOMAIN docs : \A k \in DOMAIN docs[i] \cap Elements(DocumentDomains) : DomainValid(k, docs[i][k])
ApplyDocument(d, doc) ==
    LET upTo[n \in 0..Len(DocumentDomains)] ==
            IF n = 0 THEN d
            ELSE IF Has(doc, DocumentDomains[n]) THEN ApplyDomain(upTo[n-1], DocumentDomains[n], doc[DocumentDomains[n]].v)
            ELSE upTo[n-1]
    IN  upTo[Len(DocumentDomains)]
FromDocuments(docs) ==
    LET upTo[n \in 0..Len(docs)] == IF n = 0 THEN DefaultDomains ELSE ApplyDocument(upTo[n-1], docs[n])
        domains == upTo[Len(docs)]
    IN  IF domains.layers = <<>> THEN [domains EXCEPT !.layers = <<PolicyLayer(DenyAll, LuaDefault)>>] ELSE domains

-----------------------------------------------------------------------------
(* The gate: what each action needs.  A request is [action, tool, agent,     *)
(* capability, provider, adapter, topic, bus, timeout_ms], each optional.    *)

Within(timeout, limit) == timeout = <<>> \/ limit = <<>> \/ timeout[1] <= limit[1]
InAllowlist(scope, allowed) == scope = <<>> \/ allowed = {} \/ scope[1] \in allowed
DecideAdapterInvoke(d, r) ==
    /\ r.capability = <<>> \/ r.capability[1] \notin d.adapter.deny_capabilities
    /\ Within(r.timeout_ms, d.adapter.defaults.max_timeout_ms)
DecideProviderCredentialSession(d, r) == r.adapter # <<>> /\ r.provider # <<>> /\ r.adapter[1] = r.provider[1]
DecideSkillRun(d, r) == r.tool # <<>> /\ r.tool[1] \in d.adapter.skill_gates
DecideMcpToolCall(d, r) ==
    /\ r.tool # <<>> /\ Len(r.tool[1]) = 1 /\ Has(d.mcp.tools, r.tool[1][1])
    /\ LET tool == d.mcp.tools[r.tool[1][1]] IN
       /\ d.mcp.enabled /\ tool.enabled
       /\ InAllowlist(r.agent, tool.agents) /\ InAllowlist(r.capability, tool.capabilities)
       /\ InAllowlist(r.provider, tool.providers)
       /\ Within(r.timeout_ms, tool.timeout_ms)
DecideMcpTopicEmit(d, r) ==
    /\ Has(d.mcp.tools, "topic.emit") /\ d.mcp.enabled /\ d.mcp.tools["topic.emit"].enabled
    /\ r.topic # <<>> /\ \E p \in d.mcp.tools["topic.emit"].topics : TopicMatches(p, r.topic[1])
DecideHardwareBind(d, r) ==
    /\ d.hardware.enabled /\ InAllowlist(r.bus, d.hardware.allowed_buses)
    /\ r.capability = <<>> \/ r.capability[1] \notin d.hardware.denied_capabilities
    /\ Within(r.timeout_ms, d.hardware.max_timeout_ms)
DecideHardwareRawIo(d, r) == d.hardware.enabled /\ d.hardware.allow_raw_io /\ DecideHardwareBind(d, r)
DecideExplicitRuntimeAction(d, r) == r.action \in d.runtime
Decide(d, r) ==
    CASE r.action = "mcp.tool.call" -> DecideMcpToolCall(d, r)
      [] r.action = "mcp.topic.emit" -> DecideMcpTopicEmit(d, r)
      [] r.action = "hardware.bind" -> DecideHardwareBind(d, r)
      [] r.action = "hardware.raw_io" -> DecideHardwareRawIo(d, r)
      [] r.action = "adapter.invoke" -> DecideAdapterInvoke(d, r)
      [] r.action = "provider.credential_session" -> DecideProviderCredentialSession(d, r)
      [] r.action = "skill.run" -> DecideSkillRun(d, r)
      [] OTHER -> DecideExplicitRuntimeAction(d, r)
AdapterRetryBackoff(d, capability) ==
    IF Has(d.adapter.retry, capability) THEN OptionalU64Field(d.adapter.retry[capability].v, "backoff_ms") ELSE <<>>

-----------------------------------------------------------------------------
(* The inventory of mutations (mutation_inventory.rs).                       *)

MutationInventory ==
    [op \in {"daemon.shutdown", "daemon.task_submit", "daemon.task_cancel", "daemon.agent_drain", "daemon.agent_reload"}
        |-> "authenticated_daemon"]
    @@ [op \in {"service.install", "service.start", "service.stop", "service.restart", "service.uninstall"}
        |-> "service_manager"]
    @@ [op \in {"restore.apply", "restore.rollback", "upgrade.handoff", "release.pointer_promote", "hardware.bind"}
        |-> "high_risk"]
    @@ [op \in {"memory.maintenance"} |-> "memory_policy"]
HighRiskGate == ("restore.apply" :> "restore.apply") @@ ("restore.rollback" :> "restore.apply")
    @@ ("upgrade.handoff" :> "supervisor.handoff") @@ ("release.pointer_promote" :> "release.pointer_mutation")
    @@ ("hardware.bind" :> "hardware.bind")
Registered(op, gate) == Has(MutationInventory, op) /\ MutationInventory[op] = gate
AuthenticatedDaemon(op, authenticated) == authenticated /\ Registered(op, "authenticated_daemon")
ServiceManager(op, configured, adapterAllowed) == Registered(op, "service_manager") /\ configured /\ adapterAllowed

-----------------------------------------------------------------------------
(* Properties.                                                               *)

\* No layer is exceeded by the policy the layers make together, whichever way
\* round they are given: a capability or an adapter is allowed when each layer
\* allows it.  A request that passes the check keeps everything it asks for when
\* it is narrowed, but for a time limit it does not name.
NarrowingIsSafe(a, b, request) ==
    LET both == FromLayers(<<a, b>>)
        narrowed == NarrowRequest(both, request)
    IN  /\ \A layer \in {a, b} :
              /\ DiffAgainst(both.permissions, layer.permissions) = {}
              /\ layer.sandbox.disabled_libs \subseteq both.sandbox.disabled_libs
              /\ \A s \in LuaSwitches : both.sandbox[s] => layer.sandbox[s]
              /\ layer.sandbox.memory_mb # <<>> =>
                    both.sandbox.memory_mb # <<>> /\ both.sandbox.memory_mb[1] <= layer.sandbox.memory_mb[1]
        /\ \A f \in {"capabilities", "adapters"} :
              \A item \in UNION {x[1] : x \in {a.permissions[f], b.permissions[f]} \ {<<>>}} :
                 Allows(both.permissions[f], item) <=> Allows(a.permissions[f], item) /\ Allows(b.permissions[f], item)
        /\ FromLayers(<<b, a>>) = both
        /\ EnsureRequestAllowed(both, request) => [narrowed EXCEPT !.max_timeout_ms = request.max_timeout_ms] = request

\* A further document never widens what the earlier ones leave of the effective
\* policy, although it replaces their domains: the retries an adapter is given
\* are those of the last document with an adapter policy and of no other.
OnlyNarrows(before, after, source, layered) ==
    /\ layered => DiffAgainst(FromLayers(after.layers).permissions, FromLayers(before.layers).permissions) = {}
    /\ \A c \in UNION {DOMAIN d.retry : d \in {before.adapter, after.adapter, source.adapter}} :
          AdapterRetryBackoff(after, c) = AdapterRetryBackoff(source, c)

DocumentsOnlyNarrow(docs, doc) ==
    DocumentsValid(Append(docs, doc)) =>
      \A before \in {FromDocuments(docs)} : OnlyNarrows(before, FromDocuments(Append(docs, doc)),
         IF Has(doc, "adapter_policy") THEN [adapter |-> ParseAdapterPolicy(doc["adapter_policy"].v)] ELSE before,
         \E i \in DOMAIN docs : DOMAIN docs[i] \cap {"adapter_policy", "hardware_policy", "lua_sandbox"} # {})

\* A project without policy documents allows no mutation of a host: what the
\* gate lets through by default is what an adapter or a skill does.
DefaultsDeny(r) ==
    Decide(FromDocuments(<<>>), r) =>
        r.action \in {"adapter.invoke", "provider.credential_session", "skill.run"}

\* Every mutation of the inventory has one gate.  Without a session of the
\* daemon, a configured service manager and a policy document none of them runs;
\* and exactly the high-risk ones ask the policy, each for an action it knows.
MutationsAreGated(op, authenticated, configured, allowed) ==
    LET open == {g \in {"authenticated_daemon", "service_manager"} :
                    IF g = "service_manager" THEN ServiceManager(op, configured, allowed)
                                             ELSE AuthenticatedDaemon(op, authenticated)}
        asks == Has(HighRiskGate, op)
    IN  /\ Cardinality(open) <= 1
        /\ open # {} => op \in DOMAIN MutationInventory /\ ~asks /\ (authenticated \/ (configured /\ allowed))
        /\ asks <=> Registered(op, "high_risk")
        /\ asks => /\ HighRiskGate[op] \in HighRiskActions
                   /\ HighRiskGate[op] \notin {"adapter.invoke", "provider.credential_session", "skill.run"}
=============================================================================
