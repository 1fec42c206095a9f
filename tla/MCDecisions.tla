------------------------------ MODULE MCDecisions ------------------------------
(* The pure parts of the system over bounded inputs: configuration, policy,   *)
(* manifests, routing and the command line; release evidence, gates, backups  *)
(* and command evidence; and the formats that are written in one place and    *)
(* read in another.  A behaviour is one evaluation: component names the part,  *)
(* input is one of its inputs, and each invariant says what must hold of it.   *)
EXTENDS Naturals, Sequences, SequencesExt, FiniteSets

VARIABLES component, input

vars == <<component, input>>

\* The state machines of the instantiated modules take no part here.
Off == 0
Release  == INSTANCE ReleaseGate
Cli      == INSTANCE CommandLine
Config   == INSTANCE ProjectConfig
Archive  == INSTANCE BackupArchive
Client   == INSTANCE McpClient WITH link <- Off, at <- Off, client <- Off, server <- Off, child <- Off,
                result <- Off, opening <- Off, deletes <- Off
Stream   == INSTANCE McpStream WITH StreamIds <- {}, PendingLimit <- 0, ByteLimit <- 0, wire <- Off, parsed <- Off, replies <- Off,
                peers <- Off, pending <- Off, pendingBytes <- Off, waiting <- Off, disconnected <- Off, out <- Off
Server   == INSTANCE McpServer WITH SessionIds <- {}, Peers <- {}, MaxSessions <- 1, MaxConnections <- 0,
                sessions <- Off, requested <- Off, slot <- Off, pc <- Off, conn <- Off, reply <- Off, late <- Off,
                handle <- Off, told <- Off, report <- Off
Service  == INSTANCE ServiceHost WITH token <- Off, state <- Off, scm <- Off, ready <- Off, stop <- Off, dog <- Off, failed <- Off, stale <- Off
Transport == INSTANCE ProviderTransports WITH InputSize <- 1, OutputSize <- 1, OutputLimit <- 1, PipeSize <- 1,
                run <- Off, child <- Off, pipe <- Off, reader <- Off, evidence <- Off, group <- Off, cleaner <- Off
Credential == INSTANCE CredentialSessions WITH Sessions <- {}, Drains <- {}, MaxWorkers <- 1, session <- Off,
                progress <- Off, channel <- Off, finalizer <- Off, drain <- Off
Store    == INSTANCE DurableStores WITH Actors <- {}, Contents <- {}, MaxWrites <- 0, backend <- Off, opener <- Off,
                artifact <- Off, putter <- Off, state <- Off, setter <- Off, audit <- Off
SameOwner(c) == c
Memory   == INSTANCE MemoryStores WITH Writers <- {}, Maintainers <- {}, Callers <- {}, OwnerOf <- SameOwner,
                StaleAfter <- 1, MaxClock <- 0, MaxCrashes <- 0, MaxVersion <- 0, MaxGeneration <- 0,
                clock <- Off, lock <- Off, checkpoint <- Off, file <- Off, left <- Off, actor <- Off, crashes <- Off, now <- Off, schedule <- Off, anchor <- Off, job <- Off
Hardware == INSTANCE HardwareLifecycle WITH Devices <- {"d"}, Requests <- {}, MaxEdits <- 0, MaxCrashes <- 0,
                registry <- Off, active <- Off, told <- Off, manifest <- Off, stored <- Off, events <- Off,
                scan <- Off, edits <- Off, crashes <- Off, excused <- Off
FirstRank(s) == 1
Discover == INSTANCE Discovery WITH Sources <- << >>, Ids <- {}, Rank <- FirstRank, Ttl <- 1, MaxClock <- 0,
                MaxEdits <- 0, MaxCrashes <- 0, world <- Off, disk <- Off, cache <- Off, build <- Off, clock <- Off,
                edits <- Off, crashes <- Off
Dispatch == INSTANCE AgentDispatch WITH Agents <- {}, RuleSets <- {}, Scripts <- {}, Attempts <- {}, Capacity <- 0,
                project <- Off, options <- Off, mailbox <- Off, log <- Off, letters <- Off, run <- Off

Words(S, n) == UNION {[1..k -> S] : k \in 0..n}

-----------------------------------------------------------------------------
(* Configuration, policy and manifests                                       *)

M(f) == Config!Mapping(f)
S(word) == Config!Str(<<word>>)
N(n) == Config!Num(n)
B(b) == Config!Bool(b)
L(values) == Config!List(values)
Pair(k, v) == [x \in {k} |-> v]
Join(f, g) == [x \in DOMAIN f \cup DOMAIN g |-> IF x \in DOMAIN f THEN f[x] ELSE g[x]]
Nothing == [x \in {} |-> Off]
Empty == M(Nothing)

\* Layers whose keys overlap, nest and disagree in type.
Roots == <<Empty, M(Pair("k", N(1))), M(Pair("k", N(2))), M(Pair("k", S("a"))), M(Pair("g", M(Pair("k", N(1))))),
           M([k |-> N(3), g |-> M(Pair("k", N(2)))]), M(Pair("g", M([k |-> N(5), j |-> S("b")]))),
           M(Pair("g", L(<<N(1)>>))), M(Pair("g", L(<<N(2), N(3)>>))), M(Pair("g", Empty)), N(1)>>
Layer(kind, i) == [kind |-> kind, path |-> 0, value |-> Roots[i]]
LayersOf(i) == CASE i[4] = 1 -> <<Layer("base", i[1]), Layer("user", i[2]), Layer("environment", i[3])>>
                 [] i[4] = 2 -> <<Layer("environment", i[3]), Layer("user", i[2]), Layer("base", i[1])>>
                 [] i[4] = 3 -> <<Layer("environment", i[3]), Layer("profile", i[2])>>
LayerInputs == (DOMAIN Roots) \X (DOMAIN Roots) \X (DOMAIN Roots) \X (1..3)

\* Documents a careless digest would not tell apart.
Documents == <<N(1), N(2), Config!Frac(1), S("a"), B(TRUE), L(<<N(1)>>), L(<<N(1), S("a")>>), Config!Null, Config!Str(<< >>),
               Config!Str(<<"a", "b">>), Empty, M(Pair("k", N(1))), M(Pair("k", N(2))), M(Pair("j", S("a"))),
               M(Pair("Token", S("a"))), M(Pair("Token", S("b"))), M([k |-> N(1), j |-> S("b")]),
               M(Pair("k", Config!Str(<<"a", "S", "1", "a">>))), M(Pair("g", L(<<S("a"), S("b")>>))),
               M(Pair("g", L(<<Config!Str(<<"a", "S", "b">>)>>))),
               M(Pair("g", L(<<Config!Str(<<"a", "S", "1", "b">>)>>))), M(Pair("g", L(<<Config!Str(<<"a", "b">>)>>)))>>

\* Project directories with a user layer, a profile and an environment file.
Over == <<Empty, M(Pair("runtime", M(Pair("env", S("production"))))), M(Pair("runtime", M(Pair("workspace", S("w"))))),
          M(Pair("runtime", M(Pair("env", S("Prod"))))), M(Pair("config", M(Pair("schema_dir", S("strict")))))>>
BaseDocument == M([runtime |-> M([env |-> S("dev"), workspace |-> S(".")]), observability |-> Empty,
                   config |-> M([k \in Config!RootFields |-> IF k = "route_file" THEN S("routes.yaml") ELSE S("dir")])])
Sources(agents, adapters) ==
    [agents |-> agents, adapters |-> adapters, capabilities |-> << >>, policies |-> <<M(Pair("runtime_policy", Empty))>>,
     routes |-> M(Pair("routes", L(<<S("a1")>>)))]
AgentFile == M(Pair("id", S("a1")))
SourceSets == <<Sources(<<AgentFile>>, << >>), Sources(<<AgentFile, AgentFile>>, << >>),
                Sources(<<AgentFile>>, <<M(Pair("max_tokens", N(1)))>>), Sources(<<AgentFile>>, <<M(Pair("max_tokens", N(2)))>>),
                Sources(<<Empty>>, << >>)>>
DiskOf(i) == [base |-> BaseDocument, user |-> IF i[1] = 1 THEN << >> ELSE <<Over[i[1]]>>,
              profile |-> IF i[2] = 1 THEN Nothing ELSE Pair(IF i[4] < 3 THEN <<"dev">> ELSE <<"production">>, Over[i[2]]),
              environment |-> IF i[3] = 1 THEN Nothing ELSE Pair(IF i[4] = 1 THEN <<"dev">> ELSE <<"production">>, Over[i[3]]),
              sources |-> SourceSets[i[5]]]
DiskInputs == [1..5 -> 1..3]
\* The same directory after an edit of one of its files.
Edited(i) == {[i EXCEPT ![n] = v] : n \in 1..5, v \in 1..4}
Schema == M([type |-> S("object"), additionalProperties |-> B(FALSE),
             properties |-> M([runtime |-> M(Pair("required", L(<<S("env")>>))), observability |-> Empty,
                               config |-> Empty, service_manager |-> Empty])])
SchemasWith(agent) == [eva |-> Schema, agents |-> agent, adapters |-> Empty, capabilities |-> Empty,
                       policies |-> M(Pair("minProperties", N(1))), routes |-> M(Pair("required", L(<<S("routes")>>)))]
Schemas == [d \in {<<"dir">>, <<"strict">>} |->
              SchemasWith(M(Pair("required", L(IF d = <<"dir">> THEN <<S("id")>> ELSE <<S("id"), S("name")>>))))]

\* Permissions, sandboxes and policy documents.
Times == <<<< >>, <<5>>, <<9>>>>
Granted == <<<< >>, <<{"a"}>>, <<{"a", "b"}>>, <<{}>>>>
Permissions(i, j, k) == [Config!DenyAll EXCEPT !.network = (i % 2 = 1), !.shell = (i > 1),
                                              !.max_timeout_ms = Times[j], !.capabilities = Granted[k]]
Sandboxes == <<Config!LuaDefault, [Config!LuaDefault EXCEPT !.memory_mb = <<32>>, !.disabled_libs = {<<"os">>}],
               [Config!LuaDefault EXCEPT !.memory_mb = << >>, !.network = TRUE]>>
Policies == <<Nothing, Pair("adapter_policy", M(Pair("defaults", M(Pair("network", B(TRUE)))))),
              Pair("adapter_policy", M(Pair("defaults", M([shell |-> B(TRUE), max_timeout_ms |-> N(5)])))),
              Pair("adapter_policy", M(Pair("defaults", M(Pair("shell", N(1)))))),
              Pair("hardware_policy", M([enabled |-> B(TRUE), defaults |-> M(Pair("network_bridge", B(TRUE)))])),
              Pair("lua_sandbox", Empty),
              Pair("adapter_policy", M(Pair("retry", M(Pair("capabilities", M(Pair("c", M(Pair("backoff_ms", N(5)))))))))),
              Pair("mcp_server", M(Pair("tools", M(Pair("topic.emit", M(Pair("allowed_topics", L(<<Config!Str(<<"/", "a">>)>>)))))))),
              Pair("runtime_policy", M(Pair("allow_high_risk_actions", L(<<S("restore.apply")>>)))),
              Pair("runtime_policy", M(Pair("allow_high_risk_actions", L(<<S("other")>>))))>>
ActionRequest(a, i) ==
    [action |-> a, tool |-> IF i[1] = 1 THEN << >> ELSE <<<<"normal">>>>, agent |-> << >>,
     capability |-> IF i[2] = 1 THEN << >> ELSE <<<<"c">>>>, provider |-> IF i[2] = 1 THEN << >> ELSE <<<<"p">>>>,
     adapter |-> IF i[3] = 1 THEN << >> ELSE <<<<"p">>>>, topic |-> IF i[3] = 1 THEN << >> ELSE <<<<"/", "a">>>>,
     bus |-> << >>, timeout_ms |-> << >>]
\* Topic patterns and topics of up to two segments.
TopicText(segments) == FlattenSeq([n \in DOMAIN segments |-> <<"/", segments[n]>>])
TopicPatterns == {TopicText(s) : s \in Words({"a", "*", "**", "b"}, 2)}
Topics == {TopicText(s) : s \in Words({"a", "b"}, 2) \cup {<<"*">>, <<"**", "a">>}}

\* Adapter manifests: MCP servers, credentials in several places, restarts, users and vaults.
Https == <<"https", "://", "host", "/", "mcp">>
StdioServer == [command |-> S("server"), args |-> L(<<S("-v")>>)]
HttpServer == [server_transport |-> S("http"), endpoint |-> Config!Str(Https)]
HttpPolicy == [trust_roots |-> L(<<S("system")>>), allowed_origins |-> L(<<Config!Str(<<"https", "://", "host">>)>>)]
EnvRef == Config!Str(<<"env:", "TOKEN_A">>)
WithHttp(more) == Join(Pair("http", M(Join(more, HttpPolicy))), HttpServer)
Servers == <<StdioServer, HttpServer, WithHttp(Nothing), Join(Pair("endpoint", Config!Str(Https)), StdioServer),
             Join(Pair("command", S("x")), HttpServer),
             WithHttp(Pair("client_auth", M([cert_ref |-> EnvRef, key_ref |-> Config!Str(<<"vault://", "a", "#", "k">>)]))),
             WithHttp(Pair("redirect", M([mode |-> S("same_origin"), max_hops |-> N(11)]))),
             Nothing, Join(Pair("other", N(1)), StdioServer), Join(Pair("server_transport", N(1)), StdioServer)>>
Allowed(name) == Pair("permissions", M(Pair("env", L(<<S(name)>>))))
Credentials == <<EnvRef, S("plain"), Config!Str(<<"env:", "PATH">>), Config!Str(<<"env:", "OTHER">>), N(1)>>
Placed(c) == <<Pair("token", c), Pair("Token", c), Pair("note", c), Pair("auth", M(Pair("password", c))),
               Pair("list", L(<<N(1), M(Pair("secret", c))>>)), Pair("headers", M(Pair("Authorization", c)))>>
Extras == <<Nothing, Allowed("TOKEN_A"), Allowed("PATH"),
            Join(Allowed("TOKEN_A"), Pair("input_schema", M(Pair("token", N(1))))),
            Join(Allowed("TOKEN_A"), Pair("endpoint", Config!Str(Https))),
            Join(Allowed("TOKEN_A"), Pair("command", S("x")))>>
          \o FlattenSeq([i \in DOMAIN Credentials |->
                [j \in 1..6 |-> Join(Allowed("TOKEN_A"), Placed(Credentials[i])[j])]])
Restarts == <<<< >>, <<[mode |-> "none", max_attempts |-> 0, backoff_ms |-> 0]>>,
              <<[mode |-> "always", max_attempts |-> 1, backoff_ms |-> 1]>>,
              <<[mode |-> "always", max_attempts |-> 0, backoff_ms |-> 1]>>>>
Users == <<<< >>, <<[kind |-> "unix", uid |-> <<1>>, gid |-> <<1>>, account |-> << >>]>>,
           <<[kind |-> "unix", uid |-> <<9>>, gid |-> <<1>>, account |-> << >>]>>>>
Vaults == <<<< >>, <<[env |-> <<"TOKEN_A">>, ref |-> <<"vault://", "a", "#", "k">>]>>,
            <<[env |-> <<"B">>, ref |-> <<"vault://", "a">>]>>>>
ManifestOf(i) ==
    [id |-> <<"a">>, name |-> <<"a">>, version |-> <<"1">>, transport |-> "mcp", capabilities |-> {<<"c">>},
     extra |-> Join(Pair("mcp", M(Servers[i[1]])), Extras[i[2]]), restart |-> Restarts[i[3]], run_as |-> Users[i[4]],
     vault |-> Vaults[i[5]]]
ManifestInputs == (DOMAIN Servers) \X (DOMAIN Extras) \X (DOMAIN Restarts) \X (DOMAIN Users) \X (DOMAIN Vaults)
Urls == {<<scheme, "://">> \o rest : scheme \in {"https", "HTTP", "HTTPS"},
            rest \in Words({"Host", "host", ":", "443", "80", "/"}, 4)
                     \cup {<<"[", "::1", "]">>, <<"[", "::1", "]", ":", "80", "/">>}}
Origins == {u \in Urls : Config!OriginValid(u)}

\* Projects whose manifests name each other, a script that is missing, a device.
AgentOf(id, script, providers, capabilities) ==
    [id |-> <<id>>, parent |-> << >>, children |-> << >>, dir |-> <<"/", "agents">>, script |-> script,
     subscriptions |-> <<<<"/", "a">>>>, emit |-> << >>, capabilities |-> capabilities, providers |-> providers]
First == AgentOf("a1", <<"main.lua">>, <<<<"a">>>>, <<<<"c">>>>)
AgentLists == <<<<First>>, <<First, [AgentOf("a2", <<"/", "lib.lua">>, << >>, << >>) EXCEPT !.parent = <<<<"a1">>>>]>>,
                <<[First EXCEPT !.providers = <<<<"z">>>>]>>, <<[First EXCEPT !.script = <<"gone.lua">>]>>,
                <<[First EXCEPT !.children = <<<<"a2">>>>]>>, <<[First EXCEPT !.capabilities = <<<<"k">>>>]>>>>
Device == [id |-> <<"a">>, name |-> <<"a">>, version |-> <<"1">>, transport |-> "hardware", capabilities |-> {<<"c">>},
           extra |-> Pair("hardware", M([bus |-> S("usb"), identity |-> M(Pair("device_class", S("scale"))),
                                         protocol |-> M([kind |-> S("simulated"), baud_rate |-> N(4)]),
                                         hotplug |-> M(Pair("claim", S("exclusive")))])),
           restart |-> << >>, run_as |-> << >>, vault |-> << >>]
Plain == ManifestOf(<<1, 1, 1, 1, 1>>)
AdapterLists == <<<<Plain>>, <<[Plain EXCEPT !.extra = Join(Allowed("TOKEN_A"), Join(Pair("token", S("plain")), @))]>>,
                  <<[Plain EXCEPT !.extra = Join(Allowed("TOKEN_A"), Join(Pair("token", EnvRef), @))]>>,
                  <<Device>>, <<Plain, [Device EXCEPT !.id = <<"b">>]>>, << >>>>
CapabilityOf(providers, required) ==
    [id |-> <<"k">>, name |-> <<"k">>, version |-> <<"1">>, kind |-> "mcp_tool", capability |-> <<"k">>,
     providers |-> providers, required |-> required]
RouteOf(agents) == [pattern |-> <<"/", "a">>, delivery |-> "fanout", agents |-> agents]
ProjectOf(i) ==
    [agents |-> AgentLists[i[1]], adapters |-> AdapterLists[i[2]],
     capabilities |-> <<<< >>, <<CapabilityOf(<<<<"a">>>>, <<<<"c">>>>)>>, <<CapabilityOf(<<<<"z">>>>, << >>)>>>>[i[3]],
     routes |-> <<<<RouteOf(<<<<"a1">>>>)>>, <<RouteOf(<<<<"a1">>, <<"a2">>>>)>>, << >>>>[i[4]],
     policies |-> <<M(Pair("runtime_policy", Empty))>>, env |-> << >>, roots |-> Off,
     dirs |-> {<<"/", "p", "dir">>, <<"/", "p", "strict">>},
     files |-> {<<"/", "agents", "main.lua">>, <<"/", "lib.lua">>, <<"/", "p", "routes.yaml">>}]
ProjectInputs == (DOMAIN AgentLists) \X (DOMAIN AdapterLists) \X (1..3) \X (1..3) \X {<<u, s>> : u \in DOMAIN Over, s \in {1, 5}}

\* Manifests whose lists, options and sets differ where their digests could meet.
HttpConfigs == {<< >>} \cup {<<[endpoint |-> "e", origins |-> o, roots |-> r, redirect |-> <<"deny", 0>>, auth |-> a]>> :
    o \in {<< >>, <<"x">>}, r \in {<< >>, <<"x">>}, a \in {<< >>, <<"c", "k">>}}
DigestedManifests == [id : {"i"}, transport : {"mcp"}, command : {"", "c"}, args : {<< >>, <<"x">>}, server : {""}, invalid : BOOLEAN,
    http : HttpConfigs, headers : {<< >>, <<<<"n", "x">>>>}, mcp_args : {<< >>, <<"x">>}, skill_args : {<< >>},
    capabilities : {{"c"}}, env : {{}}, restart : {<<"none", 1, 0>>}, run_as : {<<"current">>}, vault : {{}}]
    \cup {[m EXCEPT !.env = e, !.run_as = u] : e \in {{}, {"E"}}, u \in {<<"current">>, <<"unix", 1, 2>>},
          m \in [id : {"i"}, transport : {"mcp"}, command : {"c"}, args : {<< >>, <<"x">>}, server : {""}, invalid : {FALSE},
                 http : {<< >>}, headers : {<< >>}, mcp_args : {<< >>, <<"x">>}, skill_args : {<< >>},
                 capabilities : {{"c"}}, env : {{}}, restart : {<<"none", 1, 0>>}, run_as : {<<"current">>}, vault : {{}}]}

-----------------------------------------------------------------------------
(* The command line                                                          *)

CliTables == Cli!Tables \ {Cli!McpMeasureTable, Cli!CommonTable}
CliOptions(t) == t.opts \cup Cli!CommonTable.opts
CliValues == {"a", "7", "json", "", "pre", "drop_new", "healthy", "jsonl", "alpha", "beef"}
CliNames == {"--task", "--agent", "-p", "--output", "--dry-run", "--capability", "--dev"}
CliWhole(t) ==
    {<< >>} \cup UNION {UNION {IF o.sets = "arg" THEN {<<n, v>> : v \in {w \in {"a", "7", "json"} : Cli!Fits(o.class, w)}}
                                                 ELSE {<<n>>} : n \in o.names \cap CliNames} : o \in CliOptions(t)}
CliPairs(t) == UNION {UNION {IF o.sets = "arg" THEN {<<n, v>> : v \in {"a", "7"}} ELSE {<<n>>} : n \in o.names} :
                          o \in CliOptions(t)}
CliLines == {<<"run">>, <<"version">>, <<"daemon">>, <<"mcp", "compatibility">>, <<"help">>, <<"task", "submit">>,
             <<"daemon", "__background-child", "--startup-nonce", "a", "--launcher-pid", "7", "--child-start-token", "a">>}
            \X Words({"__background-child", "__service-entry", "measure", "-V", "--project", "x", "--dev"}, 2)
EntryWords == {"x", "--help", "--project"}
ShuffledEntry(i, values) == LET built == FlattenSeq([n \in 1..4 |-> <<Cli!ServiceEntryArgs[n], values[n]>>])
                            IN  SubSeq(built, i + 1, 8) \o SubSeq(built, 1, i)
CliArgs == Words({"--project", "a", "--topic", "--agent", "-o", "json", "--capability"}, 4)

-----------------------------------------------------------------------------
(* Discovery, dispatch and hardware decisions                                *)

FoundAdapters == {[id |-> "x", enabled |-> e, transport |-> t, capabilities |-> c, command |-> m, tools |-> k, hits |-> h] :
                     e \in BOOLEAN, t \in {"mcp", "skill", "stdio"}, c \in {<< >>, <<"c">>, <<"c", "t">>},
                     m \in {"", "codex", "run"}, k \in {<< >>, <<"t">>},
                     h \in {"path", "none", "outside", "plain", "executable"}}
FoundCapabilities == [name : {"c", "t"}, kind : {"mcp_tool", "skill", "capability"}, provider : {"x", ""}]
Found(id, s, g) == [id |-> id, source |-> s, granted |-> g]
CachedSets == {<< >>, <<Found("a", "s", FALSE)>>, <<Found("a", "s", FALSE), Found("b", "s", FALSE)>>}
OtherFinds == {Found("a", "s", FALSE), Found("b", "r", FALSE), Found("z", "s", FALSE), Found("a", "s", TRUE)}
Cached(cs) == [source |-> "s", fetched |-> 1, expires |-> 9, candidates |-> cs]

Descriptors == [name : {"c"}, enabled : BOOLEAN, manifest : {"none", "p"}, default : {"none", "p", "q"},
                fallbacks : {<< >>, <<"q">>, <<"q", "p">>}, required : {{}, {"x"}}]
AgentGrants == [capabilities : {{"c"}, {"c", "x"}, {"x"}}, adapters : {{"p"}, {"p", "q"}, {"p", "q", "r"}}]
Replies == [p : {"timeout", "output_limit_exceeded", "crashed", "refused", "completed"},
            q : {"timeout", "output_limit_exceeded", "crashed", "refused", "completed"}, r : {"timeout", "completed"}]
ShadowScripts == Words({"forbidden", "broken", "silent", "static", "handler"}, 2)
GateOps == Words([kind : {"start", "healthy", "reject"}, g : {<<"g1">>, <<"g2">>, <<"g3">>}], 3)
Reloads == [id : {"i"}, from : {"none", "f", "i"}, to : {"none", "f", "gen-daemon", "n"}, release : {"r", "blank"},
            inflight : {0, 1}, timeout : {0, 5}]

-----------------------------------------------------------------------------
(* Release evidence: one captured platform, its envelope and what may change  *)

Capture(id, exe, out, finished) ==
    [json |-> "ok", format |-> "capture.v1", id |-> id, outcome |-> "success", exitCode |-> "0", executable |-> exe,
     argv |-> <<"--version">>, provider |-> "github-actions", runnerName |-> <<"runner">>,
     identity |-> <<<<"runner">>, "1", "2", <<"job">>>>, run |-> "1", attempt |-> "2", job |-> <<"job">>,
     os |-> "linux", arch |-> "x64", stdout |-> Release!Digest(out), stdoutSize |-> out.size,
     stderr |-> Release!Digest([text |-> << >>, size |-> 0]), stderrSize |-> 0, finished |-> finished, size |-> 9]
Captured(id, exe, out, finished) ==
    [manifest |-> Capture(id, exe, out, finished), stdout |-> out, stderr |-> [text |-> << >>, size |-> 0]]
Files == [smoke     |-> Captured("smoke", "eva", [text |-> <<"eva", "1.11.4">>, size |-> 10], 5),
          toolchain |-> Captured("tool", "rustc", [text |-> <<"rustc", "1">>, size |-> 7], 6),
          artifact  |-> [text |-> <<"elf">>, size |-> 3]]
Tag == <<"v", "1.11.4">>
Triple == "x86_64-unknown-linux-gnu"
Subject == [tag |-> Tag, commit |-> "commit-a", os |-> "linux", arch |-> "x86_64", toolchain |-> <<"rustc", "1">>,
            run |-> "1", attempt |-> "2", job |-> <<"job">>, name |-> Release!ArtifactName(Tag, Triple),
            target |-> Triple, artifact |-> Release!Digest(Files.artifact), artifactSize |-> 3,
            capture |-> Release!CaptureOf("smoke", "success", Files.smoke),
            toolchainCapture |-> Release!CaptureOf("tool", "success", Files.toolchain)]
Envelope == [format |-> "evidence.v1", kind |-> "measurement", source |-> <<"release-platform", Triple>>,
             source_commit |-> "commit-a", environment |-> <<"linux", "x86_64", <<"rustc", "1">>>>,
             executor |-> <<<<"runner">>, "1", "2", <<"job">>>>, timestamp |-> 6,
             subject_digest |-> Release!Digest(Subject)]
Evidence == Release!PlatformNew(Subject, Envelope).v
Expected == [tag |-> Tag, commit |-> "commit-a", run |-> "1", attempt |-> "2"]
OtherDigest == Release!Digest([text |-> <<"other">>, size |-> 1])
TamperedEvidence ==
    {[Evidence EXCEPT ![f[1]] = f[2]] :
        f \in {<<"tag", <<"v", "1.11.5">>>>, <<"job", <<"other">>>>, <<"toolchain", <<"rustc", "2">>>>, <<"name", <<"n">>>>}}
    \cup {[Evidence EXCEPT !.commit = "commit-b"], [Evidence EXCEPT !.os = "macos"], [Evidence EXCEPT !.run = "7"],
          [Evidence EXCEPT !.artifact = OtherDigest], [Evidence EXCEPT !.artifactSize = 4],
          [Evidence EXCEPT !.envelopeDigest = Release!Digest([Envelope EXCEPT !.timestamp = 9])]}
    \cup {[Evidence EXCEPT !.envelope[k] =
             CASE k = "timestamp" -> 7 [] k = "subject_digest" -> Release!Digest([Subject EXCEPT !.run = "7"])
               [] k = "format" -> "w" [] k = "kind" -> "operator" [] k = "source_commit" -> "commit-b"
               [] OTHER -> <<"w">>] : k \in Release!EnvelopeFields}
    \cup {[Evidence EXCEPT !.capture[k] =
             CASE k \in {"manifestSize", "stdoutSize", "stderrSize"} -> 99
               [] k = "manifest" -> Release!Digest([Files.smoke.manifest EXCEPT !.finished = 77])
               [] k \in {"stdout", "stderr"} -> OtherDigest
               [] OTHER -> "timeout"] : k \in DOMAIN Evidence.capture}
TamperedExpectations == {[Expected EXCEPT !.tag = <<"v", "1.11.5">>], [Expected EXCEPT !.commit = "commit-b"],
                         [Expected EXCEPT !.run = "2"], [Expected EXCEPT !.attempt = "1"]}
TamperedFiles == {[Files EXCEPT !.artifact.text = <<"x">>], [Files EXCEPT !.smoke.stdout.text = <<"x">>],
                  [Files EXCEPT !.smoke.manifest.finished = 1], [Files EXCEPT !.toolchain.manifest.json = "bad"],
                  [Files EXCEPT !.toolchain.stderr.size = 1]}
EvidenceEntry(t) == [type |-> t, evidence |-> "e", envelope |-> "v", subject |-> IF t = "artifact" THEN "s" ELSE "none",
                     envelope_digest |-> IF t = "benchmark" THEN << >> ELSE Release!Digest(t)]
EnvelopeOrder == <<"format", "kind", "source", "source_commit", "environment", "executor", "timestamp", "subject_digest">>
Timestamps == [year : {1970, 2023, 2024}, month : {1, 2, 3, 12}, day : {1, 29, 30}, hour : {0, 23}, minute : {0},
               second : {59}, fraction : {<< >>, <<5>>, <<0, 0, 9, 9>>}]
McpFlags == {<<"true">>, <<"yes">>, << >>}
McpNumbers == Words({0, 7, 10}, 2)
EntryLists == {q \in Words({EvidenceEntry(Release!EvidenceTypes[i]) : i \in 1..5}, 3) : q # << >> /\ IsInjective(q)}
EvidenceManifests == {Release!ManifestNew("alpha", "commit-a", Release!SortedByType(q)).v : q \in EntryLists}

(* Release gates: the five documents, their measurements and a production set *)

ReleaseId == [version |-> "1", source_tag |-> "v1", source_commit |-> "commit-a"]
Smoke(os, st) == [os |-> os, target |-> "t", artifact |-> "f", package_format |-> "zip", install_command |-> "i c",
                  smoke_command |-> "s", uninstall_command |-> "u", upgrade_command |-> "g", status |-> st]
Package(st) == [manager |-> "brew", package |-> "p", target |-> "t", command |-> "c", status |-> st]
Distribution(ss, ps) == [head |-> Join(ReleaseId, [install |-> "docs/install.md", uninstall |-> "docs/remove.md",
                                                   upgrade |-> "docs/upgrade.md"]),
                         lists |-> [smoke |-> ss, package |-> ps]]
Distributed == Distribution(<<Smoke("windows", "passed"), Smoke("linux", "passed"), Smoke("macos", "passed")>>,
                            <<Package("passed")>>)
Distributions == {Distributed, Distribution(<< >>, << >>),
                  Distribution(<<Smoke("windows", "failed")>>, <<Package("passed"), Package("skipped")>>)}
Measure(c, n, b, o) == [component |-> c, metric |-> n, budget_ms |-> b, observed_ms |-> o, sample_count |-> 1,
                        command |-> "c", environment |-> "e"]
Measures == {Measure(c, n, b, o) : c \in {"release.version", "release.check"}, n \in {"version wall time", "check wall time"},
                                   b \in {1, 2, 5}, o \in {0, 2, 3, 5, 6}}
Benchmark(st, l) == [head |-> Join(ReleaseId, Pair("benchmark_status", st)), lists |-> [measurement |-> l]]
Benchmarks == {Benchmark(st, l) : st \in {"passed", "failed"},
                  l \in {<< >>} \cup {<<m>> : m \in Measures}
                        \cup {<<Measure("release.version", "version wall time", 2, o), m>> : o \in {2, 3}, m \in Measures}}
Problem(s) == [id |-> "f", package |-> "p", version |-> "1", severity |-> s, summary |-> "s", remediation |-> "r"]
Scan(st, l) == [head |-> Join(ReleaseId, [scanner |-> "s", scanner_version |-> "1", scan_status |-> st, command |-> "c"]),
                lists |-> [finding |-> l]]
Scans == {Scan(st, l) : st \in {"passed", "failed"}, l \in {<< >>, <<Problem("low")>>, <<Problem("high"), Problem("low")>>}}
Artifact == Join(ReleaseId, [name |-> "n", target |-> "t", package |-> "zip", binary |-> "eva",
                digest |-> Release!Digest("elf"), size |-> 3, signed |-> TRUE, builder |-> "b",
                provenance_commit |-> "commit-a", build_command |-> "c c", build_profile |-> "release", sbom |-> "s",
                scan_status |-> "passed", key_id |-> "k", algorithm |-> "a", value |-> <<"k", "v">>])
ArtifactDocument == [head |-> Release!Sign(Artifact, Release!LocalKey), lists |-> Nothing]
ChangedArtifacts == {[Artifact EXCEPT ![f] = CASE f = "size" -> 4 [] f = "signed" -> FALSE
                        [] f = "digest" -> Release!Digest("x") [] f = "value" -> <<"q", "q">> [] OTHER -> "other"] :
                        f \in DOMAIN Artifact}
Compatibility == Join(Join(Release!McpExpected, [f \in Release!McpTrue |-> TRUE]),
                      Join([f \in Release!McpPositive |-> 1],
                           Join([f \in Release!McpZero |-> 0], Pair("tls_protocol", "TLSv1_3"))))
ReleaseDocs == [artifact |-> ArtifactDocument, distribution |-> Distributed,
                security_scan |-> Scan("passed", <<Problem("low")>>), mcp_compatibility |-> Compatibility,
                benchmark |-> Benchmark("passed", <<Measure("release.check", "check wall time", 5, 5)>>)]
DocumentSets == {[ReleaseDocs EXCEPT !.distribution = d] : d \in Distributions}
                \cup {[ReleaseDocs EXCEPT !.benchmark = Benchmark("failed", << >>)],
                      [ReleaseDocs EXCEPT !.mcp_compatibility.abort_readers_after = 1]}
                \cup {[t \in DOMAIN ReleaseDocs \ D |-> ReleaseDocs[t]] : D \in SUBSET DOMAIN ReleaseDocs}
ProofOf(t) == [format |-> "evidence.v1", kind |-> "measurement", source |-> <<t>>, source_commit |-> "commit-a",
               environment |-> <<"linux">>, executor |-> [prefix |-> t, parts |-> <<"1", "2", "job">>],
               timestamp |-> 1000, subject_digest |-> Release!Digest(<<t>>)]
CandidateOf(t) == [envelope |-> ProofOf(t), bytes |-> <<t>>, size |-> 3,
    evidence |-> [version |-> <<"1.11.4">>, source_tag |-> Tag, source_commit |-> "commit-a",
                  provenance_commit |-> "commit-a", digest |-> Release!Digest(<<t>>), size |-> 3]]
Candidates == [t \in Release!Types |-> CandidateOf(t)]
ProductionManifest ==
    [scope |-> "production", source_commit |-> "commit-a",
     entries |-> [i \in 1..5 |-> LET t == Release!EvidenceTypes[i] IN
                    [type |-> t, evidence |-> t, envelope |-> "env-" \o t,
                     envelope_digest |-> Release!CanonicalDigest(ProofOf(t)),
                     subject |-> IF t = "artifact" THEN "s" ELSE "none"]]]
ManifestDigest(m) == Release!Digest(Release!ManifestFields(m))
Honest == [manifest |-> ProductionManifest, commit |-> "commit-a", candidates |-> Candidates,
           policy |-> Release!GithubActions(1100, "1", "2", ManifestDigest(ProductionManifest))]
Resealed(b) == [b EXCEPT !.policy.manifestDigest = ManifestDigest(b.manifest)]
Redone(b) == Resealed([b EXCEPT !.manifest.entries = [i \in 1..5 |->
    [b.manifest.entries[i] EXCEPT !.envelope_digest = Release!CanonicalDigest(b.candidates[Release!EvidenceTypes[i]].envelope)]]])
OtherEnvelopes(e) == {[e EXCEPT !.kind = "operator"], [e EXCEPT !.timestamp = 1106], [e EXCEPT !.timestamp = 1100 - 1441],
                      [e EXCEPT !.executor.parts[1] = "7"], [e EXCEPT !.executor.prefix = "x"],
                      [e EXCEPT !.source_commit = "commit-b"], [e EXCEPT !.subject_digest = Release!Digest(<<"zz">>)]}
Altered ==
    UNION {{Redone([Honest EXCEPT !.candidates[t].envelope = e]) : e \in OtherEnvelopes(ProofOf(t))} : t \in Release!Types}
    \cup {[Honest EXCEPT !.candidates["artifact"].bytes = <<"other">>], [Honest EXCEPT !.commit = "commit-b"],
          [Honest EXCEPT !.manifest.scope = "alpha"],
          [Honest EXCEPT !.candidates = [t \in Release!Types \ {"benchmark"} |-> Candidates[t]]],
          Resealed([Honest EXCEPT !.candidates = [t \in Release!Types \ {"mcp_compatibility"} |-> Candidates[t]],
                                  !.manifest.entries = SubSeq(@, 1, 4)]),
          [Honest EXCEPT !.policy.manifestDigest = ManifestDigest([ProductionManifest EXCEPT !.scope = "alpha"])],
          [Honest EXCEPT !.candidates["security_scan"].evidence.version = <<"1.11.5">>],
          Resealed([Honest EXCEPT !.manifest.entries[2].evidence = "artifact"]),
          Resealed([Honest EXCEPT !.manifest.entries[2].envelope_digest = << >>])}

(* Backups and the evidence of a service command                             *)

\* Entries of the ordinary kind, paths only the backup takes, and texts that break
\* lines: into a line without a key, a stray one, an entry and half of an entry.
ArchiveEntry == [path : {<<"p">>, <<"q">>}, bytes : {<< >>, <<<<0, 1>>>>, <<<<1, 1>>, <<0, 0>>>>}, redacted : BOOLEAN]
PathOnly(path) == [path |-> path, bytes |-> << >>, redacted |-> FALSE]
OddPaths == {<<"/", "p">>, <<"p", "/">>, <<"p", "/", "/", "q">>, <<".", "/", "p">>, <<"p", ":">>, <<" ", "p">>, <<"p", "|">>,
             <<"..", "/", "p">>, <<" ">>, <<"p", "\\", "q">>, <<"p", "/", "q">>}
InjectedEntry == Archive!EntryLines([path |-> <<"p">>, bytes |-> <<<<1, 0>>>>, redacted |-> FALSE])
BrokenTexts == [unkeyed |-> <<Archive!Line(Archive!Unkeyed, "")>>, stray |-> <<Archive!Line("note", "")>>,
                entry |-> InjectedEntry, pathless |-> Tail(InjectedEntry), byteless |-> SubSeq(InjectedEntry, 1, 3),
                bare |-> <<InjectedEntry[1]>>]
Texts == {"project", "created_by", "reason"}
ArchiveInputs == [entries : Words(ArchiveEntry, 2) \cup Words({PathOnly(path) : path \in OddPaths}, 2), broken : {{}}, by : {"none"}]
                 \cup [entries : Words(ArchiveEntry, 1), broken : {{t} : t \in Texts}, by : DOMAIN BrokenTexts]
PlanOf(i) == [t \in Texts |-> IF t \in i.broken THEN BrokenTexts[i.by] ELSE << >>] @@ [entries |-> i.entries]
BackupPlans == [id : {"b"}, payload : Words({0, 1}, 3) \ {<< >>}, signing : {[id |-> "k", secret |-> 1]},
                encryption : {<< >>, <<[id |-> "e", secret |-> 0]>>}, remote : {<< >>, <<"s3">>}]
OtherKeys == {[id |-> "f", secret |-> 0], [id |-> "e", secret |-> 1], [id |-> "k", secret |-> 0]}
RestoreSteps == {s \in [op : {"copy", "replace", "delete"}, path : {"relative"}, source : {"none", "relative"},
                        expected : {"none", "sha256"}, pre : {"none", "sha256"}] : Archive!MutationStepValid(s)}
RecordOf(k, b) == [key |-> k, bytes |-> b, digest |-> Archive!Digest(b)]
StoredRecords == {RecordOf(k, b) : k \in {"backup", "pre"}, b \in {<<0>>, <<1>>}}
                 \cup {[RecordOf("backup", <<0>>) EXCEPT !.bytes = <<1>>]}
RestorePlans == [steps : Words(RestoreSteps, 2), backup_key : {"backup"}, backup_digest : {Archive!Digest(<<0>>)},
                 pre_key : {<< >>, <<"pre">>}, pre_digest : {Archive!Digest(<<1>>)}]
WrittenPlans == [unknown : BOOLEAN, plan_id : BOOLEAN, backup_id : BOOLEAN, backup_digest : BOOLEAN, pre_id : BOOLEAN,
                 pre_digest : BOOLEAN, steps : Words([op : {"copy", "replace", "delete", "other"}, path : {"relative", "absolute"},
                                                     source : {"none", "relative"}, expected : {"none", "sha256"},
                                                     pre : {"none", "sha256"}], 1)]
CommandRuns == [ended : {"exited", "timed_out", "signalled"}, code : {"0", "1"}, out : 0..3, err : 0..3, limit : 0..3,
                timeout : {0, 1}]
OtherRuns == [ended : {"exited", "timed_out"}, code : {"0", "1"}, out : 0..2, err : {1}, limit : 1..2, timeout : {1}]
Trees == [kill : {"ok", "ESRCH", "EPERM"}, wait : {"ok", "failed"}, probe : {"ESRCH", "ok"}]
ServiceArguments == {<<<<"daemon">>, <<"__service-entry">>>> \o w : w \in Words({<<"x">>, <<"daemon">>, <<"--port">>}, 3)}

-----------------------------------------------------------------------------
(* Formats written in one place and read in another                          *)

ChunkedBodies == [chunks : Words([size : {0, 1, 3}, sent : {0, 1, 3}, delim : BOOLEAN], 2), complete : BOOLEAN,
                  trailers : {<< >>, <<"x">>, <<"content-length">>}]
HttpHeads == [framing : {"ok"} \cup DOMAIN Server!FramingStatus, host : {"bound", "other", "absent"},
              control : {{}, {"te"}}, length : {"absent", "zero", "some", "over", "unreadable"},
              method : {"POST", "DELETE", "GET"}]
HeadOf(i, g, o, c, a, b) ==
    [framing |-> i.framing, host |-> i.host, control |-> i.control, length |-> i.length, method |-> i.method,
     target |-> g, origin |-> o, contentType |-> c, accept |-> a, body |-> b]
ContentTypes == [media : {"application/json", "t"}, parameters : {{}, {"charset=utf-8"}, {"x"}}]
AcceptLists == Words([media : {"application/json", "application/*", "*/*", "text"},
                      q : {<< >>, <<"0">>, <<"1">>, <<"bad">>, <<"0", "1">>}], 2)
ToolSchemas == [unknown : {{}}, type : {"object"}, additional : {"false"},
                properties : UNION {[d -> {"string", "number"}] : d \in SUBSET {"a", "b"}},
                required : {<< >>, <<"a">>, <<"b">>, <<"a", "b">>, <<"a", "a">>}]
ToolArguments == UNION {[d -> {"string", "number"}] : d \in SUBSET {"a", "b", "c"}}
ResponseHeaders == Words({[name |-> "chunked", n |-> 0], [name |-> "content-length", n |-> 0], [name |-> "content-length", n |-> 2],
                          [name |-> "close", n |-> 0], [name |-> "keep-alive", n |-> 0], [name |-> "gzip", n |-> 0]}, 3)
ToolOf(s, n) == [id |-> n, name |-> "stable", description |-> "display", schema |-> s]
ServerConfigs == [pathValid : BOOLEAN, boundsValid : BOOLEAN, originsValid : BOOLEAN, loopback : BOOLEAN, sideEffects : BOOLEAN,
                  origins : {{}, {"own"}, {"own", "other"}, {"other"}}]

FieldTexts == Words({"%", "2", "5", "0", "A", "\n", "|"}, 4)
AuditRecords == {[sequence |-> "1", action |-> t, outcome |-> <<"=">>, message |-> m, fields |-> f] :
    t \in {<< >>, <<"a">>, <<"%", "|">>, <<"%", "0", "A">>}, m \in {<< >>, <<<< >>>>, <<<<"a", "\n">>>>},
    f \in {<< >>, <<<<<<"|">>, <<"%", "=">>>>>>, <<<<<< >>, <<"%", "0", "A">>>>, <<<<"a">>, << >>>>>>}}
Optional == {<< >>, <<<< >>>>, <<<<"a">>>>}
EventRecords == {[status |-> s, event_id |-> <<"e">>, target |-> t, target_value |-> <<"x">>, payload |-> p,
                  payload_value |-> v, options |-> <<o, q, << >>, o>>, consumer |-> q, error |-> e] :
    s \in Store!EventStatuses, t \in Store!TargetKinds, p \in Store!PayloadKinds, v \in {<< >>, <<"b">>},
    o \in Optional, q \in Optional,
    e \in {<< >>, <<[kind |-> "timeout", context |-> << >>]>>, <<[kind |-> "internal", context |-> <<<<"k">>, << >>>>]>>}}
StateFiles == {Store!StateToStorage([version |-> v, generation |-> g, key |-> k, value |-> w]) :
                  v \in 0..1, g \in 0..1, k \in {<< >>, <<"k">>}, w \in {<< >>, <<"v">>}}
LeaseFiles == {Store!LeaseToStorage([state |-> s, pid |-> p, token |-> t, generation |-> g, heartbeat |-> h, expires |-> e]) :
                  s \in {"active", "released", "odd"}, p \in 0..1, t \in {<< >>, <<"t">>}, g \in 0..1, h \in 0..2, e \in 0..2}
EventOps == [kind : {"ack", "fail"}, by : {<<"x">>, <<"y">>}, error : {[kind |-> "timeout", context |-> <<<<"k">>>>]}]
Appended == [status |-> "appended", event_id |-> <<"e">>, target |-> "agent", target_value |-> <<"x">>, payload |-> "text",
             payload_value |-> <<"b">>, options |-> <<<<<<"a">>>>, << >>, << >>, << >>>>, consumer |-> << >>, error |-> << >>]
LogRecords == Words([sequence : 1..3, event_id : {"e", "f"}], 3)
LayoutNames == {<< >>, <<".">>, <<".", ".">>, <<"a">>, <<"a", "/">>, <<"a", "\\">>, <<"b", " ">>, <<"b">>}
LayoutDocs == {SetToSeq({<<d, IF d = odd THEN n ELSE <<"dir">>>> : d \in Store!LayoutDirs})
                  \o << <<"schema_version", <<v>>>>, <<"layout_version", <<"eva.durable.v1">>>> >> :
               odd \in Store!LayoutDirs, n \in LayoutNames, v \in {"1", "2"}}
Metadata == [key : {<<"a">>, <<"%">>}, digest : {<<"d">>}, size : {0, 7}, content_type : {<<"text">>, <<"octets">>},
             retention : {<<"expire">>, <<"retain">>}, retain_until : {<< >>, <<"9">>}]
ArtifactKeys == Words(Words({"a", ".", "/", "\\"}, 2), 2)

\* Records of tasks and providers and the daemon's files: every scalar is absent, a
\* plain text or one with the formats' own characters, the numbers and flags as given.
StoredTexts == {<< >>, <<"a">>, <<"%", "|", "=">>}
Envelopes == {<< >>}
    \cup {<<[kind |-> <<"k">>, agent |-> <<"a">>, input |-> "inline", value |-> v, digest |-> Store!Sha256(v), key |-> <<"%">>,
             max |-> <<"2">>, backoff |-> <<"0">>, timeout |-> t]>> : v \in {<< >>, <<"b">>}, t \in {<< >>, <<"5">>}}
    \cup {<<[kind |-> <<"k">>, agent |-> <<"a">>, input |-> "artifact", value |-> <<"r", "|">>, digest |-> <<"d">>, key |-> <<"i">>,
             max |-> <<"2">>, backoff |-> <<"1">>, timeout |-> << >>]>>}
TaskFields(version, flag, text, replay) ==
    [n \in ToSet(Store!TaskHeader \o Store!ExecutionNames \o Store!ReplayNames \o Store!OutcomeNames) |->
        CASE n = "record_version" -> <<IF version = 0 THEN "0" ELSE "1">> [] n = "owner_generation" -> <<IF version = 0 THEN "0" ELSE "3">>
          [] n = "task_id" -> <<"t">> [] n = "status" -> <<"running">> [] n = "attempts" -> <<"1">> [] n = "retry_max_attempts" -> <<"2">>
          [] n \in {"cancel_requested", "cancel_accepted"} -> <<flag>> [] n = "replay_event_id" -> replay
          [] n = "replay_delivery_index" -> IF replay = << >> THEN << >> ELSE <<"0">>
          [] n \in {"result_size_bytes", "retry_ready_at_ms", "heartbeat_at_ms", "deadline_at_ms"} -> IF text = << >> THEN text ELSE <<"7">>
          [] n = "error_retryable" -> IF text = << >> THEN text ELSE <<flag>> [] OTHER -> text]
TaskRecords == {[envelope |-> e, field |-> TaskFields(v, f, t, r), lists |-> [log |-> l, dead_letter |-> << >>, replay |-> l]] :
    e \in Envelopes, v \in 0..1, f \in {"true"}, t \in StoredTexts \ {<<"a">>}, r \in {<< >>, <<"e">>},
    l \in {<< >>, <<<<<<"1">>, <<"|">>, <<"a", "%">>>>, <<<<"2">>, << >>, << >>>>>>}}
ProviderRecords == {[field |-> [n \in ToSet(Store!ProviderNames) |->
        IF n \in ToSet(Store!ProviderOptional) \cup {"pid", "process_start_token", "process_group_id", "job_id", "restart_due_at_ms"}
        THEN (IF t = << >> \/ n \in {"last_error", "process_start_token", "job_id"} THEN t ELSE <<"7">>)
        ELSE IF n = "active" THEN <<"true">> ELSE IF n \in {"restart_state", "start_command", "restart_policy"} THEN u ELSE <<"1">>], audit |-> a] :
    t \in StoredTexts, u \in StoredTexts, a \in Words(StoredTexts \ {<<"a">>}, 2)}
ControlRequests == {[version |-> v, generation |-> g, envelope |-> IF v = "1" THEN << >> ELSE e,
        field |-> [n \in ToSet(Store!ControlHead \o Store!ControlRest) |->
            CASE n = "operation" -> <<o>> [] n = "timeout_ms" -> w [] n = "agent_id" -> a
              [] n \in {"request_id", "created_at_ms"} -> <<"1">> [] n = "inflight_tasks" -> IF t = << >> THEN t ELSE <<"1", "0">> [] OTHER -> t]] :
    v \in {"1", "2", "3"}, g \in {<< >>, <<"1">>}, e \in {x \in Envelopes : x = << >> \/ x[1].value # << >>},
    o \in {"submit_task", "shutdown"}, w \in {<< >>, <<"2">>, <<"1", "5", "0", "0", "1">>}, a \in {<< >>, <<"a">>, <<"b">>},
    t \in {<< >>, <<"a">>}}
WellFormedRequests == {r \in ControlRequests : r.version # "3" => r.generation = << >>}
LeaseReports == {<< >>} \cup {<<[n \in ToSet(Store!LeaseGroup) |->
        CASE n = "lease_state" -> <<s>> [] n = "lease_expires_at_ms" -> <<e>> [] n \in {"lease_owner_live", "lease_expired"} -> <<l>>
          [] n = "lease_generation" -> <<g>> [] OTHER -> <<"1">>]>> :
    s \in {"active", "released", "odd"}, e \in {"1", "2"}, l \in {"true", "false"}, g \in {"1"}}
    \cup {<<[n \in ToSet(Store!LeaseGroup) |-> <<"0">>]>>}
Responses == {[field |-> [n \in ToSet(Store!ResponseRequired \o Store!ResponseOptional) |->
                    IF n \in ToSet(Store!ResponseOptional) \cup {"message", "trace_id"} THEN t ELSE <<IF n = "operation" THEN "status" ELSE "true">>],
               state |-> s, lease |-> l, shutdown |-> d, audit |-> a] :
    t \in StoredTexts \ {<<"a">>}, l \in LeaseReports, d \in {<< >>, <<[n \in ToSet(Store!ShutdownGroup) |-> <<IF n = "shutdown_request_count" THEN "1" ELSE "true">>]>>},
    s \in {<< >>} \cup {<<[n \in ToSet(Store!StateGroup \o Store!StateStopped) |-> IF n = "state_stopped_at_ms" THEN z ELSE <<"7">>]>> :
                           z \in {<< >>, <<"9">>}},
    a \in {<< >>, <<<< >>, <<",">>>>}}
DaemonIdentity == [pid |-> <<"1">>, process_start_token |-> <<"s">>, generation |-> <<"1">>]
Filled(names, odd, value) == [n \in ToSet(names) |->
    IF n = odd THEN value
    ELSE CASE n = "format" -> <<IF names = Store!FrameNames THEN "frame" ELSE IF names = Store!PidNames THEN "pid.v1" ELSE "evidence">>
           [] n = "phase" -> <<IF names = Store!FrameNames THEN "ready" ELSE "drained">> [] n = "process_start_token" -> <<"s">>
           [] n \in {"mcp_http_sessions", "mcp_http_readers", "mcp_http_cleanup_pending"} -> <<"0">> [] n = "error_kind" -> << >>
           [] n = "cleanup_complete" -> <<"false">> [] OTHER -> <<"1">>]
OddValues == {<< >>, <<"0">>, <<"1">>, <<"s">>, <<"claimed">>, <<"failed">>, <<"ready">>, <<"true">>}
DaemonFiles ==
    UNION {{Store!WireLines(names, IF names = Store!EvidenceNames THEN {"process_start_token"} ELSE {}, Filled(names, odd, v)) :
               odd \in ToSet(names), v \in OddValues} :
           names \in {Store!EvidenceNames, Store!FrameNames, Store!PidNames, Store!DaemonStateNames,
                      Append(Store!DaemonStateNames, "stopped_at_ms")}}
    \cup {Store!WireLines(Store!FrameNames, {}, [Filled(Store!FrameNames, "generation", g) EXCEPT !["phase"] = <<p>>,
              !["error_kind"] = e, !["report_digest"] = d, !["cleanup_complete"] = <<c>>]) :
          g \in {<< >>, <<"0">>, <<"1">>}, p \in {"claimed", "ready", "failed"}, e \in {<< >>, <<"s">>}, d \in {<< >>, <<"d">>},
          c \in {"true", "false"}}
    \cup {<<<<"plain", <<p>>>>>> : p \in {"0", "1"}}
EffectRecords == {LET r == [n \in ToSet(Store!EffectNames) |->
        CASE n = "format" -> <<"ledger.v1">> [] n = "state" -> <<s>> [] n = "committed_at_ms" -> c [] n = "result_digest" -> d
          [] n = "idempotency_key" -> <<k>> [] n = "result_size_bytes" -> d [] n = "prepared_attempt" -> <<a>> [] OTHER -> <<"3">>]
    IN  [r EXCEPT !["operation_digest"] = IF g THEN Store!OperationDigest(r) ELSE @] :
    s \in {"prepared", "committed", "odd"}, c \in {<< >>, <<"2">>, <<"3">>}, d \in {<< >>, <<"4">>}, k \in {"k", "l"}, a \in {"0", "1"},
    g \in BOOLEAN}
SealedEffects == {r \in EffectRecords : r["state"] # <<"odd">> /\ r["operation_digest"] = Store!OperationDigest(r)
                                        /\ r["committed_at_ms"] # <<"2">>}

\* Memory and knowledge, with character codes as text.
MemoryTexts == Words({49, 58, 59, 97}, 3) \cup {[i \in 1..12 |-> 97], <<61, 10, 32>>}
MemoryRecords == [key : {<<97>>, <<95, 97>>}, value : MemoryTexts, visibility : {"private"},
                  owner : {<<<<97>>>>, <<<<97, 95, 95>>>>}, version : {1, 12}, expires : {<< >>, <<107>>},
                  compression : {"none", "run_length"}]
               \cup [key : {<<97>>}, value : {<<97>>}, visibility : {"global"}, owner : {<< >>}, version : {1},
                     expires : {<< >>}, compression : {"none"}]
KnowledgeItems == [id : {<<97>>, <<97, 47>>, <<32, 97>>}, title : {<< >>, <<61>>}, digest : {<<49>>},
                   summary : {<<32>>, <<97>>}, content : {<<97, 10>>}, tags : SUBSET {<<97>>, <<98>>, <<97, 98>>},
                   request : {<< >>, <<<<49>>>>}]
OwnedKeys == {[visibility |-> "global", owner |-> << >>, key |-> k] : k \in {<<97>>, <<95>>}} \cup
             {[visibility |-> "private", owner |-> <<o>>, key |-> k] :
                  o \in Words({95, 54, 49}, 3) \ {<< >>}, k \in {<<97>>, <<97, 97>>}}
MemoryWrites == [key : {1, 2}, value : {<<<<"w">>>>, <<<<"secret", "=", "x">>>>}, visibility : {"private"},
                 owner : {"a", "b"}, expires : {0, 1}]
             \cup [key : {1, 2}, value : {<<<<"sk">>>>}, visibility : {"global"}, owner : {"", "a"}, expires : {0, 2}]
Item(id, name, title, summary, content, tags) ==
    [id |-> id, name |-> name, uri |-> << >>, title |-> title, summary |-> summary, content |-> content, tags |-> tags]
SearchItems == {Item(1, "one", <<<<"q">>>>, <<<<"w">>>>, <<<<"q">>, <<"secret", ":", "x">>>>, {}),
                Item(2, "q", <<<<"w">>>>, <<<<"w">>>>, <<<<"w">>>>, {"t"}),
                Item(3, "x", <<<<"w">>>>, <<<<"secret", ":", "q">>>>, <<<<"w">>>>, {"t"}),
                Item(4, "z", <<<<"w">>>>, <<<<"w">>>>, <<<<"w">>>>, {"q"})}
ContextRequests == [agent : {"a", "b"}, query : {"q"}, private : {0, 2}, global : {1}, knowledge : {1}, at : {0, 1, 2}]
    \cup [agent : {"a"}, query : {"q"}, private : {1}, global : {2}, knowledge : {2}, at : {1}]
Retrievals == [status : {"error", "accepted", "completed", "failed", "timeout"}, item : SearchItems, readable : BOOLEAN]

\* Providers: HTTP answers in pieces, origins, users, skill input and working directories.
HttpTexts == Words({"s", "r", "n", "x"}, 4) \cup {<<"s", "r", "n", "r", "n">> \o w : w \in Words({"x", "r"}, 3)}
UnixUsers == {Transport!Credentials(u, g, gr) : u \in {0, 1}, g \in {0, 1}, gr \in {{}, {7}}}
SkillMembers == [key : {<< >>, <<"x">>, <<"q", "b">>}, space : {<< >>, <<"w">>},
                 raw : {<< >>, <<"x">>, <<"[", "x", ",", "q", "}", "q", "]">>, <<"{", "q", "b", "q", ",", "q", ":", "x", "}">>},
                 text : {<< >>, <<"b">>, <<"q", "x">>}]
PathEntries == {Transport!Missing} \cup [kind : {"dir", "file", "link"}, mine : BOOLEAN, shared : BOOLEAN]
Handles == [skill : {"", "s"}, kind : {"workflow_skill", "other"}, gate : {"normal"}, inputFits : BOOLEAN,
            inputValid : BOOLEAN, credentialHeader : BOOLEAN, command : {"none", "c"}, runAs : {"current", "unix"},
            credentials : BOOLEAN, scopeValid : BOOLEAN, methodValid : BOOLEAN, headersResolve : BOOLEAN]
Origin == <<"http", "h", ":", "7">>
HttpCalls == [scheme : {"http", "https"}, rest : {<<"h", ":", "7", "/", "x">>, <<"h", "/">>, <<"h", ":", "7">>},
              method : {"GET", "TRACE"}, headers : {{}, {<<<<"a">>, <<"x">>>>}, {<<<<"a">>, <<"r", "n">>>>}}]
HttpPeers == [resolves : {TRUE}, timeout : {0, 1}, connects : BOOLEAN, writes : BOOLEAN]
SkillSchemas == [type : {"object", "array"}, required : {{}, {<<"x">>}},
                 properties : {Pair(<<"x">>, [string |-> s, enum |-> e]) : s \in BOOLEAN, e \in {{}, {<<"b">>}}}]
FoundFiles == [name : {<<<<"a">>>>, <<<<".", ".">>>>, <<<<"a">>, <<"7">>>>},
               at : [kind : {"dir", "file", "link", "special"}, mine : BOOLEAN, shared : {FALSE}]]
ProcessRecords == [pid : {<<>>, <<0>>, <<1>>}, token : {<<>>, <<"">>, <<"t">>}, attempt : 0..1,
                   groupId : {<<>>, <<1>>}, job : {<<>>, <<"j">>}]
SecretRefs == Words({[env |-> "e1", ref |-> "r1"], [env |-> "e1", ref |-> "r2"], [env |-> "e2", ref |-> "r2"]}, 2)
SecretValues == [{"r1", "r2", "e1", "e2", "e3"} -> {"a", "b", "", "none"}]
DeviceStates == {ds \in SUBSET [device : {1, 2}, health : {"failed", "available"}, bus : {"usb"}, path : {"p"}] :
                    \A x, y \in ds : x.device = y.device => x = y}

-----------------------------------------------------------------------------
(* One evaluation                                                            *)

Init == component = "none" /\ input = << >>

Evaluate(name, inputs) ==
    /\ component = "none"
    /\ component' = name
    /\ \E i \in inputs : input' = i

EvaluateConfiguration ==
    \/ Evaluate("layers", LayerInputs)
    \/ Evaluate("digest", (DOMAIN Documents) \X (DOMAIN Documents))
    \/ Evaluate("project", DiskInputs)
    \/ Evaluate("narrowing", (0..3) \X (1..3) \X (1..4) \X (1..4))
    \/ Evaluate("documents", (DOMAIN Policies) \X (DOMAIN Policies) \X (DOMAIN Policies))
    \/ Evaluate("defaults", [1..3 -> 1..2])
    \/ Evaluate("topics", TopicPatterns \X Topics)
    \/ Evaluate("manifests", ManifestInputs)
    \/ Evaluate("origins", Origins)
    \/ Evaluate("manifest digest", DigestedManifests)
    \/ Evaluate("options", CliTables)
    \/ Evaluate("arguments", CliArgs)
    \/ Evaluate("loading", ProjectInputs)
    \/ Evaluate("mutation", DOMAIN Config!MutationInventory \cup {"other"})
    \/ Evaluate("command line", CliLines)
    \/ Evaluate("service entry", [1..4 -> EntryWords])
    \/ Evaluate("discovery", FoundAdapters)
    \/ Evaluate("partition", CachedSets \X OtherFinds)
    \/ Evaluate("providers", Descriptors)
    \/ Evaluate("gate", GateOps)
    \/ Evaluate("shadow", ShadowScripts)
    \/ Evaluate("driver", {"c", "hardware.raw.write"})
    \/ Evaluate("reload", Reloads)
    \/ Evaluate("hotplug", BOOLEAN \X Hardware!Healths \X Hardware!Healths)
    \/ Evaluate("bind", {"absent", "disabled", "enabled"})

EvaluateEvidence ==
    \/ Evaluate("platform", {Evidence})
    \/ Evaluate("envelope", {e.envelope : e \in {x \in TamperedEvidence : x.envelope.format = "evidence.v1"}})
    \/ Evaluate("manifest", EvidenceManifests)
    \/ Evaluate("timestamp", Timestamps)
    \/ Evaluate("mcp report", McpFlags \X McpNumbers)
    \/ Evaluate("calendar", (1970..2110) \X (1..12))
    \/ Evaluate("distribution", Distributions)
    \/ Evaluate("benchmark", Benchmarks)
    \/ Evaluate("scan", Scans)
    \/ Evaluate("signature", {Artifact})
    \/ Evaluate("production", {Honest})
    \/ Evaluate("report", DocumentSets)
    \/ Evaluate("archive", ArchiveInputs)
    \/ Evaluate("backup", BackupPlans)
    \/ Evaluate("restore", RestorePlans)
    \/ Evaluate("written plan", WrittenPlans)
    \/ Evaluate("migration", [source : {"v1", "v2"}, reversible : BOOLEAN])
    \/ Evaluate("command", CommandRuns)
    \/ Evaluate("entry", ServiceArguments)

EvaluateFormats ==
    \/ Evaluate("json", Words({"{", "}", "[", "]", ":", ",", "a", "0"}, 5))
    \/ Evaluate("scanner", Words({"{", "}", "[", "]", ",", ":", "s", "p"}, 4))
    \/ Evaluate("lines", Words({"\n", "d", "e", ":", "x", "q"}, 4))
    \/ Evaluate("string", Words({"quote", "\\", "ctl", "a"}, 4))
    \/ Evaluate("chunks", ChunkedBodies)
    \/ Evaluate("head", HttpHeads)
    \/ Evaluate("accept", AcceptLists)
    \/ Evaluate("arguments of tools", ToolSchemas)
    \/ Evaluate("number", Words({"-", "0", "1", ".", "e", "+"}, 5))
    \/ Evaluate("response", ResponseHeaders)
    \/ Evaluate("envelope kind", SUBSET {"jsonrpc", "id", "method", "result", "error"})
    \/ Evaluate("surface", ToolSchemas)
    \/ Evaluate("server", ServerConfigs)
    \/ Evaluate("field", FieldTexts)
    \/ Evaluate("audit", AuditRecords)
    \/ Evaluate("event", EventRecords)
    \/ Evaluate("event log", Words(EventOps, 3))
    \/ Evaluate("loaded log", LogRecords)
    \/ Evaluate("layout", LayoutDocs)
    \/ Evaluate("metadata", Metadata)
    \/ Evaluate("artifact key", ArtifactKeys)
    \/ Evaluate("state", StateFiles)
    \/ Evaluate("lease", LeaseFiles)
    \/ Evaluate("task record", TaskRecords)
    \/ Evaluate("provider record", ProviderRecords)
    \/ Evaluate("control request", WellFormedRequests)
    \/ Evaluate("control response", Responses)
    \/ Evaluate("daemon file", DaemonFiles)
    \/ Evaluate("effect record", EffectRecords)
    \/ Evaluate("memory", MemoryRecords)
    \/ Evaluate("knowledge", KnowledgeItems)
    \/ Evaluate("paths", OwnedKeys)
    \/ Evaluate("context", [1..2 -> MemoryWrites])
    \/ Evaluate("search", SUBSET SearchItems)
    \/ Evaluate("http", HttpTexts)
    \/ Evaluate("user", UnixUsers)
    \/ Evaluate("host", Words({"h", ":", "7", "/", "@"}, 3))
    \/ Evaluate("skill", Words(SkillMembers, 1))
    \/ Evaluate("directory", PathEntries)
    \/ Evaluate("invocation", Handles)
    \/ Evaluate("http call", HttpCalls)
    \/ Evaluate("skill schema", SkillSchemas)
    \/ Evaluate("collected", Words(FoundFiles, 2))
    \/ Evaluate("segment", Words({"a", "_", ".", "/", " "}, 3))
    \/ Evaluate("identity", ProcessRecords)
    \/ Evaluate("redaction", SecretRefs)
    \/ Evaluate("devices", DeviceStates)

Next == EvaluateConfiguration \/ EvaluateEvidence \/ EvaluateFormats

Spec == Init /\ [][Next]_vars

-----------------------------------------------------------------------------
(* What the evaluations must give                                            *)

\* Configuration decides what its documents say and nothing more.  The merged
\* document follows the rank of the layers whatever order they were read in;
\* two documents have one digest only if they differ under secret keys alone, and
\* so have two projects while no layer renames the environment.  A policy layer only takes rights away, a
\* request nobody allowed is denied, and topic patterns match segment by segment.
\* A manifest accepted for production holds no plaintext credential and one form
\* of server, and its digest is no other manifest's; origins differ when scheme,
\* host or port do, and a project that loads is closed under its references.  Every mutation has one gate.  Options mean the
\* same in any order and under every synonym, and the exit code tells whether a
\* command ran.  Discovery rejects what is disabled, routing asks only providers
\* the Agent is allowed, a candidate gets work once its scripts answered in a
\* shadow load, and a reload swaps once.
ConfigurationIsExact ==
    CASE component = "layers"    -> Config!MergeFollowsRank(LayersOf(input))
      [] component = "digest"    -> Config!DigestIsExact(Documents[input[1]], Documents[input[2]])
      [] component = "project"   -> /\ Config!DigestCoversLoaded(DiskOf(input), Schemas)
                                   /\ \A other \in Edited(input) : Config!DigestSeesEdits(DiskOf(input), DiskOf(other), Schemas)
      [] component = "narrowing" ->
            \A i \in 0..3, j \in 1..3, k \in 1..4 : Config!NarrowingIsSafe(
                Config!PolicyLayer(Permissions(input[1], input[2], input[3]), Sandboxes[1 + (input[4] % 3)]),
                Config!PolicyLayer(Permissions(i, j, k), Sandboxes[j]), Permissions(input[4] - 1, j, input[3]))
      [] component = "documents" ->
            Config!DocumentsOnlyNarrow(<<Policies[input[1]], Policies[input[2]]>>, Policies[input[3]])
      [] component = "defaults"  -> \A a \in Config!HighRiskActions : Config!DefaultsDeny(ActionRequest(a, input))
      [] component = "topics"    -> Config!PatternsAgree(input[1], input[2])
      [] component = "manifests" ->
            Config!NoPlaintextInProduction(ManifestOf(input)) /\ Config!FormsAreExclusive(ManifestOf(input))
      [] component = "manifest digest" -> \A k \in DigestedManifests : Config!DigestNamesTheManifest(input, k)
      [] component = "origins"   -> \A v \in Origins : Config!OriginsAreExact(input, v)
      [] component = "options"   ->
            /\ \A w \in CliWhole(input) : Cli!MissingValueIsRefused(input, w)
            /\ \A v \in CliValues, w \in CliWhole(input) : Cli!SynonymsAgree(input, v, w)
            /\ \A p, q \in CliPairs(input) : Cli!OrderIsIrrelevant(input, p, q)
      [] component = "arguments" ->
            Cli!ValueFollowsOption(Cli!EmitTable, input) /\ Cli!ValueFollowsOption(Cli!CapabilityCallTable, input)
      [] component = "loading"   -> 
            Config!LoadedIsRoutable(DiskOf(<<input[5][1], 1, 1, 1, input[5][2]>>), Schemas, ProjectOf(input), <<"/", "p">>)
      [] component = "mutation"  -> \A s, c, a \in BOOLEAN : Config!MutationsAreGated(input, s, c, a)
      [] component = "command line" -> \A child \in BOOLEAN, r \in {"ok", "timeout", "internal", "not_found"} :
            Cli!ExitTellsTheOutcome(input[1] \o input[2], child, r)
      [] component = "service entry" -> \A i \in 0..7 : Cli!ServiceEntryIsExact(input, ShuffledEntry(i, input))
      [] component = "discovery" -> \A c \in FoundCapabilities, o \in BOOLEAN : Discover!DisabledIsRejected(
            [adapters |-> <<input>>, capabilities |-> <<c>>, omx |-> o, registry |-> o])
      [] component = "partition" -> Discover!PartitionIsExact(Cached(input[1]), input[2])
      [] component = "providers" -> \A g \in AgentGrants, r \in Replies, e \in {"none", "p", "q", "r"} :
            Dispatch!ProvidersAreAuthorized(<<input>>, "c", e, g, r)
      [] component = "gate"      -> Dispatch!GateFollowsHealth(<<"g1">>, input)
      [] component = "shadow"    -> \A b \in [1..2 -> Dispatch!Behaviours] :
            Dispatch!ShadowDecidesTheGate(<<"g1">>, <<"g2">>, input, b)
      [] component = "driver"    -> \A k \in {"simulated", "usb"}, c \in {"c", "d", "hardware.raw.write"} :
            Hardware!DriverKeepsItsBinding(input, k, c)
      [] component = "reload"    -> Dispatch!ReloadIsOneSwap(input)
      [] component = "hotplug"   -> Hardware!ActionsAreAccepted(input[1],
            IF input[1] THEN input[2] ELSE "disconnected", input[3])
      [] component = "bind"      -> \A allowed, granted \in BOOLEAN : Hardware!BindAgrees(input, allowed, granted)
      [] OTHER -> TRUE

\* Evidence says what happened.  A platform record, its envelope, files or
\* expectation changed in one place is blocked; manifests and documents read back
\* as written; every calendar day has one number; a signature covers every signed
\* field; the production policy takes only the honest set of candidates, and the
\* release report is ready only when every document is.  An archive reads back, a
\* backup opens only as it was sealed, a dry run names the artifacts it checked and
\* needs a backup taken before, and the evidence of a service command is intact,
\* never a success it was not and never given while its processes may live.
EvidenceIsHonest ==
    CASE component = "platform" ->
            /\ Release!TamperIsBlocked(input, Expected, Files, TamperedEvidence, TamperedExpectations, TamperedFiles)
            /\ Release!BundleIsSealed(input, Expected, Files, TamperedEvidence)
      [] component = "envelope" -> Release!EnvelopeReadsBack(input, EnvelopeOrder)
      [] component = "manifest" -> Release!ManifestRoundTrip(input)
      [] component = "timestamp" -> \A u \in Timestamps : Release!TimestampsKeepOrder(input, u)
      [] component = "mcp report" -> Release!McpTextIsExact(<<"flag", "count", "digest">>, <<"bool", "u64", "digest">>,
            <<[key |-> "flag", value |-> input[1]], [key |-> "count", value |-> input[2]],
              [key |-> "digest", value |-> OtherDigest]>>, Words({0, 1, 2}, 3))
      [] component = "calendar" -> Release!EveryDayCounts(input[1], input[2])
      [] component = "distribution" ->
            /\ Release!DocumentRoundTrip(Release!DistributionSchema, input)
            /\ Release!EnvelopeBinds(Release!DistributionSchema, input, Envelope, {"commit-a", "commit-b", "x"})
      [] component = "benchmark" ->
            Release!DocumentRoundTrip(Release!BenchmarkSchema, input) /\ Release!BenchmarkAgrees(input)
      [] component = "scan" -> Release!DocumentRoundTrip(Release!ScanSchema, input)
      [] component = "signature" ->
            /\ Release!SignatureCovers(input, ChangedArtifacts)
            /\ Release!DocumentRoundTrip(Release!ArtifactSchema, ArtifactDocument)
      [] component = "production" -> Release!PolicyTakesOnlyHonest(input, Altered)
      [] component = "report" -> \A t \in {"all", "macos", "bsd"}, s \in {"alpha", "production"},
                                    k \in {"measurement", "operator"} :
            Release!ReportIsHonest(t, input, [d \in DOMAIN input |-> k], s)
      [] component = "archive" -> LET plan == PlanOf(input) IN
            \A n \in DOMAIN Archive!backup_archive_payload(plan) : Archive!ArchiveReadsBack(plan, n)
      [] component = "backup" -> Archive!BackupIsSealed(input, OtherKeys)
      [] component = "restore" -> \A r \in StoredRecords, p \in {<< >>} \cup {<<x>> : x \in StoredRecords} :
            Archive!DryRunIsExact(input, r, p)
      [] component = "written plan" -> Archive!ParsedPlanNeedsEvidence(input, RecordOf("backup", <<0>>), RecordOf("pre", <<1>>))
      [] component = "migration" -> \A c \in {"v1", "v2"}, s \in {"s1", "s2"} : Archive!PlansOnly(input, c, [id |-> "s1"], s)
      [] component = "command" -> Service!CommandEvidence(input, Trees, OtherRuns)
      [] component = "entry" -> Service!EntryNamesItself(input)
      [] OTHER -> TRUE

\* What one part writes the other reads as it was meant.  JSON and SSE text is
\* split where a full parser would split it, whatever the line endings and the
\* chunks it arrives in; both HTTP readers find the same end of a body; a request
\* head is refused for the first reason that applies, a response is framed in one
\* way whatever the order of its headers, and arguments the server
\* admits are the ones the tool reads.  Stored records (of tasks, providers,
\* effects, leases, events, audit, memory, control requests and the daemon's own
\* files) decode to what was encoded, and a file with a line missing, doubled or
\* changed where its digest covers it is refused; two owners never share a
\* path; context and search give an Agent its own, redacted and best matches; and
\* what a provider is given as user, host, directory, input and secret is exactly
\* what the manifest allows, every secret given being redacted.
WireFormatsAgree ==
    CASE component = "json"    -> Release!JsonReadsItsText(input)
      [] component = "scanner" -> Stream!ScannerIsRight(input)
      [] component = "lines"   -> Stream!LineEndingsAgree(input)
      [] component = "string"  -> Stream!StringRoundTrip(input)
      [] component = "chunks"  -> Client!ReadersAgree(input)
      [] component = "head"    ->
            \A g \in {"endpoint", "x"}, o \in {"absent", "allowed", "other"}, c \in ContentTypes,
               a \in {<< >>, <<[media |-> "*/*", q |-> << >>]>>}, b \in {"ok", "stalled", "short", "binary"} :
                  Server!HeadChecksAgree(HeadOf(input, g, o, c, a, b))
      [] component = "accept"  -> Server!AcceptAgrees(input)
      [] component = "arguments of tools" -> \A a \in ToolArguments : Server!AdmittedArgumentsRead(input, a)
      [] component = "number"  -> Stream!NumberIsRead(input)
      [] component = "response" -> \A status \in {100, 200, 202, 204, 304}, v, b \in BOOLEAN, sent \in {0, 2, 3}, limit \in 1..2 :
            Client!FramingIsUnambiguous(input, status, v, b, sent, limit)
      [] component = "envelope kind" -> \A id \in 1..2 : Client!MessagesAreOneKind(input, id, 1)
      [] component = "surface" -> \A other \in ToolSchemas, n \in {"t", "u"} : \A l \in 0..2 :
            Server!SurfaceIsCallable(SubSeq(<<ToolOf(input, "t"), ToolOf(other, n)>>, 1, l), ToolArguments)
      [] component = "server"  -> Server!RefusalNamesTheCause(input)
      [] component = "field"   -> Store!DecodeField(Store!EncodeField(input)) = input
      [] component = "audit"   -> Store!AuditRoundTrip(input)
      [] component = "event"   -> Store!EventRoundTrip(input)
      [] component = "event log" -> Store!FirstAckDecides(Appended, input)
      [] component = "loaded log" -> \A id \in {"e", "f", "g"} : Store!LoadedLogAppends(input, id)
      [] component = "layout"  -> \A n \in LayoutNames : Store!LayoutStaysInside(input, n)
      [] component = "metadata" -> Store!MetadataNamesItsBytes(input)
      [] component = "artifact key" -> \A k \in ArtifactKeys : Store!KeysKeepApart(input, k)
      [] component = "state"   -> Store!ExactFormats(input, Store!ParseStateRecord)
      [] component = "lease"   -> Store!ExactFormats(input, Store!LeaseFromStorage)
      [] component = "task record" -> Store!TaskRecordIsWhole(input)
      [] component = "provider record" -> Store!ProviderRecordIsWhole(input)
      [] component = "control request" -> Store!ControlRequestIsExact(input)
      [] component = "control response" -> Store!ResponseIsExact(input)
      [] component = "daemon file" -> Store!DaemonFileIsExact(input, DaemonIdentity)
      [] component = "effect record" -> \A other \in SealedEffects : Store!EffectRecordIsSealed(input, other)
      [] component = "memory"  -> Memory!MemoryRoundTrip(input)
      [] component = "knowledge" -> Memory!KnowledgeRoundTrip(input)
      [] component = "paths"   -> \A other \in OwnedKeys : Memory!PathsAreDistinct(input, other)
      [] component = "context" -> \A r \in ContextRequests :
            Memory!ContextIsOwnAndRedacted(FoldLeft(Memory!MemoryWrite, {}, input), SearchItems, r)
      [] component = "search"  ->
            /\ Memory!RebuildIsWhole(input)
            /\ \A l \in 0..4, q \in {"q", "t", "w"}, t \in SUBSET {"t"} : Memory!SearchIsTop(input, q, t, l)
            /\ \A a \in BOOLEAN, q \in {"", "q"}, r \in Retrievals : Memory!RetrievalIndexesOnlyAccepted(input, q, a, r)
      [] component = "http"    -> \A i \in 0..Len(input) : \A j \in i..Len(input) : \A limit \in 1..2 :
            Transport!CutsAgree(input, <<SubSeq(input, 1, i), SubSeq(input, i + 1, j), SubSeq(input, j + 1, Len(input))>>, limit, 8)
      [] component = "user"    -> \A u, g \in 0..2 : Transport!IdentityIsExact(input, u, g)
      [] component = "host"    -> \A b \in Words({"h", ":", "7", "/"}, 3) : Transport!OriginDecidesHost("http", input, b)
      [] component = "skill"   ->
            Transport!SkillInputIsRead(input) /\ \A m \in SkillMembers : Transport!SkillInputIsRead(Append(input, m))
      [] component = "directory" -> \A y, f \in PathEntries :
            Transport!WorkDirIsControlled(<<Transport!Created("dir"), input>>, <<y>>, f)
      [] component = "invocation" -> \A ran \in {"completed", "failed", "error"}, released \in BOOLEAN :
            \A allowed \in {{}, {"c"}}, limit \in 0..1 : Transport!InvocationsSettle(input, ran, released, allowed, limit)
      [] component = "http call" -> \A peer \in HttpPeers, text \in HttpTexts, code \in {200, 500} :
            \A limit \in 1..2, origins \in {{}, {Origin}} : Transport!HttpCallIsBounded(
                [methods |-> {"GET"}, limit |-> limit, origins |-> origins], input, peer, <<text, <<"x">>>>, code)
      [] component = "skill schema" -> \A m, n \in SkillMembers : \A l \in 0..2 :
            Transport!SchemaSeesLastMember(input, SubSeq(<<m, n>>, 1, l))
      [] component = "collected" -> Transport!CollectedIsOpenable(input)
      [] component = "segment" -> Transport!SegmentsAreNamed(input)
      [] component = "identity" -> Transport!IdentityIsWhole(input)
      [] component = "redaction" -> \A login \in SUBSET {"e1", "e3"}, values \in SecretValues, name \in {"e1", "e2", "e3"} :
            Credential!GivenIsRedacted(input, login, {"e3"}, values, name)
      [] component = "devices" -> Hardware!ParseState(Hardware!RenderState(input)) = [ok |-> TRUE, states |-> input]
      [] OTHER -> TRUE
=============================================================================
