-------------------------- MODULE AdapterManifest --------------------------
(***************************************************************************)
(* The Adapter manifest (eva-config/src/manifest/adapter.rs): what a       *)
(* manifest may say of a provider's process, its credentials, an MCP       *)
(* endpoint and a device, and what production adds.                        *)
(*                                                                         *)
(* A text is a sequence of tokens, the pieces the validators split it at;  *)
(* a YAML value is a record of its type and its content.  A manifest is    *)
(* refused or taken: which check refuses it first is left out.             *)
(***************************************************************************)
EXTENDS Naturals, Sequences, FiniteSets, TLC

-----------------------------------------------------------------------------
(* Values.                                                                   *)

Str(text) == [t |-> "str", v |-> text]
Num(n) == [t |-> "num", v |-> n]
List(s) == [t |-> "seq", v |-> s]
Mapping(f) == [t |-> "map", v |-> f]

IsStr(v) == v.t = "str"
IsMap(v) == v.t = "map"
Has(map, key) == key \in DOMAIN map
\* The mapping under a key, empty when there is none or it is no mapping.
Sub(map, key) == IF Has(map, key) /\ IsMap(map[key]) THEN map[key].v ELSE [k \in {} |-> Num(0)]
\* The text under a key, as a sequence of at most one.
TextAt(map, key) == IF Has(map, key) /\ IsStr(map[key]) THEN <<map[key].v>> ELSE <<>>
StringList(map, key) ==
    IF Has(map, key) /\ map[key].t = "seq"
    THEN {map[key].v[i].v : i \in {j \in DOMAIN map[key].v : IsStr(map[key].v[j])}}
    ELSE {}

Tokens(text) == {text[i] : i \in DOMAIN text}
Blank(text) == Tokens(text) \subseteq {" "}
Trimmed(text) == ~Blank(text) /\ text[1] # " " /\ text[Len(text)] # " "
Lower(token) == CASE token = "HTTPS" -> "https" [] token = "HTTP" -> "http" [] token = "Host" -> "host"
                  [] token = "Token" -> "token" [] token = "Authorization" -> "authorization"
                  [] token = "Prod" -> "prod" [] token = "API-KEY" -> "api-key"
                  [] OTHER -> token
Distinct(seq) == \A i, j \in DOMAIN seq : i # j => seq[i] # seq[j]

\* Lists of texts: MCP lists are trimmed, an argv only holds no NUL.
MappingStringList(map, key) ==
    Has(map, key) => map[key].t = "seq" /\ \A i \in DOMAIN map[key].v :
                        IsStr(map[key].v[i]) /\ Trimmed(map[key].v[i].v)
MappingArgv(map, key) ==
    Has(map, key) => map[key].t = "seq" /\ \A i \in DOMAIN map[key].v :
                        IsStr(map[key].v[i]) /\ "NUL" \notin Tokens(map[key].v[i].v)

-----------------------------------------------------------------------------
(* Credential references.                                                    *)

EnvName(text) == Len(text) = 1 /\ text[1] \notin {"", " ", "9X", "/", "#"}
IsDangerousCredentialEnv(text) ==
    text[1] \in {"PATH", "path", "NODE_OPTIONS", "LD_PRELOAD", "DYLD_X", "EVA_PROVIDER_SESSION_TOKEN"}
ValidateEnvName(text) == EnvName(text) /\ ~IsDangerousCredentialEnv(text)

\* vault://segment/segment#key: the fragment is optional, and there is one.
IsValidVaultSegment(token) == token \notin {"", ".", "..", "/", "#", " "}
ValidVaultBody(body) ==
    LET hashes == {i \in DOMAIN body : body[i] = "#"}
        end == IF hashes = {} THEN Len(body) + 1 ELSE CHOOSE i \in hashes : \A j \in hashes : i <= j
        path == SubSeq(body, 1, end - 1)
        key == SubSeq(body, end + 1, Len(body))
    IN  /\ path # <<>> /\ Len(path) % 2 = 1
        /\ \A i \in DOMAIN path : IF i % 2 = 1 THEN IsValidVaultSegment(path[i]) ELSE path[i] = "/"
        /\ hashes # {} => Len(key) = 1 /\ IsValidVaultSegment(key[1])
ValidateVaultSecretRef(text) == text # <<>> /\ text[1] = "vault://" /\ ValidVaultBody(Tail(text))

ValidateMcpCredentialRef(text) ==
    \/ text # <<>> /\ text[1] = "env:" /\ EnvName(Tail(text))
    \/ ValidateVaultSecretRef(text)

\* permissions.env: the environment a provider's credentials may use.
ValidatedCredentialEnv(extra) ==
    Has(extra, "permissions") =>
        /\ IsMap(extra["permissions"])
        /\ LET p == extra["permissions"].v IN
           Has(p, "env") => /\ p["env"].t = "seq"
                            /\ \A i \in DOMAIN p["env"].v :
                                  IsStr(p["env"].v[i]) /\ ValidateEnvName(p["env"].v[i].v)
                            /\ Distinct([i \in DOMAIN p["env"].v |-> p["env"].v[i].v])
CredentialEnv(extra) == StringList(Sub(extra, "permissions"), "env")

-----------------------------------------------------------------------------
(* Supervision of a provider's process.  An absent section is <<>>.          *)

\* Which transports run a process: stdio does, a skill with a command, and an
\* MCP server on stdio.
ProviderTransportSupportsProcess(transport, extra) ==
    CASE transport = "stdio" -> TRUE
      [] transport = "skill" ->
           \/ TextAt(extra, "command") # <<>>
           \/ TextAt(Sub(Sub(extra, "skill"), "runner"), "command") # <<>>
      [] transport = "mcp" ->
           Has(extra, "mcp") /\ IsMap(extra["mcp"]) =>
               LET server == TextAt(extra["mcp"].v, "server_transport")
               IN  server = <<>> \/ server[1] = <<"stdio">>
      [] OTHER -> FALSE

MaxU32 == 4

ParseProviderRestart(raw, process) ==
    raw # <<>> =>
        LET r == raw[1] IN
        /\ r.mode \in {"none", "on_failure", "always"}
        /\ r.max_attempts <= MaxU32
        /\ IF r.mode = "none" THEN r.max_attempts = 0 /\ r.backoff_ms = 0
           ELSE r.max_attempts > 0 /\ r.backoff_ms > 0 /\ process

\* uid, gid and account are sequences of at most one.
ParseProviderRunAs(raw, process) ==
    raw # <<>> =>
        LET r == raw[1] U32(n) == Len(n) = 1 /\ n[1] <= MaxU32 IN
        \/ r.kind = "current" /\ r.uid = <<>> /\ r.gid = <<>> /\ r.account = <<>>
        \/ r.kind = "unix" /\ r.account = <<>> /\ U32(r.uid) /\ U32(r.gid) /\ process
        \/ r.kind = "windows" /\ r.uid = <<>> /\ r.gid = <<>> /\ process
           /\ Len(r.account) = 1 /\ Trimmed(r.account[1]) /\ "NUL" \notin Tokens(r.account[1])

\* Each declared secret goes to an allowed variable of its own.
ParseProviderVaultRefs(vault, allowed) ==
    /\ \A i \in DOMAIN vault : /\ ValidateEnvName(vault[i].env) /\ vault[i].env \in allowed
                               /\ ValidateVaultSecretRef(vault[i].ref)
    /\ Distinct([i \in DOMAIN vault |-> vault[i].env])

ParseProviderConfig(m) ==
    LET process == ProviderTransportSupportsProcess(m.transport, m.extra)
    IN  /\ ParseProviderRestart(m.restart, process)
        /\ ParseProviderRunAs(m.run_as, process)
        /\ ParseProviderVaultRefs(m.vault, CredentialEnv(m.extra))

-----------------------------------------------------------------------------
(* MCP endpoints and origins.                                                *)

DefaultPort(scheme) == IF scheme = "https" THEN "443" ELSE "80"
Ports == {"80", "443", "8443"}

\* The position of the first of some tokens, past the end when there is none.
First(text, tokens) ==
    LET at == {i \in DOMAIN text : text[i] \in tokens}
    IN  IF at = {} THEN Len(text) + 1 ELSE CHOOSE i \in at : \A j \in at : i <= j

\* An authority is a host, or an address in brackets, with an optional port;
\* the canonical one is in lower case and names no default port.
AuthorityHost(a) == IF a[1] = "[" /\ Len(a) >= 3 THEN SubSeq(a, 1, 3) ELSE SubSeq(a, 1, 1)
AuthorityPort(a) == SubSeq(a, Len(AuthorityHost(a)) + 1, Len(a))
AuthorityValid(a) ==
    LET host == AuthorityHost(a) port == AuthorityPort(a) IN
    /\ IF a[1] = "[" THEN Len(host) = 3 /\ host[2] = "::1" /\ host[3] = "]"
       ELSE host[1] \in {"host", "Host", "other"}
    /\ port = <<>> \/ (Len(port) = 2 /\ port[1] = ":" /\ port[2] \in Ports)

CanonicalMcpAuthority(scheme, a) ==
    LET host == AuthorityHost(a) port == AuthorityPort(a)
    IN  [i \in DOMAIN host |-> Lower(host[i])]
        \o (IF port = <<>> \/ port[2] = DefaultPort(scheme) THEN <<>> ELSE port)

Scheme(url) == Lower(url[1])
Rest(url) == SubSeq(url, 3, Len(url))
Authority(url) == SubSeq(Rest(url), 1, First(Rest(url), {"/", "?"}) - 1)
OriginValid(url) ==
    /\ Len(url) >= 3 /\ url[2] = "://" /\ Scheme(url) \in {"http", "https"}
    /\ Tokens(url) \cap {" ", "#"} = {}
    /\ Authority(url) # <<>> /\ Tokens(Authority(url)) \cap {"@", "*"} = {}
    /\ AuthorityValid(Authority(url))
CanonicalMcpOrigin(url) == <<Scheme(url), "://">> \o CanonicalMcpAuthority(Scheme(url), Authority(url))
\* An entry of the origin policy is an authority alone, spelled canonically.
OriginEntryValid(url) == OriginValid(url) /\ CanonicalMcpOrigin(url) = url

ValidateMcpTrustRoot(root) ==
    /\ root # <<>> /\ " " \notin Tokens(root)
    /\ \/ root = <<"system">>
       \/ root[1] = "file:" /\ Len(root) > 1 /\ root[2] # "/"
          /\ Tokens(Tail(root)) \cap {"..", ":"} = {}
          /\ \A i \in 2..Len(root) : root[i] = "/" => i < Len(root) /\ root[i + 1] # "/"
       \/ root[1] = "pem:" /\ Len(root) > 1 /\ root[2] # "-" /\ "BEGIN" \notin Tokens(root)

\* The limits of an HTTP configuration; production asks for an explicit trust
\* and origin policy of every HTTPS endpoint.
ValidateMcpHttpManifestConfig(c, production) ==
    /\ OriginValid(c.endpoint)
    /\ \A i \in DOMAIN c.trust_roots : ValidateMcpTrustRoot(c.trust_roots[i])
    /\ Distinct(c.trust_roots)
    /\ \A i \in DOMAIN c.client_auth : ValidateMcpCredentialRef(c.client_auth[i])
    /\ Scheme(c.endpoint) = "http" => c.trust_roots = <<>> /\ c.client_auth = <<>>
    /\ IF c.redirect = "deny" THEN c.max_hops \in {<<>>, <<0>>}
       ELSE c.max_hops = <<>> \/ c.max_hops[1] \in 1..10
    /\ \A i \in DOMAIN c.allowed_origins : OriginEntryValid(c.allowed_origins[i])
    /\ Distinct(c.allowed_origins)
    /\ c.allowed_origins # <<>> =>
           \E i \in DOMAIN c.allowed_origins : c.allowed_origins[i] = CanonicalMcpOrigin(c.endpoint)
    /\ production /\ Scheme(c.endpoint) = "https" => c.trust_roots # <<>> /\ c.allowed_origins # <<>>

-----------------------------------------------------------------------------
(* The MCP section: a union of a stdio and an HTTP form.                     *)

McpFields == {"server_transport", "command", "args", "endpoint", "headers", "http", "tool_allowlist",
              "resource_allowlist", "prompt_allowlist"}
McpHttpFields == {"trust_roots", "client_auth", "redirect", "allowed_origins"}
IsTransportControlledHeader(name) == name \in {"host", "connection", "content-type", "mcp-session-id"}

\* Headers may be given in three places; together a name is given once, in any
\* case, and none is the transport's own.
HeaderPlaces(extra) ==
    <<(IF Has(extra, "headers") THEN <<extra["headers"]>> ELSE <<>>),
      (IF Has(Sub(extra, "http"), "headers") THEN <<Sub(extra, "http")["headers"]>> ELSE <<>>),
      (IF Has(Sub(extra, "mcp"), "headers") THEN <<Sub(extra, "mcp")["headers"]>> ELSE <<>>)>>
ValidateMcpHttpHeaders(extra) ==
    LET places == HeaderPlaces(extra)
        names(i) == IF places[i] = <<>> THEN {} ELSE DOMAIN places[i][1].v
    IN  /\ \A i \in 1..3 : places[i] # <<>> =>
              /\ IsMap(places[i][1])
              /\ \A n \in names(i) : /\ n # "" /\ ~IsTransportControlledHeader(Lower(n))
                                     /\ IsStr(places[i][1].v[n])
                                     /\ "NUL" \notin Tokens(places[i][1].v[n].v)
        /\ \A i, j \in 1..3 : \A a \in names(i), b \in names(j) :
              (i # j \/ a # b) => Lower(a) # Lower(b)

\* A stdio server has a command and nothing of HTTP, and not at the top level.
StdioForm(extra, mcp) ==
    /\ DOMAIN extra \cap {"command", "args", "endpoint", "headers", "http"} = {}
    /\ DOMAIN mcp \cap {"endpoint", "headers", "http"} = {}
    /\ TextAt(mcp, "command") # <<>> /\ Trimmed(TextAt(mcp, "command")[1])
    /\ MappingArgv(mcp, "args")

ClientAuthValid(http) ==
    Has(http, "client_auth") =>
        \/ IsStr(http["client_auth"]) /\ http["client_auth"].v = <<"none">>
        \/ /\ IsMap(http["client_auth"])
           /\ DOMAIN http["client_auth"].v = {"cert_ref", "key_ref"}
           /\ \A k \in {"cert_ref", "key_ref"} :
                 IsStr(http["client_auth"].v[k]) /\ Trimmed(http["client_auth"].v[k].v)
ParseMcpClientAuthMapping(http) ==
    IF Has(http, "client_auth") /\ IsMap(http["client_auth"])
    THEN <<http["client_auth"].v["cert_ref"].v, http["client_auth"].v["key_ref"].v>> ELSE <<>>

RedirectValid(http) ==
    Has(http, "redirect") =>
        \/ IsStr(http["redirect"]) /\ http["redirect"].v \in {<<"deny">>, <<"same_origin">>}
        \/ LET r == http["redirect"].v IN
           /\ IsMap(http["redirect"]) /\ DOMAIN r \subseteq {"mode", "max_hops"}
           /\ TextAt(r, "mode") \in {<<<<"deny">>>>, <<<<"same_origin">>>>}
           /\ Has(r, "max_hops") => r["max_hops"].t = "num"
ParseMcpRedirectMapping(http) ==
    IF ~Has(http, "redirect") THEN [mode |-> "deny", hops |-> <<>>]
    ELSE IF IsStr(http["redirect"]) THEN [mode |-> http["redirect"].v[1], hops |-> <<>>]
    ELSE [mode |-> http["redirect"].v["mode"].v[1],
          hops |-> IF Has(http["redirect"].v, "max_hops") THEN <<http["redirect"].v["max_hops"].v>> ELSE <<>>]

TextSeq(map, key) ==
    IF Has(map, key) THEN [i \in DOMAIN map[key].v |-> map[key].v[i].v] ELSE <<>>

HttpConfig(endpoint, http) ==
    [endpoint |-> endpoint, trust_roots |-> TextSeq(http, "trust_roots"),
     client_auth |-> ParseMcpClientAuthMapping(http), redirect |-> ParseMcpRedirectMapping(http).mode,
     max_hops |-> ParseMcpRedirectMapping(http).hops,
     allowed_origins |-> TextSeq(http, "allowed_origins")]

\* The endpoint is nested or at the top level; both must be the same text.
HttpForm(extra, mcp) ==
    LET nested == TextAt(mcp, "endpoint") top == TextAt(extra, "endpoint") http == Sub(mcp, "http") IN
    /\ DOMAIN extra \cap {"command", "args"} = {} /\ DOMAIN mcp \cap {"command", "args"} = {}
    /\ ValidateMcpHttpHeaders(extra)
    /\ Has(mcp, "endpoint") => nested # <<>>
    /\ Has(extra, "endpoint") => top # <<>>
    /\ nested # <<>> /\ top # <<>> => nested = top
    /\ nested \o top # <<>>
    /\ Has(mcp, "http") => IsMap(mcp["http"])
    /\ DOMAIN http \subseteq McpHttpFields
    /\ MappingStringList(http, "trust_roots") /\ MappingStringList(http, "allowed_origins")
    /\ ClientAuthValid(http) /\ RedirectValid(http)
    /\ ValidateMcpHttpManifestConfig(HttpConfig((nested \o top)[1], http), FALSE)

ServerTransport(mcp) == IF Has(mcp, "server_transport") THEN mcp["server_transport"] ELSE Str(<<"stdio">>)

\* Whether the MCP section is valid, and the HTTP configuration it gives.
McpValid(m) ==
    LET mcp == Sub(m.extra, "mcp") server == ServerTransport(mcp) IN
    m.transport = "mcp" =>
        /\ Has(m.extra, "mcp") => IsMap(m.extra["mcp"])
        /\ DOMAIN mcp \subseteq McpFields
        /\ \A key \in {"tool_allowlist", "resource_allowlist", "prompt_allowlist"} : MappingStringList(mcp, key)
        /\ IsStr(server)
        /\ \/ server.v = <<"stdio">> /\ StdioForm(m.extra, mcp)
           \/ server.v \in {<<"http">>, <<"streamable_http">>} /\ HttpForm(m.extra, mcp)
McpHttpManifestConfig(m) ==
    LET mcp == Sub(m.extra, "mcp") IN
    IF m.transport # "mcp" \/ ServerTransport(mcp).v = <<"stdio">> THEN <<>>
    ELSE <<HttpConfig((TextAt(mcp, "endpoint") \o TextAt(m.extra, "endpoint"))[1], Sub(mcp, "http"))>>

Transports == {"builtin", "stdio", "http", "eventbus", "mcp", "skill", "hardware", "lua_capability"}

\* load_adapter_manifest.
TryFromRaw(m) ==
    /\ Trimmed(m.id) /\ ~Blank(m.name) /\ ~Blank(m.version)
    /\ m.transport \in Transports
    /\ \A c \in m.capabilities : Trimmed(c)
    /\ ValidatedCredentialEnv(m.extra)
    /\ ParseProviderConfig(m)
    /\ McpValid(m)

-----------------------------------------------------------------------------
(* Production: no secret is written in a manifest.                           *)

\* Names are compared in lower case, with "_" for "-" in fields and "-" for "_" in headers.
Underscored(token) == CASE token = "api-key" -> "api_key" [] token = "private-key" -> "private_key" [] OTHER -> token
Hyphenated(token) == IF token = "x_api_key" THEN "x-api-key" ELSE token
IsSecretFieldName(name) == Underscored(Lower(name)) \in {"secret", "token", "password", "api_key", "private_key"}
IsSensitiveHeader(name) == Hyphenated(Lower(name)) \in {"authorization", "x-api-key", "cookie", "token"}
\* The environments that count as production.
IsProduction(env) == Len(env) = 1 /\ Lower(env[1]) \in {"prod", "production"}

ValidateEnvCredentialReference(m, text) ==
    /\ text # <<>> /\ text[1] = "env:"
    /\ ValidateEnvName(Tail(text)) /\ Tail(text) \in CredentialEnv(m.extra)

\* Arguments and endpoints that carry a secret: a flag, a query parameter or
\* the user's part of an address.
EmbedsSecret(text) == Tokens(text) \cap {"--token", "?token=", "user:pass@"} # {}
ValidateNoEmbeddedProductionSecret(value) ==
    /\ IsStr(value) => ~EmbedsSecret(value.v)
    /\ value.t = "seq" => \A i \in DOMAIN value.v : IsStr(value.v[i]) => ~EmbedsSecret(value.v[i].v)

ValidateProductionHeaders(m, value) ==
    IsMap(value) /\ \A name \in DOMAIN value.v :
        IsSensitiveHeader(name) => IsStr(value.v[name]) /\ ValidateEnvCredentialReference(m, value.v[name].v)

RECURSIVE ValidateProductionManifestSecrets(_, _)
ValidateProductionManifestSecrets(m, map) ==
    \A key \in DOMAIN map \ {"input_schema", "output_schema", "schema"} :
        LET value == map[key] IN
        /\ key \in {"args", "endpoint"} => ValidateNoEmbeddedProductionSecret(value)
        /\ IF Lower(key) = "headers" THEN ValidateProductionHeaders(m, value)
           ELSE IF IsSecretFieldName(key) THEN IsStr(value) /\ ValidateEnvCredentialReference(m, value.v)
           ELSE /\ IsMap(value) => ValidateProductionManifestSecrets(m, value.v)
                /\ value.t = "seq" => \A i \in DOMAIN value.v :
                       IsMap(value.v[i]) => ValidateProductionManifestSecrets(m, value.v[i].v)

ValidateForEnvironment(m, production) ==
    LET config == McpHttpManifestConfig(m) IN
    /\ config # <<>> =>
          /\ ValidateMcpHttpManifestConfig(config[1], production)
          /\ production => \A i \in DOMAIN config[1].client_auth :
                LET ref == config[1].client_auth[i] IN
                /\ ref[1] = "env:" => ValidateEnvCredentialReference(m, ref)
                /\ ref[1] = "vault://" => \E j \in DOMAIN m.vault : m.vault[j].ref = ref
    /\ production => ValidateProductionManifestSecrets(m, m.extra)

-----------------------------------------------------------------------------
(* Devices.                                                                  *)

HardwareBusKinds == {"usb", "serial", "ble", "socket", "network", "vendor_sdk"}
HardwareProtocolKinds == {"simulated", "line_json", "binary", "modbus_rtu", "ble_gatt", "tcp_socket",
                          "udp_socket", "vendor_sdk"}
HardwareClaimModes == {"exclusive", "shared_read"}
HardwareDriverKinds == {"simulated", "usb", "serial", "ble", "socket", "network", "vendor_sdk"}

ParseHardwareField(map, key, kinds) ==
    TextAt(map, key) # <<>> => Len(TextAt(map, key)[1]) = 1 /\ TextAt(map, key)[1][1] \in kinds
OptionalU32(map, key) == Has(map, key) /\ map[key].t = "num" => map[key].v <= MaxU32
NotEmpty(map, key) == TextAt(map, key) # <<>> => ~Blank(TextAt(map, key)[1])

HardwareConfigValid(m) ==
    LET hw == Sub(m.extra, "hardware") IN
    m.transport = "hardware" =>
        /\ ParseHardwareField(hw, "bus", HardwareBusKinds)
        /\ NotEmpty(Sub(hw, "identity"), "logical_name") /\ NotEmpty(Sub(hw, "identity"), "device_class")
        /\ ParseHardwareField(Sub(hw, "protocol"), "kind", HardwareProtocolKinds)
        /\ ParseHardwareField(Sub(hw, "driver"), "kind", HardwareDriverKinds)
        /\ NotEmpty(Sub(hw, "driver"), "id")
        /\ OptionalU32(Sub(hw, "protocol"), "baud_rate")
        /\ ParseHardwareField(Sub(hw, "hotplug"), "claim", HardwareClaimModes)
        /\ OptionalU32(Sub(hw, "hotplug"), "max_reconnect_attempts")

-----------------------------------------------------------------------------
(* Properties.                                                               *)

\* The pairs of a key and its value at any depth of a manifest, through lists
\* of mappings, but for the schemas and the names of headers.
RECURSIVE Entries(_)
Entries(map) ==
    LET keys == DOMAIN map \ {"input_schema", "output_schema", "schema"} IN
    {<<k, map[k]>> : k \in keys}
    \cup UNION {Entries(map[k].v) : k \in {q \in keys : IsMap(map[q]) /\ q # "headers"}}
    \cup UNION {UNION {Entries(map[k].v[i].v) : i \in {j \in DOMAIN map[k].v : IsMap(map[k].v[j])}}
                : k \in {q \in keys : map[q].t = "seq"}}

\* A manifest that production takes holds no plaintext credential: whatever is
\* named as a secret, at any depth, refers to a variable of the environment
\* that permissions.env allows and the supervisor does not reserve.
NoPlaintextInProduction(m) ==
    TryFromRaw(m) /\ ValidateForEnvironment(m, TRUE) =>
        \A e \in Entries(m.extra) : IsSecretFieldName(e[1]) =>
            /\ IsStr(e[2]) /\ e[2].v # <<>> /\ e[2].v[1] = "env:"
            /\ Tail(e[2].v) \in CredentialEnv(m.extra) /\ ~IsDangerousCredentialEnv(Tail(e[2].v))

\* An accepted MCP manifest is of one form: what starts a process has no
\* endpoint, what has an endpoint starts none, and only a process is restarted
\* or run as another identity.
FormsAreExclusive(m) ==
    TryFromRaw(m) /\ m.transport = "mcp" =>
        LET process == ProviderTransportSupportsProcess("mcp", m.extra) IN
        /\ process # (McpHttpManifestConfig(m) # <<>>)
        /\ (m.restart # <<>> /\ m.restart[1].mode # "none") => process
        /\ (m.run_as # <<>> /\ m.run_as[1].kind # "current") => process

\* Two endpoints have one canonical origin exactly when a client reaches them
\* at the same scheme, host and port, however they are spelled, and that form is
\* one the origin policy takes: no spelling of an allowed endpoint is refused.
OriginsAreExact(u, v) ==
    LET reached(url) == <<Scheme(url), [i \in DOMAIN AuthorityHost(Authority(url)) |->
                                           Lower(AuthorityHost(Authority(url))[i])],
                          IF AuthorityPort(Authority(url)) = <<>> THEN DefaultPort(Scheme(url))
                          ELSE AuthorityPort(Authority(url))[2]>>
    IN  OriginValid(u) /\ OriginValid(v) =>
            /\ (CanonicalMcpOrigin(u) = CanonicalMcpOrigin(v)) = (reached(u) = reached(v))
            /\ OriginEntryValid(CanonicalMcpOrigin(u))

-----------------------------------------------------------------------------
(* manifest_digest of the provider supervisor: a record of a provider process *)
(* keeps the digest of the manifest it was started from.  The material is a   *)
(* sequence of labelled, length-prefixed values, a list after its length and  *)
(* a sorted one as its set; FNV is taken to be one to one.                    *)

Field(label, value) == << <<label, value>> >>
Collection(label, values) == Field(<<label, "count">>, Len(values)) \o [i \in DOMAIN values |-> <<label, values[i]>>]
SortedCollection(label, set) == Field(<<label, "count">>, Cardinality(set)) \o Field(label, set)
HttpMaterial(config) ==
    Field("mcp_endpoint_digest", config.endpoint) \o Collection("mcp_allowed_origin", config.origins)
    \o Collection("mcp_trust_root_digest", config.roots)
    \o Field("mcp_redirect_mode", config.redirect[1]) \o Field("mcp_redirect_max_hops", config.redirect[2])
    \o Field("mcp_client_auth", config.auth # <<>>)
    \o IF config.auth = <<>> THEN <<>>
       ELSE Field("mcp_client_cert_ref_digest", config.auth[1]) \o Field("mcp_client_key_ref_digest", config.auth[2])
TransportMaterial(h) ==
    Field("id", h.id) \o Field("transport", h.transport) \o Field("command", h.command) \o Collection("arg", h.args)
    \o Field("mcp_server_transport", h.server) \o Field("mcp_http_config_invalid", h.invalid)
    \o (IF h.http = <<>> THEN <<>> ELSE HttpMaterial(h.http[1]))
    \o Field("mcp_header_count", Len(h.headers))
    \o [i \in 1..(2 * Len(h.headers)) |->
           IF i % 2 = 1 THEN <<"mcp_header_name", h.headers[(i + 1) \div 2][1]>> ELSE <<"mcp_header_value_digest", h.headers[i \div 2][2]>>]
    \o Collection("mcp_arg", h.mcp_args) \o Collection("skill_runner_arg", h.skill_args)
ManifestDigest(h) ==
    TransportMaterial(h) \o SortedCollection("capability", h.capabilities) \o SortedCollection("credential_env", h.env)
    \o Field("restart", h.restart) \o Field("run_as_kind", h.run_as[1])
    \o [i \in 1..(Len(h.run_as) - 1) |-> <<h.run_as[1], h.run_as[i + 1]>>] \o SortedCollection("vault_secret", h.vault)

\* Two manifests have one digest only if nothing a provider is started with differs:
\* no list runs into the next, and no optional part is taken for another.
DigestNamesTheManifest(h, k) == (ManifestDigest(h) = ManifestDigest(k)) <=> (h = k)
=============================================================================
