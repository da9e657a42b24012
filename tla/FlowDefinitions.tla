---------------------------- MODULE FlowDefinitions ----------------------------
(***************************************************************************)
(* What fiso accepts as a flow definition (internal/config Validate) and   *)
(* what the constructors of sources, sinks, clients and interceptors make  *)
(* of one (internal/source, internal/sink, internal/kafka, internal/wasm). *)
(*                                                                         *)
(* A definition is the record the YAML file decodes to.  An option that is *)
(* a text is Absent when its key is missing or holds no text; an optional  *)
(* section is the empty set or a set of one record.  A constructor is the  *)
(* set of the values it may return: empty when it returns an error.        *)
(* Texts without meaning here (URLs, topics, expressions) are names; an    *)
(* expression named "broken" does not compile.                             *)
(***************************************************************************)
EXTENDS Integers, Sequences, FiniteSets

CONSTANTS
    Present,    \* files, environment variables and servers that are there
    MaxOffset   \* math.MaxInt64

ASSUME FlowDefinitionsAssumption == MaxOffset \in Nat

Absent == "absent"

\* v, _ := m[key].(string)
Text(v) == IF v = Absent THEN "" ELSE v

Default(v, d) == IF v = "" THEN d ELSE v

\* All of these files are named and can be read.
Readable(files) == "" \notin files /\ files \subseteq Present

-----------------------------------------------------------------------------
(* Kafka clusters (internal/kafka).                                        *)

ValidOAuth(o) ==
    /\ o.provider # "" /\ o.clientId # "" /\ o.scope # ""
    /\ o.provider = "azure" => o.tenantId # ""

ValidCluster(c) ==
    /\ c.brokers > 0
    /\ \/ c.mechanism = ""
       \/ c.mechanism = "OAUTHBEARER" /\ \E o \in c.oauth : ValidOAuth(o)
       \/ /\ c.mechanism \in {"PLAIN", "SCRAM-SHA-256", "SCRAM-SHA-512"}
          /\ c.username # "" /\ c.password # ""
    /\ c.certFile = "" <=> c.keyFile = ""

\* The provider is azure, with its secret in the environment or the default
\* credential chain.
OAuthMechanism(o) ==
    /\ o.provider = "azure"
    /\ o.clientSecretEnv # "" => o.clientSecretEnv \in Present

SaslOption(c) ==
    \/ c.mechanism \in {"PLAIN", "SCRAM-SHA-256", "SCRAM-SHA-512"}
    \/ c.mechanism = "OAUTHBEARER" /\ \E o \in c.oauth : OAuthMechanism(o)

\* The certificates a TLS configuration names can be loaded.
BuildTLS(t) ==
    /\ t.caFile # "" => Readable({t.caFile})
    /\ t.certFile # "" /\ t.keyFile # "" => Readable({t.certFile, t.keyFile})

\* A client can be made for the cluster; nothing is dialled yet.
ClientOptions(c) ==
    /\ c.mechanism # "" => SaslOption(c)
    /\ c.tls => BuildTLS(c)

-----------------------------------------------------------------------------
(* The Kafka source's start offset (internal/source/kafka).                *)

AtEnd == <<"end">>
AtStart == <<"start">>
At(n) == <<"at", n>>

\* A number of the YAML file.  A float is compared with MaxInt64 as a float,
\* which is one more: that float passes, and what int64 makes of it depends on
\* the processor, the largest offset or one before the log's start.
ParseNumericStartOffset(raw) ==
    CASE raw.kind = "int" -> IF raw.n >= 0 THEN {At(raw.n)} ELSE {}
      [] raw.kind = "uint" -> IF raw.n <= MaxOffset THEN {At(raw.n)} ELSE {}
      [] raw.kind = "fraction" -> {}
      [] raw.kind = "float" ->
           IF raw.n \in 0..MaxOffset THEN {At(raw.n)}
           ELSE IF raw.n = MaxOffset + 1 THEN {At(MaxOffset), AtStart} ELSE {}

ResolveStartOffset(raw) ==
    CASE raw.kind = "nil" -> {AtEnd}
      [] raw.kind \in {"int", "uint", "float", "fraction"} -> ParseNumericStartOffset(raw)
      [] raw.kind = "word" ->
           IF raw.word \in {"", "latest"} THEN {AtEnd}
           ELSE IF raw.word = "earliest" THEN {AtStart} ELSE {}
      [] raw.kind = "digits" -> IF raw.n \in 0..MaxOffset THEN {At(raw.n)} ELSE {}
      [] OTHER -> {}

-----------------------------------------------------------------------------
(* Commit policies (internal/delivery).                                    *)

\* The spellings that are trimmed and lowered; every other text stays as it is.
Spellings == [blank |-> "sink_or_dlq", Sink |-> "sink", Kafka_Transaction |-> "kafka_transaction"]

NormalizeCommitPolicy(raw) ==
    IF raw = "" THEN "sink_or_dlq"
    ELSE IF raw \in DOMAIN Spellings THEN Spellings[raw] ELSE raw

ValidPolicy(p) == p \in {"sink", "sink_or_dlq", "kafka_transaction"}

Policy(d) == NormalizeCommitPolicy(d.commitPolicy)

-----------------------------------------------------------------------------
(* Validate (internal/config).                                             *)

ValidPolicies(d) ==
    /\ ValidPolicy(Policy(d))
    /\ Policy(d) = "kafka_transaction" =>
         d.source.type = "kafka" /\ d.sink.type = "kafka" /\ d.transactionalId # ""

ValidTemporalSink(s) ==
    /\ s.taskQueue # Absent /\ s.workflowType # Absent
    /\ Text(s.mode) = "signal" => s.signalName # Absent

ValidInterceptor(ic) ==
    /\ ic.type \in {"wasm", "grpc", "wasmer-app"}
    /\ ic.type = "wasm" => ic.module # Absent /\ ic.runtime \in {Absent, "wazero", "wasmer"}
    /\ ic.type = "wasmer-app" =>
         ic.module # Absent /\ ic.execution \in {Absent, "perRequest", "longRunning", "pooled"}

Validate(d) ==
    /\ d.name # ""
    /\ d.source.type \in {"kafka", "grpc", "http"}
    /\ d.sink.type \in {"http", "grpc", "temporal", "kafka"}
    /\ d.fields # "empty"
    /\ d.sink.type = "temporal" => \E s \in d.sink.temporal : ValidTemporalSink(s)
    /\ \A i \in 1..Len(d.interceptors) : ValidInterceptor(d.interceptors[i])
    /\ d.maxRetries >= 0
    /\ ValidPolicies(d)
    /\ \A c \in DOMAIN d.clusters : ValidCluster(d.clusters[c])

-----------------------------------------------------------------------------
(* Sources.  routes are the addresses and paths the pool has given away.   *)

NewKafkaSource(cfg) ==
    {[type |-> "kafka", cluster |-> cfg.cluster, topic |-> cfg.topic, group |-> cfg.group,
      start |-> at, transactionalId |-> cfg.transactionalId, stable |-> cfg.stable,
      stopOnHandlerError |-> cfg.stopOnHandlerError] :
         at \in {a \in ResolveStartOffset(cfg.start) :
                   cfg.topic # "" /\ cfg.group # "" /\ ClientOptions(cfg.cluster)}}

NewGrpcSource(addr) == {[type |-> "grpc", addr |-> a] : a \in {addr} \ {""}}

NewPooledSource(addr, path, routes) ==
    {[type |-> "http", route |-> r] :
        r \in {q \in {<<addr, Default(path, "/")>>} : addr # "" /\ q \notin routes}}

-----------------------------------------------------------------------------
(* Sinks.                                                                  *)

NewHttpSink(url, method, maxRetries) ==
    {[type |-> "http", url |-> u, method |-> Default(method, "POST"),
      maxAttempts |-> IF maxRetries <= 0 THEN 1 ELSE maxRetries] : u \in {url} \ {""}}

\* A publisher of the cluster: the Kafka sink's and the dead letters'.
NewPublisher(c) == ClientOptions(c)

NewKafkaSink(cluster, topic, transactional) ==
    {[type |-> "kafka", cluster |-> cluster, topic |-> t, transactional |-> transactional] :
        t \in {u \in {topic} \ {""} : NewPublisher(cluster)}}

\* The authentication methods a Temporal configuration has.
AuthMethods(t) ==
    {m \in {"apiKey", "apiKeyEnv", "tokenFile", "oidc", "azure", "mtls"} :
        CASE m = "apiKey" -> t.apiKey # ""
          [] m = "apiKeyEnv" -> t.apiKeyEnv # ""
          [] m = "tokenFile" -> t.tokenFile # ""
          [] m = "oidc" -> t.oidc # {}
          [] m = "azure" -> t.azure # {}
          [] m = "mtls" -> t.certFile # "" /\ t.keyFile # ""}

\* temporal.Config.Validate.
ValidTemporal(t) ==
    /\ t.certFile = "" <=> t.keyFile = ""
    /\ Cardinality(AuthMethods(t)) <= 1
    /\ \A o \in t.oidc :
         /\ o.tokenURL # "" /\ o.clientID # ""
         /\ (o.clientSecret # "") # (o.clientSecretEnv # "")
    /\ \A a \in t.azure : a.scope # ""

\* At most one method is left by ValidTemporal, so their order does not matter.
\* A secret in a variable must be there now, a key or a token only at each call.
BuildCredentials(t) ==
    LET Usable(m) ==
          CASE m = "oidc" -> \A o \in t.oidc : o.clientSecretEnv # "" => o.clientSecretEnv \in Present
            [] m = "mtls" -> Readable({t.certFile, t.keyFile})
            [] OTHER -> TRUE
    IN  IF AuthMethods(t) = {} THEN {"none"} ELSE {m \in AuthMethods(t) : Usable(m)}

\* The configuration of server certificates.
BuildTemporalTLS(t) == t.caFile # "" => Readable({t.caFile})

\* The client dials the server.
NewTemporalSDKClient(t) ==
    {[hostPort |-> Default(t.hostPort, "localhost:7233"),
      namespace |-> Default(t.namespace, "default"),
      tls |-> IF t.tlsDisabled THEN "disabled"
              ELSE IF t.tlsEnabled \/ t.caFile # "" THEN "configured" ELSE "automatic",
      credentials |-> c] :
        c \in {k \in BuildCredentials(t) :
                 /\ ValidTemporal(t)
                 /\ ~t.tlsDisabled /\ (t.tlsEnabled \/ t.caFile # "") => BuildTemporalTLS(t)
                 /\ Default(t.hostPort, "localhost:7233") \in Present}}

NewTemporalSink(t) ==
    {[type |-> "temporal", client |-> c, taskQueue |-> t.taskQueue,
      workflowType |-> t.workflowType, workflowIdExpr |-> t.workflowIdExpr,
      mode |-> Default(t.mode, "start"), signalName |-> t.signalName, params |-> t.params] :
        c \in {k \in NewTemporalSDKClient(t) :
                 /\ t.taskQueue # "" /\ t.workflowType # ""
                 /\ t.mode = "signal" => t.signalName # ""
                 /\ \A i \in 1..Len(t.params) : t.params[i] # "broken"}}

-----------------------------------------------------------------------------
(* Transformers and interceptors.                                          *)

\* The fields are one CEL expression; without any the payload passes as it is.
NewTransformer(fields) ==
    IF fields \in {"none", "empty"} THEN {"none"} ELSE {fields} \ {"broken"}

\* A WebAssembly module, compiled for one of the two runtimes.
NewWazeroRuntime(module) == {[module |-> m, runtime |-> "wazero"] : m \in {module} \cap Present}

NewWasmerRuntime(module) == {[module |-> m, runtime |-> "wasmer"] : m \in {module} \cap Present}

\* wasm.DefaultFactory.
Create(module, runtime) ==
    CASE runtime \in {"wazero", ""} -> NewWazeroRuntime(module)
      [] runtime = "wasmer" -> NewWasmerRuntime(module)
      [] OTHER -> {}
=============================================================================
