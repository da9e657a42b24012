------------------------------ MODULE LinkConfig ------------------------------
(***************************************************************************)
(* The configuration of Fiso-Link (internal/link/config.go): how a target  *)
(* of the YAML file is decoded, which configurations Validate accepts, and *)
(* what run() makes of the targets (cmd/fiso-link, cmd/fiso-wasmer-link,   *)
(* cmd/fiso-wasmer-aio): breakers, limiters, credentials and chains are    *)
(* each kept by the target's name, and a later target of the same name     *)
(* takes the place of an earlier one in each of them by itself.            *)
(*                                                                         *)
(* A scalar of the YAML file is a record with its kind, "none" when the    *)
(* key is missing.  n is what the field makes of a number: a count has its *)
(* fraction cut off, and of .inf or .nan what the processor's conversion   *)
(* leaves; a rate is in tenths, .inf more than any other, and .nan 0, as   *)
(* which it compares; an interval is in milliseconds.                      *)
(***************************************************************************)
EXTENDS FlowDefinitions

None == [kind |-> "none"]
Empty == [kind |-> "empty"]
Millis(n) == [kind |-> "duration", ms |-> n]
Words == [kind |-> "words"]     \* a text time.ParseDuration refuses

-----------------------------------------------------------------------------
(* UnmarshalYAML: a value of an unexpected kind counts as missing.         *)

Number(raw) == IF raw.kind \in {"int", "float", "infinite"} THEN raw.n ELSE 0

\* The largest int, and the milliseconds of the longest time.Duration (model bounds).
MaxInt == 100000
MaxMillis == 10000

Interval(raw) ==
    CASE raw.kind \in {"int", "float"} -> IF raw.n \in -MaxMillis..MaxMillis THEN Millis(raw.n) ELSE Words
      [] raw.kind = "infinite" -> Words
      [] raw.kind = "text" -> raw.text
      [] OTHER -> Empty

DecodeBreaker(raw) ==
    [enabled |-> raw.enabled.kind = "bool" /\ raw.enabled.b,
     failureThreshold |-> Number(raw.failureThreshold),
     successThreshold |-> Number(raw.successThreshold),
     resetTimeout |-> Interval(raw.resetTimeout)]

DecodeRetry(raw) ==
    [maxAttempts |-> Number(raw.maxAttempts), initialInterval |-> Interval(raw.initialInterval),
     maxInterval |-> Interval(raw.maxInterval), jitter |-> Number(raw.jitter)]

DecodeRateLimit(raw) ==
    [requestsPerSecond |-> Number(raw.requestsPerSecond), burst |-> Number(raw.burst)]

\* LoadConfig's target: decoded, and https unless it says otherwise.
Decode(raw) ==
    [raw EXCEPT !.protocol = Default(raw.protocol, "https"), !.breaker = DecodeBreaker(raw.breaker),
                !.retry = DecodeRetry(raw.retry), !.limit = DecodeRateLimit(raw.limit)]

-----------------------------------------------------------------------------
(* Validate.                                                               *)

ValidKey(k) ==
    /\ k.type \in {"", "uuid", "header", "payload", "static", "random"}
    /\ k.type \in {"header", "payload"} => k.field # ""
    /\ k.type = "static" => k.value # ""

ValidKafkaTarget(t, clusters) ==
    /\ t.host = ""
    /\ \E k \in t.kafka : k.topic # "" /\ k.cluster # "" /\ k.cluster \in DOMAIN clusters /\ ValidKey(k.key)

ValidInterval(i) == i.kind # "words"

MaxPort == 65535

ValidTarget(t, clusters) ==
    /\ t.name # ""
    /\ t.protocol \in {"http", "https", "grpc", "kafka"}
    /\ t.protocol # "kafka" => t.host # ""
    /\ t.port \in 0..MaxPort
    /\ t.protocol = "kafka" => ValidKafkaTarget(t, clusters)
    /\ ValidInterval(t.breaker.resetTimeout)
    /\ ValidInterval(t.retry.initialInterval) /\ ValidInterval(t.retry.maxInterval)
    /\ t.retry.jitter \in 0..10
    /\ t.limit.requestsPerSecond >= 0 /\ t.limit.burst >= 0
    /\ \A i \in 1..Len(t.interceptors) : t.interceptors[i].type = "wasm"

ValidLinkConfig(cfg) ==
    /\ \A i \in 1..Len(cfg.targets) : ValidTarget(cfg.targets[i], cfg.clusters)
    /\ \A c \in DOMAIN cfg.clusters : ValidCluster(cfg.clusters[c])

-----------------------------------------------------------------------------
(* What is kept by a target's name: the last one that has it.              *)

\* The last of the places that holds a target of that name, as a set.
LastWith(targets, name, places) ==
    LET Of == {i \in places : targets[i].name = name}
    IN  {i \in Of : \A j \in Of : j <= i}

\* TargetStore.Get.
Target(targets, name) == {targets[i] : i \in LastWith(targets, name, DOMAIN targets)}

\* Mutant: the thresholds are taken as they are.
BreakerConfig_AsIs(t) ==
    [failureThreshold |-> t.breaker.failureThreshold, successThreshold |-> t.breaker.successThreshold,
     resetTimeout |-> IF t.breaker.resetTimeout.kind = "duration" THEN t.breaker.resetTimeout.ms ELSE 30000]

\* DefaultConfig, unless the target says otherwise.  A negative reset timeout
\* has elapsed as soon as the breaker opens.
BreakerConfig(t) ==
    [failureThreshold |-> IF t.breaker.failureThreshold > 0 THEN t.breaker.failureThreshold ELSE 5,
     successThreshold |-> IF t.breaker.successThreshold > 0 THEN t.breaker.successThreshold ELSE 3,
     resetTimeout |-> IF t.breaker.resetTimeout.kind = "duration" THEN t.breaker.resetTimeout.ms ELSE 30000]

BreakerOf(targets, name) ==
    LET Enabled == {i \in DOMAIN targets : targets[i].breaker.enabled}
    IN  {BreakerConfig(targets[i]) : i \in LastWith(targets, name, Enabled)}

\* ratelimit.Limiter.Set.  Of a rate that is no int the processor's conversion
\* leaves the smallest one or the largest.
LimiterBurst(t) ==
    LET rps == t.limit.requestsPerSecond \div 10
    IN  IF t.limit.burst > 0 THEN {t.limit.burst}
        ELSE IF rps > MaxInt THEN {1, MaxInt} ELSE IF rps < 1 THEN {1} ELSE {rps}

LimiterOf(targets, name) ==
    LET Limited == {i \in DOMAIN targets : targets[i].limit.requestsPerSecond > 0}
    IN  UNION {LimiterBurst(targets[i]) : i \in LastWith(targets, name, Limited)}

\* buildRetryConfig, and the Kafka proxy's count.
MaxAttemptsOf(t) == IF t.retry.maxAttempts > 0 THEN t.retry.maxAttempts ELSE 3

CapitalizeAuthType(type) ==
    CASE type = "bearer" -> "Bearer" [] type = "apikey" -> "APIKey" [] type = "basic" -> "Basic"
      [] OTHER -> type

AuthOf(targets, name) ==
    LET HasSecret == {i \in DOMAIN targets : targets[i].auth \notin {"", "none"} /\ targets[i].secret # {}}
    IN  UNION {{[type |-> CapitalizeAuthType(targets[i].auth), secret |-> s] : s \in targets[i].secret} :
                  i \in LastWith(targets, name, HasSecret)}

\* SecretProvider.readSecret: the file before the variable.
ReadSecret(s) ==
    IF s.file # "" THEN Readable({s.file}) ELSE s.env # "" /\ s.env \in Present

\* GetCredentials: the headers it adds ("none" too for a type it does not know),
\* or nothing when it fails.
GetCredentials(targets, name) ==
    IF AuthOf(targets, name) = {} THEN {"none"}
    ELSE {IF a.type \in {"Bearer", "APIKey", "Basic"} THEN a.type ELSE "none" :
             a \in {b \in AuthOf(targets, name) : ReadSecret(b.secret)}}

\* createInterceptor.
CreateInterceptor(ic) ==
    IF ic.type = "wasm" /\ ic.module # Absent
    THEN Create(ic.module, IF ic.runtime = Absent THEN "wazero" ELSE ic.runtime) ELSE {}

\* Where an interceptor of a chain runs: outbound unless it says inbound.
IsInbound(ic) == ic.phase = "inbound"
=============================================================================
