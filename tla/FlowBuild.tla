------------------------------- MODULE FlowBuild -------------------------------
(***************************************************************************)
(* buildPipeline: how each of the three flow programs (cmd/fiso-flow,      *)
(* cmd/fiso-flow-wasmer, cmd/fiso-wasmer-aio) turns an accepted flow       *)
(* definition into a pipeline.  The programs have a copy each: fiso-flow's *)
(* is given here first, then what the other two repeat and what they       *)
(* change.  An operator is the set of the values it may return, empty when *)
(* the build fails.  The DLQ's NoopPublisher takes every event.            *)
(***************************************************************************)
EXTENDS FlowDefinitions, SequencesExt

\* The cluster one end of a flow names: none when it names none, or one that
\* kafka.clusters does not have.
Cluster(d, end) == {d.clusters[c] : c \in {Text(end.cluster)} \cap (DOMAIN d.clusters \ {""})}

\* Mutant: two clusters are as good as one.
OneCluster_Named(d) ==
    Policy(d) = "kafka_transaction" =>
        /\ d.source.type = "kafka" /\ d.sink.type = "kafka"
        /\ Text(d.source.cluster) # "" /\ Text(d.sink.cluster) # ""

\* A transaction cannot span clusters.
OneCluster(d) ==
    Policy(d) = "kafka_transaction" =>
        /\ d.source.type = "kafka" /\ d.sink.type = "kafka"
        /\ Text(d.source.cluster) # "" /\ Text(d.source.cluster) = Text(d.sink.cluster)

KafkaSourceConfig(d, c) ==
    [cluster |-> c, topic |-> Text(d.source.topic), group |-> Text(d.source.group),
     start |-> d.source.start, stopOnHandlerError |-> TRUE,
     stable |-> Policy(d) = "kafka_transaction",
     transactionalId |-> IF Policy(d) = "kafka_transaction" THEN d.transactionalId ELSE ""]

Source(d, routes) ==
    CASE d.source.type = "kafka" ->
           UNION {NewKafkaSource(KafkaSourceConfig(d, c)) : c \in Cluster(d, d.source)}
      [] d.source.type = "grpc" -> NewGrpcSource(Text(d.source.addr))
      [] d.source.type = "http" -> NewPooledSource(Text(d.source.addr), Text(d.source.path), routes)

\* The options of the YAML that temporal.Config takes.
Options(s) ==
    [k \in DOMAIN s |-> IF k \in {"tlsDisabled", "tlsEnabled", "oidc", "azure", "params"}
                        THEN s[k] ELSE Text(s[k])]

TemporalConfig(s) ==
    [Options(s) EXCEPT !.oidc = {Options(o) : o \in s.oidc},
                       !.azure = {Options(a) : a \in s.azure},
                       !.params = SelectSeq(s.params, LAMBDA e : e # "")]

KafkaSink(d) ==
    UNION {NewKafkaSink(c, Text(d.sink.topic), Policy(d) = "kafka_transaction") :
              c \in Cluster(d, d.sink)}

\* configs are the Temporal configurations a program makes of the section.
Sink(d, configs) ==
    CASE d.sink.type = "http" -> NewHttpSink(Text(d.sink.url), Text(d.sink.method), d.maxRetries)
      [] d.sink.type = "temporal" -> UNION {NewTemporalSink(t) : t \in configs}
      [] d.sink.type = "kafka" -> KafkaSink(d)
      [] OTHER -> {}

\* The dead letter topic of a flow: the configured one, else "fiso-dlq-" and the
\* flow's name.
DeadLetterTopic(d) == IF d.deadLetterTopic # "" THEN <<d.deadLetterTopic>> ELSE <<"fiso-dlq-", d.name>>

\* Dead letters go to the source's cluster; without one nobody keeps them.
DeadLetters(d) ==
    IF d.source.type = "kafka"
    THEN {[type |-> "kafka", cluster |-> c, topic |-> DeadLetterTopic(d)] :
             c \in {k \in Cluster(d, d.source) : NewPublisher(k)}}
    ELSE {[type |-> "noop"]}

\* A chain of one interceptor out of each set.
Made(choices) ==
    {chain \in [DOMAIN choices -> UNION Range(choices)] :
        \A i \in DOMAIN choices : chain[i] \in choices[i]}

\* fiso-flow runs WebAssembly in wazero whatever the runtime says.
FlowInterceptors(ics) ==
    Made([i \in DOMAIN ics |->
            IF ics[i].type = "wasm" THEN NewWazeroRuntime(Text(ics[i].module)) ELSE {}])

\* fiso-flow-wasmer lets the definition choose.
WasmerInterceptors(ics) ==
    Made([i \in DOMAIN ics |->
            IF ics[i].type = "wasm"
            THEN Create(Text(ics[i].module), Default(Text(ics[i].runtime), "wazero")) ELSE {}])

\* fiso-wasmer-aio leaves out what it does not know.
AioInterceptors(ics) ==
    LET Known == SelectSeq(ics, LAMBDA ic : ic.type = "wasm")
    IN  Made([i \in DOMAIN Known |-> Create(Text(Known[i].module), Text(Known[i].runtime))])

-----------------------------------------------------------------------------
(* The pipelines of the three programs.                                    *)

\* The parts together: New keeps the policy in its normal form.
Assembled(d, sources, sinks, letters, chains, overrides) ==
    {[name |-> d.name, policy |-> Policy(d), source |-> src, transformer |-> tr, sink |-> sk,
      deadLetters |-> dlq, interceptors |-> ch, overrides |-> overrides] :
        src \in {s \in sources : OneCluster(d)}, tr \in NewTransformer(d.fields),
        sk \in sinks, dlq \in letters, ch \in chains}

FlowSink(d) == Sink(d, {TemporalConfig(s) : s \in d.sink.temporal})

FlowPipeline(d, routes) ==
    Assembled(d, Source(d, routes), FlowSink(d), DeadLetters(d),
              FlowInterceptors(d.interceptors), d.overrides)

\* fiso-flow-wasmer's copy of the source, the sink and the dead letters.
WasmerSource(d, routes) == Source(d, routes)
WasmerTemporalConfig(s) == TemporalConfig(s)
WasmerSink(d) == Sink(d, {WasmerTemporalConfig(s) : s \in d.sink.temporal})
WasmerDeadLetters(d) == DeadLetters(d)

WasmerPipeline(d, routes) ==
    Assembled(d, WasmerSource(d, routes), WasmerSink(d), WasmerDeadLetters(d),
              WasmerInterceptors(d.interceptors), d.overrides)

\* fiso-wasmer-aio's copy knows four of the Temporal options, and leaves out the
\* overrides of CloudEvents.
AioSource(d, routes) == Source(d, routes)
AioTemporalConfig(s) ==
    LET Plain == [k \in DOMAIN s |->
                    IF k \in {"taskQueue", "workflowType", "hostPort", "namespace"}
                    THEN Text(s[k]) ELSE ""]
    IN  [Plain EXCEPT !.tlsDisabled = FALSE, !.tlsEnabled = FALSE, !.params = <<>>,
                      !.oidc = {}, !.azure = {}]
AioSink(d) == Sink(d, {AioTemporalConfig(s) : s \in d.sink.temporal})
AioDeadLetters(d) == DeadLetters(d)

AioPipeline(d, routes) ==
    Assembled(d, AioSource(d, routes), AioSink(d), AioDeadLetters(d),
              AioInterceptors(d.interceptors), "none")

Binaries == {"fiso-flow", "fiso-flow-wasmer", "fiso-wasmer-aio"}

BuildPipeline(binary, d, routes) ==
    CASE binary = "fiso-flow" -> FlowPipeline(d, routes)
      [] binary = "fiso-flow-wasmer" -> WasmerPipeline(d, routes)
      [] binary = "fiso-wasmer-aio" -> AioPipeline(d, routes)
=============================================================================
