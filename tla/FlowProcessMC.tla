----------------------------- MODULE FlowProcessMC -----------------------------
(***************************************************************************)
(* The flow programs on directories of two files.  The texts: flows that   *)
(* commit by transactions, on one cluster, on two, and without an id; two  *)
(* HTTP flows that share their name and a third that shares a route; a     *)
(* Kafka flow to Temporal; a sink no program builds; and interceptors that *)
(* not every program knows.                                                *)
(***************************************************************************)
EXTENDS FlowProcess

Environment == {"ca.pem", "hook.wasm", "temporal:7233", "SECRET"}

Plain == [brokers |-> 1, mechanism |-> "", oauth |-> {}, username |-> "", password |-> "",
          tls |-> FALSE, caFile |-> "", certFile |-> "", keyFile |-> ""]
Secure == [Plain EXCEPT !.mechanism = "OAUTHBEARER", !.tls = TRUE, !.caFile = "ca.pem",
             !.oauth = {[provider |-> "azure", clientId |-> "id", scope |-> "all",
                         tenantId |-> "t", clientSecretEnv |-> "SECRET"]}]
Nowhere == [Plain EXCEPT !.brokers = 0]

Http(path) == [type |-> "http", addr |-> ":8081", path |-> path]
Kafka(start) == [type |-> "kafka", topic |-> "in", group |-> "g", start |-> start, cluster |-> "east"]
ToKafka(cluster) == [type |-> "kafka", topic |-> "out", cluster |-> cluster]
ToHttp == [type |-> "http", url |-> "http://sink", method |-> Absent]
ToTemporal ==
    [type |-> "temporal",
     temporal |-> {[taskQueue |-> "q", workflowType |-> "W", mode |-> "signal", signalName |-> "s",
                    hostPort |-> "temporal:7233", namespace |-> Absent, workflowIdExpr |-> "id",
                    tlsDisabled |-> FALSE, tlsEnabled |-> TRUE, caFile |-> "ca.pem",
                    certFile |-> Absent, keyFile |-> Absent,
                    apiKey |-> Absent, apiKeyEnv |-> Absent, tokenFile |-> Absent,
                    oidc |-> {[tokenURL |-> "u", clientID |-> "c", clientSecret |-> Absent,
                               clientSecretEnv |-> "SECRET"]},
                    azure |-> {}, params |-> <<"data.a", "">>]}]

Flow(name, source, sink) ==
    [name |-> name, source |-> source, sink |-> sink, fields |-> "none", interceptors |-> <<>>,
     maxRetries |-> 2, commitPolicy |-> "", transactionalId |-> "", deadLetterTopic |-> "",
     overrides |-> "none", clusters |-> [east |-> Plain, west |-> Secure]]

Transactional(name, sink) ==
    [Flow(name, Kafka([kind |-> "nil"]), sink) EXCEPT !.commitPolicy = "Kafka_Transaction",
                                                      !.transactionalId = "id"]

Hook(runtime) == [type |-> "wasm", module |-> "hook.wasm", runtime |-> runtime, execution |-> Absent]
Remote == [type |-> "grpc", module |-> Absent, runtime |-> Absent, execution |-> Absent]

TextDefinition ==
    [tx |-> Transactional("tx", ToKafka("east")),
     spanning |-> Transactional("tx", ToKafka("west")),
     noid |-> [Transactional("tx", ToKafka("east")) EXCEPT !.transactionalId = ""],
     orders |-> [Flow("orders", Http("/orders"), ToHttp) EXCEPT !.fields = "fields"],
     orders2 |-> [Flow("orders", Http(Absent), ToKafka("west")) EXCEPT !.interceptors = <<Hook(Absent)>>],
     clash |-> Flow("clash", Http("/orders"), ToHttp),
     workflow |-> Flow("workflow", Kafka([kind |-> "float", n |-> 4]), ToTemporal),
     stub |-> [Flow("stub", [type |-> "grpc", addr |-> ":9000"], [type |-> "grpc"]) EXCEPT !.maxRetries = 0],
     hooked |-> [Flow("hooked", [type |-> "grpc", addr |-> ":9000"], ToHttp)
                   EXCEPT !.interceptors = <<Hook("wasmer"), Remote>>],
     broken |-> [Flow("broken", Kafka([kind |-> "word", word |-> "earliest"]), ToHttp)
                   EXCEPT !.clusters = [east |-> Nowhere]]]

\* Pairs that meet in one way or another.
Directories ==
    {<<"tx", "none">>, <<"spanning", "orders">>, <<"noid", "workflow">>, <<"orders", "orders2">>,
     <<"clash", "orders">>, <<"workflow", "garbled">>, <<"stub", "none">>, <<"hooked", "tx">>,
     <<"none", "broken">>, <<"orders2", "hooked">>}

Writes == {<<1, "none">>, <<1, "orders">>, <<2, "orders2">>, <<2, "garbled">>}
=============================================================================
