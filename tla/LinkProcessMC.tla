----------------------------- MODULE LinkProcessMC -----------------------------
(***************************************************************************)
(* A Link program with files of one or two targets: an HTTP target with    *)
(* chains in both phases and one that may fail open, two targets of one    *)
(* name, a Kafka target, numbers where texts are expected and the other    *)
(* way round, numbers that are infinite or too long a time, an interceptor *)
(* whose module is missing after one that is there, and a Kafka target     *)
(* whose cluster is not in the file.                                       *)
(***************************************************************************)
EXTENDS LinkProcess

Environment == {"hook.wasm", "token"}

Num(n) == [kind |-> "int", n |-> n]
Yes == [kind |-> "bool", b |-> TRUE]

Hook(phase, failOpen) ==
    [type |-> "wasm", module |-> "hook.wasm", runtime |-> Absent, phase |-> phase, failOpen |-> failOpen]
Missing == [Hook("outbound", TRUE) EXCEPT !.module = "missing.wasm"]

NoBreaker == [enabled |-> None, failureThreshold |-> None, successThreshold |-> None, resetTimeout |-> None]
NoRetry == [maxAttempts |-> None, initialInterval |-> None, maxInterval |-> None, jitter |-> None]
NoLimit == [requestsPerSecond |-> None, burst |-> None]

Http ==
    [name |-> "api", protocol |-> "", host |-> "api.test", port |-> 0, auth |-> "bearer",
     secret |-> {[file |-> "token", env |-> ""]}, breaker |-> NoBreaker, retry |-> NoRetry,
     limit |-> NoLimit, kafka |-> {}, interceptors |-> <<>>]
Kafka(cluster) ==
    [Http EXCEPT !.name = "events", !.protocol = "kafka", !.host = "", !.auth = "none",
       !.kafka = {[topic |-> "t", cluster |-> cluster, key |-> [type |-> "header", field |-> "id", value |-> ""]]}]

\* A breaker given as numbers, with a threshold that is not one; a fraction of a
\* request per second.
Tuned ==
    [Http EXCEPT !.breaker = [enabled |-> Yes, failureThreshold |-> Num(-1), successThreshold |-> Yes,
                              resetTimeout |-> Num(500)],
                 !.retry = [NoRetry EXCEPT !.maxAttempts = Num(0), !.initialInterval = Num(-5)],
                 !.limit = [requestsPerSecond |-> [kind |-> "float", n |-> 5], burst |-> None],
                 !.auth = "token"]
Endless == [Http EXCEPT !.breaker.resetTimeout = [kind |-> "infinite"]]
TooLong == [Http EXCEPT !.retry.maxInterval = Num(MaxMillis + 1)]

\* Infinite numbers: a threshold the conversion makes negative, a limiter without a
\* limit, and a jitter that Validate refuses.
Infinite(n) == [kind |-> "infinite", n |-> n]
Unlimited ==
    [Http EXCEPT !.breaker = [NoBreaker EXCEPT !.enabled = Yes, !.failureThreshold = Infinite(-MaxInt - 1)],
                 !.limit = [requestsPerSecond |-> Infinite(10 * MaxInt + 10), burst |-> None]]
Jittery == [Http EXCEPT !.retry.jitter = Infinite(10 * MaxInt + 10)]

Clusters ==
    [main |-> [brokers |-> 1, mechanism |-> "", oauth |-> {}, username |-> "", password |-> "",
               tls |-> FALSE, caFile |-> "", certFile |-> "", keyFile |-> ""]]

File(targetsOfFile) == [targets |-> targetsOfFile, clusters |-> Clusters]

Hooked == [Http EXCEPT !.interceptors = <<Hook("outbound", FALSE), Hook("inbound", TRUE)>>]

SomeConfigs ==
    {File(<<Hooked>>),
     File(<<[Tuned EXCEPT !.interceptors = <<Hook("inbound", FALSE)>>], Http>>),
     File(<<[Kafka("main") EXCEPT !.interceptors = <<Hook("outbound", FALSE)>>], Tuned>>),
     File(<<Hooked, [Kafka("main") EXCEPT !.interceptors = <<Hook("", FALSE), Missing>>]>>),
     File(<<Unlimited>>),
     File(<<Kafka("other")>>), File(<<Endless>>), File(<<TooLong>>), File(<<Jittery>>)}

Interchangeable == Permutations(Requests)
=============================================================================
