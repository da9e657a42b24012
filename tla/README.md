# A TLA+ model of fiso

fiso moves events between systems. *fiso-flow* runs flows: a source (Kafka, HTTP,
gRPC), a transformation, interceptors, a sink (HTTP, Kafka, gRPC, Temporal) and a
dead letter queue. *fiso-link* is a forward proxy for outgoing calls with a
circuit breaker, a rate limit, retries, credentials and interceptors for each
target. Around them are a WebAssembly application manager, a Kubernetes operator
and a command line tool.

This directory holds TLA+ modules of the parts whose correctness depends on the
order of events, the TLC runs that check them on small instances, and TLAPS
proofs of what matters most for every instance.

## Inventory

Line numbers are those of the repository at the modelled commit.

| Part | Source | State it keeps | Operations | Hard behaviour |
| --- | --- | --- | --- | --- |
| Kafka source | `internal/source/kafka/kafka.go` | client position and marks; transactional session | `NewSource`, `Start` (two loops), `Close` | crash between acknowledge, mark and commit; partial polls; abort and rewind |
| Pipeline | `internal/pipeline/pipeline.go` | none across events | `Run`, `processEvent`, `handleFailure`, `Shutdown` | what an error means for the source under each commit policy |
| Sinks, dead letters | `internal/sink/*`, `internal/dlq` | clients | `Deliver`, `Send` | retries, backoff against a cancelled context |
| HTTP source pool | `internal/source/http/pool.go` | servers, paths, handlers, two levels of mutexes | `PreRegister`, `SetHandler`, `Start`, `Close` | two concurrent closers, requests that need the mutex a shutdown holds |
| Flow programs | `cmd/fiso-flow`, `cmd/fiso-flow-wasmer`, `cmd/fiso-wasmer-aio` | goroutines per flow, pool goroutine, watcher; the last also applications and a Link proxy | `run`, `buildPipeline` (three copies) | SIGTERM at any moment, one flow failing beside others, copies that differ |
| Circuit breaker | `internal/link/circuitbreaker` | state, two counters, time of the last failure | `Allow`, `RecordSuccess`, `RecordFailure` | outcomes of overlapping callers in any order |
| Link HTTP proxy | `internal/link/proxy/http.go`, `retry`, `ratelimit` | none of its own; breaker and bucket per target | `ServeHTTP` | early returns between admission and report, client gone during backoff |
| Link Kafka proxy, publisher pool | `internal/link/proxy/kafka.go`, `internal/kafka/pool.go` | publishers by cluster | `ServeHTTP`, `Get`, `Close` | publishers created on demand and closed at the end of the process, a retry loop that never waits |
| Link programs, interceptors | `cmd/fiso-link`, `cmd/fiso-wasmer-link`, `internal/link/interceptor`, `internal/interceptor` | five maps by target name; runtimes and chains | `run`, `Load`, `ProcessOutbound`, `ProcessInbound`, `Close` | loading that fails half way; runtimes closed under the requests that are left |
| Credentials, discovery | `internal/link/auth`, `internal/link/discovery` | caches with a time to live | `GetCredentials`, `Resolve` | check, look up outside the lock, store: overlapping lookups end in any order |
| Configuration | `internal/config`, `internal/link/config.go` | flows or targets by name | `Load`, `Watch`, `Validate` | files that change while they are read one by one, that do not parse, or whose values are of another kind |
| Transforms, CloudEvents, Temporal sink | `internal/pipeline`, `internal/transform/unified`, `internal/sink/temporal` | none; workflows live in the server | `processEvent`, `Deliver` | an id that must be the same at every delivery; calls whose answer is lost |
| Wasmer applications | `internal/wasmer`, `internal/wasm`, `cmd/fiso-wasmer` | running applications, port pool; each application's server and runner | `StartApp`, `StopApp`, `StopAll`, health checks | start fails half way; a stop that is cut short; checkers that need the mutex a stop holds |
| Operator, injector | `cmd/fiso-operator`, `internal/operator` | caches and queues of controller-runtime | `Reconcile` (two), `handleAdmission` | status written from stale copies, by replicas that crash; updates that fail; repeated admission |
| Helpers | `internal/correlation`, `internal/schema`, `internal/tracing`, `internal/observability`, `internal/jsonpath` | little or none | | data conversions |
| Command line | `internal/cli`, `cmd/fiso` | none | | developer tooling |

How they interact: `run` of fiso-flow builds a pipeline for every flow, starts the
HTTP pool and one goroutine for each flow, and a source calls the pipeline's
handler for each event. The handler's return value is what the source acts on: a
Kafka source commits or stops, an HTTP source answers 200 or 500. For a
transactional flow the source puts its transaction into the context and the Kafka
sink produces through it. In fiso-link `ServeHTTP` runs once for every request;
the requests of one target share its breaker and its bucket.

What makes each part correct, in short: an at-least-once flow commits only what is
settled, in order; a transactional flow commits offsets and output together; the
pool serves each path with its own flow and can be shut down; the breaker trips on
consecutive failures, lets nobody through while it is open and closes on successes;
the proxy answers every request and tells the breaker of every upstream call; a flow
program runs what its files say or says that it is not ready; a Link program gives its
parts only values they can work with and closes every runtime it made; a Temporal flow
starts no second workflow for an event it delivers twice; the operator's status is the
verdict on the spec it stands beside.

## Modules

| Module | Models | Checked by | Proved in |
| --- | --- | --- | --- |
| `OrderedDelivery` | what a manually committing flow promises (abstract) | `ImplementsDelivery` | `KafkaFlow_proofs` |
| `KafkaFlow` | the manual-commit loop, the pipeline's handler, the HTTP sink's retries, the DLQ, the process | `kafka_flow`, `kafka_fetch_error` | `KafkaFlow_proofs` |
| `TemporalFlow` | `KafkaFlow` with transform, CloudEvents, the Temporal sink and server | `temporal_flow` | `KafkaFlow_proofs` |
| `ExactlyOnce` | what a transactional flow promises (abstract) | `ImplementsExactlyOnce` | `KafkaTxFlow_proofs` |
| `KafkaTxFlow` | the transactional loop with the Kafka sink and the broker's transactions | `tx_flow` | `KafkaTxFlow_proofs` |
| `HttpPool` | the server pool, the flows' goroutines, requests, the process's start and end | `http_pool*` | `HttpPool_proofs` |
| `CircuitBreaker` | the breaker's three methods and its callers | with the next three | |
| `BreakerHistory` | a breaker with the history its properties are about (abstract for `LinkProxy`) | `proxy` | `LinkProxy_proofs` |
| `LinkProxy` | `ServeHTTP` for a target around `BreakerHistory` | `proxy` | `LinkProxy_proofs` |
| `KafkaProxy` | `ServeHTTP` for Kafka targets over the publisher pool, and the process, composed with `CircuitBreaker` | `kafka_proxy` | `KafkaProxy_proofs` |
| `WasmerApps` | the application manager, its port pool and health checkers, the applications' servers and runners, the process | `wasmer_apps` | `WasmerApps_proofs` |
| `FlowDefinitions` | what a flow definition may be and what the constructors make of one (operators) | with the next two | with `FlowProcess` |
| `FlowBuild` | the three programs' `buildPipeline` (operators) | with the next | with `FlowProcess` |
| `FlowProcess` | the three flow programs and the configuration loader | `flow_process` | `FlowProcess_proofs` |
| `LinkConfig` | decoding, validation and use of a Link configuration (operators) | with the next | with `LinkProcess` |
| `LinkProcess` | the Link programs: interceptors, DNS cache, requests, drain and close | `link_process` | `LinkProcess_proofs` |
| `Operator` | the controllers in their replicas, the API server, the webhook | `operator` | `LinkProcess_proofs` |

`*MC` modules give the constants of a module their values for TLC.
Definitions whose comment starts with "Mutant" are deliberately wrong variants of
the definition they are named after. They are used by no specification; each run
property is known to fail when one of them takes its original's place.

### KafkaFlow

The consumer goroutine is a program counter: `poll` (250), `next` (the iterator,
263), `transform`, `deliver`, `backoff`, `dlq` (the handler), `ack` (mark and
commit, 285-293), `failed` (276-298), `returned`; `down` is a process that is not
running. `position` is franz-go's fetch position, `cursor` the place in the polled
batch, `marked` what `MarkCommitRecords` has collected, `committed` the group's
offsets at the broker. A crash (`Crash`) or the end of `run` (`Exit`, which does
not wait for the flows' goroutines) can hit between any two steps and loses
everything but the broker's state. History variables say what happened to the
records: `acked`, `dlqd`, `dropped` (polled and abandoned by the loop), `skipped`
(resumed past by a restart without a commit). `settled` depends on the commit
policy. The data of records is abstracted away.

`OrderedDelivery` knows neither goroutines nor batches: records are settled in
order, commits move forward over records that are accounted for, and records that
are lost are named.

### KafkaTxFlow

The same process with `startTransactional` (306-382). The broker's transaction is
`none`, `open` or `undecided`: an `End` that fails after the offsets were added may
or may not have taken effect, and only the broker knows (`BrokerCommits`,
`BrokerAborts`). `RequireStableFetchOffset`, which the flow sets (main.go:251), makes a
starting consumer wait for the decision; the mutant `Start_Unstable` shows that it
is needed. `ExactlyOnce` moves the offsets and the output in one step.

### HttpPool

`ServerPool.mu` and each `sharedServer.mu` are variables only where they are held
across steps: `Close` holds both while `http.Server.Shutdown` waits for requests.
Everywhere else a critical section is one step, enabled when the mutex is free. A
request is `lookup` from its acceptance until it has found its handler under the
server's mutex, then `handling`.

### CircuitBreaker, BreakerHistory, LinkProxy

Each method of the breaker is one step under its mutex. `elapsed` is the time since
`lastFailure`, up to the reset timeout. `BreakerHistory` adds three history
variables. `LinkProxy` puts the requests of a target around the same breaker: a
request slot walks through `ServeHTTP` and is used again by the next request. The
outcome of every attempt together is one report to the breaker; requests that
return before the upstream call report nothing (`Abandon`). The requests are the breaker's
callers, so `LinkProxy` implements `BreakerHistory` (theorem `ProxyImplementsBreaker`),
and what is proved of the breaker holds of the requests on every path through
`ServeHTTP`.

### KafkaProxy

The slots in `Callers` are requests of the one target whose breaker is modelled; the
other slots belong to targets without a breaker that share the pool. `pc` follows
`ServeHTTP`: `allow` (124), `prepare` (rate limit to key, 134-224), `get` and
`create` (the two halves of `PublisherPool.Get`, each under its lock), `publish`
(one attempt), `published` or `failed`, `answered`. A cluster's clients are numbered
as they are made; `clients` is the pool's map, `closed` what `Close` has closed.
`copies` counts how often the request's record came to be in the topic: a publish
that fails may have written it. `main` is `run`: a signal starts the drain, which ends
when every request is answered or after ten seconds (`forced`); a server that fails
ends `run` without a drain (`forced` too); then the deferred `Close` of the pool
runs, and the process exits with whatever requests are left.

### WasmerApps

`StartApp` is one step under the manager's mutex. A stop holds that mutex for as long
as a server drains, so it is a program counter: `op` is the operation that holds the
mutex, `cur` the application it is at and `step` how far: `stop` (`Runtime.Stop` is
called), `drain` (in `Shutdown`, with the runtime's mutex held), `close` and `closing`
(`Runtime.Close`, which stops once more). `mayEnd` says that the context of the operation
may be done, and `cut` which applications' `Shutdown` returned its error. That can
happen without a request: `Shutdown` also waits for a new connection that has sent nothing.
`used` is the pool's map; `port` the port in an application's address, from which the
port to release is read back. A checker is `idle`, `asking`, then has a status to
store, for which it needs the manager's mutex; its `select` may still take the ticker after
its channel was closed. The process is `cmd/fiso-wasmer`; the mains of fiso-wasmer-aio and
fiso-wasmer-link start and stop their applications with the same calls. `StopApp` is an
operation of the manager's that no main calls; it is modelled as an operator's call beside
the process.

### FlowDefinitions, FlowBuild, FlowProcess

A flow definition is the record its YAML decodes to; `Validate` (config.go) and the
constructors are operators over it, and a constructor is the set of what it may return,
empty for an error. `FlowBuild` has the three copies of `buildPipeline`: what fiso-flow
does, what the others repeat, and where they differ. In `FlowProcess`, `binary` says which program
runs. The directory is `disk`; every edit reports `events` to the watcher, and `Load` reads
the listing file by file (`todo`, `found`), first for main, then for the watcher. `missed`
is a history variable: an edit no event tells of (before the watch is set up, a rename
out of the directory, a listing that failed). main walks through `load`, `build`, `link`,
`running`, `closing`, `ended`; `runners` are the pipelines built, `closed` the components
`Pipeline.Shutdown` has closed.

### LinkConfig, LinkProcess

A scalar of the Link file is a record with its kind, since `UnmarshalYAML` treats a value
of an unexpected kind as a missing one; `LinkConfig` has the decoding, the defaults,
`Validate`, and what `run` makes of the targets: breakers, limiters, credentials and
chains are kept by name in maps of their own. `LinkProcess` loads the interceptors one by
one (`making` for the target at hand, `kept` in the registry, `open` as long as their
resources are held) and lets requests walk through lookup, credentials, outbound chain,
upstream call and inbound chain while the process serves, drains and closes. `run` has returned
at `closing`; `Registry.Close` holds its lock at `locked`, the only time `GetChains` waits, and
has released it at `closed`. The address a
lookup returns is the moment it was right, so `age` is how stale a request's address was.
Breaker, limiter and retries are in `LinkProxy`. An infinite number is one the file can hold: Go leaves
its conversion to an int to the processor, so a count of one is any number, a burst made of an infinite rate 1
or the largest int; a number of milliseconds `time.ParseDuration` has no duration for is refused. `MaxInt` and
`MaxMillis` stand for the two limits, which TLC's integers cannot hold.

### TemporalFlow

The steps of `KafkaFlow` with what the data on the way decides. `Prepared` is the
pipeline: transform, then wrap, or merge when the result is a CloudEvent.
`ResolveWorkflowID` and `Arguments` are the sink's; the sink has no retry loop, so a call that
fails never backs off. The server is a sequence of runs; a
start under the id of an open run returns that run, a start without an id makes a
new one, and a call that fails may have been served (`DeliverFails`). `Key` says what
identifies an event for the property `OneOpenRunPerKey`: what the id override selects in
the business data, else the CloudEvent's own id, in flows whose template is the id. An event
has no key when that is empty or no text, when the override is one text for all events, or when the
transform makes or takes a CloudEvent.

### Operator

The API server's resources have a version, and a status update with another version is
refused; users write specs and leave statuses alone (the CRDs have a status
subresource). Each replica has a cache per kind that lags behind (`informer`, `Observe`), a queue, and
one worker per kind: `Get` reads the cache, `UpdateStatus` writes the verdict with the copy that was
read, `UpdateFails` is an update that is refused or lost, stored or not. A resource whose config
holds a value that is no text passes the CRD (`x-kubernetes-preserve-unknown-fields`) and does not decode
into the Go type. Every replica reconciles; with leader election, which the sample
deployment switches on, fewer do. Pods are admitted, and admitted again.

## Runs

| Run | Instance | Shows |
| --- | --- | --- |
| `kafka_flow` | 2 partitions, 2+1 records, 2 attempts, `sink_or_dlq`, start offset 1, no stop on handler error | commits covered, order, refinement of `OrderedDelivery`, drain ends, no record stuck |
| `kafka_fetch_error` | 2+1 records | fails: `NoMessageLoss` (see below) |
| `tx_flow` | 2+1 records | no output twice, output matches offsets, refinement of `ExactlyOnce`, drain ends |
| `temporal_flow` | 12 flows, 1 partition of 2 records, 3 runs, 3 signals | one open run per key, what is committed is known to the server or dead lettered, signals in order |
| `http_pool` | 2 flows in three configurations, 1 request | drained shutdown, requests answered, shutdown ends unless blocked |
| `http_pool_shutdown` | 1 flow, 1 request | fails: `ShutdownCompletes` |
| `flow_process` | 3 programs, 10 directories of 2 files, 2 edits, 1 failed listing | the table follows the directory at last, pipelines deliver as accepted, ready means built |
| `proxy` | 2 slots, thresholds 2 and 2, timeout 1, 2 attempts, bucket of 1 | when the breaker trips and closes, its callers accounted for, requests answered, breaker recovers |
| `kafka_proxy` | 2 slots of one cluster, one with a breaker (thresholds 2 and 1, timeout 1), 3 attempts | one client for a cluster, not closed in use unless the drain is cut short, answers true, requests answered |
| `link_process` | 9 files, 2 requests, time to live 1, lookups up to 2, clock to 4 | parts get values that fit, no interceptor skipped, runtimes closed, addresses fresh |
| `wasmer_apps` | 3 applications, 2 ports, one of them also configured, 1 checker, 1 caller | ports accounted for and distinct, runners closed after their requests unless a stop was cut, nothing left at the end, the stop ends |
| `operator` | 2 replicas, 2 resources, up to 2 edits, 1 crash, 6 pods | statuses are verdicts on their spec and settle, a sidecar once |

Why the bounds are enough: two partitions and three records give a batch with a
failed record in the middle, one after it and one on another partition, which is
all the loop's iteration order can tell apart; restarts and commit failures are
unbounded. A start offset of 1 is inside the first partition's log and never inside the
second's, where it acts as "latest" does. `kafka_flow` takes the settings under which the loop goes on after a failed
record; the theorems hold for every policy, start and setting. Two attempts give a retry
and a last attempt. Two records of a Temporal flow are two events of one key or of two,
either of which may be delivered again; three runs are one for each and one too many. Two flows in
the pool share a server, have two, or conflict; one request is enough for the
mutex, since requests do not wait for each other. Two files give a flow that is
defined twice, a broken file beside a good one, a route or a name that clashes, and a file that changes
after it was read while the other is not read yet; one edit more comes during the reload.
A request slot is reused without bound.
Two requests of a cluster are what it takes to race for its client; three attempts give
a first, a middle and a last one. Two requests are two lookups that overlap, and a clock of
four lets an address outlive its time to live and a lookup. Two replicas conflict with each other; two edits
delete a resource and create it again while a copy of the first is in use. Two applications that allocate and one with a port of
its own in the pool's range meet each other's ports in every order; one application with a checker
and a client has all there is between a stop and its requests.

Deadlock is checked in the runs of `KafkaFlow`, `KafkaTxFlow` and `LinkProxy`. In the others
the process exits or, in `temporal_flow` and `operator`, there is nothing left to do.

### Fairness

`KafkaFlow`: the goroutine is scheduled (weak fairness of every step of the loop
and of the handler) and polls of a partition that keeps having records find them
now and then (strong). Sinks, DLQ, restarts and crashes owe nothing.
`KafkaTxFlow`: the goroutine is scheduled, and a poll under a done context returns
the context's error sooner or later: an abort drops what the client has buffered.
`HttpPool`: every goroutine is scheduled; pipelines return. Clients, signals and
failures owe nothing. Weak fairness suffices for the mutexes: none is taken
infinitely often. `LinkProxy`: requests that were accepted are scheduled; for
`BreakerRecovers` also clients keep asking, time passes, the bucket refills, and a
request that reaches the limiter or the preparation again and again gets through
now and then (strong). `KafkaProxy`: a request's goroutine is scheduled and a publish returns within
its timeout of 30 seconds; clients, signals and failures owe nothing. `WasmerApps`: the
goroutines of servers, checkers and the stop are scheduled, and a runner's call returns, which the code
grants when a timeout is configured or the client gives up; a guest that loops for a
patient client would hold up `StopAll`, whose context has no end. `FlowProcess`: main and the
watcher are scheduled while they load, and nobody has to edit a file. `Operator`: a replica is told
of changes, a worker takes what is queued although replicas may crash and restart (strong), and an
update that is tried again and again is served now and then (strong); users and failures owe nothing.

## What the failing runs show

* `kafka_fetch_error`: `PollFetches` can return an error of one partition and
  records of others. Both loops (kafka.go:252-260 and 310-318) poll again without
  handling the records; the client's position is past them, so the next commit
  covers them. README.md:256 and docs/hld-specification.md:606 promise
  at-least-once. The abandoned records are named (`dropped`) in both models, and all
  other properties hold modulo these.
* `http_pool_shutdown`: `sharedServer.close` (436-444) waits in `Shutdown` with a
  background context while it holds the mutex a request needs for its handler
  lookup (149). `ShutdownUnlessBlocked` says that nothing else keeps a shutdown
  from its end. The same deadlock is possible without SIGTERM, when one server
  fails and `ServerPool.Start` closes the others.
### Known and not run

Disagreements between the code and its documents, and behaviour worth knowing, that no run
is spent on. The models do what the code does.

Flows.

* A group without a commit restarts at the end of the log (`startOffset` defaults to latest,
  kafka.go:130), or at a numeric start the log has reached since, so unsettled records of its first session are
  skipped (`skipped`). In `KafkaFlow` the start is a number: 0 is "earliest", one no log reaches "latest".
* README.md:623 promises hot reload; `Watch` keeps the loader's table, which `run` never
  reads again, and `OnChange` has no caller (`table` and `flows` of `FlowProcess`).
* `Validate` accepts a gRPC sink and gRPC or wasmer-app interceptors that no program builds, and one
  definition that cannot be built ends the whole process (main.go:142). fiso-wasmer-aio ignores
  interceptors it does not know and most of the Temporal options.
* Flows from other sources than Kafka get a dead letter queue that drops everything
  (`NoopPublisher`); docs/hld-specification.md:490 promises one.
* fiso-wasmer-aio returns without shutting its flows down when its Link proxy cannot be
  configured (main.go:232; `cause = "link"`), which the flows survive like a crash.
* A pool server whose goroutine is scheduled after `Close` starts to serve (pool.go:400 checks neither
  context nor closed state: `Listen`); `ServerPool.Start` closes every server when one fails.

Events and Temporal.

* README.md:466-472 shows typed parameters such as `data.eventId`; the sink binds the CloudEvent
  itself to `data`, so they fail for every event (`Arguments`).
* Override expressions over `id`, `type`, `source` or `subject` compile and are never bound: they
  give the empty text, which merging ignores and wrapping stores (`EvaluateCELExpression`). An override of
  `data` is different: merging ignores only what does not evaluate, and sets an empty text (`PassOrMergeCloudEvent`).
* Overrides of a wrapped event see the payload before the transform; those of a CloudEvent see its `data`.
* A flow without `workflowIdExpr`, or whose template resolves to nothing, gets a new workflow at every delivery.

Link.

* docs/hld-specification.md:530 lets a probe's success close the breaker; the code counts any caller's
  (`RecordSuccess`), and a half-open breaker admits every caller although the document lists one probe.
* A 5xx or 429 is drained and closed for the retry and then forwarded without its body (http.go:371),
  past the inbound interceptors.
* The Kafka targets' retries do not wait: the select between two attempts (kafka.go:277) looks at the
  attempt's context, which was cancelled on line 253, and its `break` does not end the loop (`PublishError`).
* Targets of one name share breakers, limiters, credentials and chains, each from the last target that
  has one (`BreakerOf`, `LimiterOf`).
* A drain that is cut short closes the registry under the requests that are left; an answer
  that comes later passes without its inbound chain (`undrained = "cut"`).

Applications.

* `StopApp` after one that failed closes the checker's channel again and panics (manager.go:233,
  `main = "panicked"`).
* A start that fails releases its configured port, which another application may have allocated (manager.go:150,
  176, 183, `StartFails`; the reason `PortsAccounted` and `AllocatedDistinct` except `Configured`).

Operator.

* A config value that is no text keeps a whole kind from being reconciled and restarts the manager every two
  minutes (`Decodes`, `SyncTimesOut`).
* The flow CRD admits the sources kafka and grpc; `ValidateFlowSpec` accepts http as well.
* `AdmissionResponse.Patch` is the JSON text itself where the Kubernetes API has base64 (inject.go:59).
* docs/hld-specification.md:849-862 has the webhook add a volume and an environment variable to the
  application; it adds the sidecar and the annotation only.

Command line.

* `fiso consume --max-messages n` prints whole polls and so more than the maximum its usage text names
  (consume.go:166-209).

## Proofs

TLAPS checks these theorems for every value of the constants that satisfies the
modules' `ASSUME`s; TLC evaluates the assumptions in the runs above.

| Theorem | States |
| --- | --- |
| `FlowTypeCorrect`, `FlowCommitsAccounted`, `FlowSettlesInOrder`, `FlowCommitsForward` | `TypeOK`, `CommittedAccounted`, `SettledInOrder`, `CommitMonotone` of `KafkaFlow` |
| `FlowImplementsDelivery` | `KafkaFlow` implements `OrderedDelivery` |
| `TemporalImplementsFlow` | `TemporalFlow` implements `KafkaFlow`, so the theorems above hold of it |
| `TemporalCommitsReached`, `TemporalSignalsInOrder`, `TemporalOneRunPerKey` | `CommittedReached`, `SignalsInOrder`, `OneOpenRunPerKey` of `TemporalFlow`, for any definitions and events |
| `TxTypeCorrect`, `TxNoOutputTwice`, `TxOutputMatchesOffsets` | `TypeOK`, `NoOutputTwice`, `OutputMatchesOffsets` of `KafkaTxFlow` |
| `TxImplementsExactlyOnce` | `KafkaTxFlow` implements `ExactlyOnce` |
| `BreakerTypeCorrect`, `BreakerTripsOnConsecutive`, `BreakerHalfOpenDecides`, `BreakerOpenAdmitsNobody` | `TypeOK`, `TripsOnConsecutive`, `HalfOpenDecides`, `OpenAdmitsNobody` of `BreakerHistory` |
| `PoolTypeCorrect`, `PoolRoutesDistinct`, `PoolDrained` | `TypeOK`, `RoutesDistinct`, `Drained` of `HttpPool` |
| `ProxyImplementsBreaker` | `LinkProxy` implements `BreakerHistory` |
| `ProxyTypeCorrect`, `ProxyCallersAccounted`, `ProxyTripsOnConsecutive`, `ProxyHalfOpenDecides`, `ProxyOpenAdmitsNobody` | `ProxyTypeOK` and `CallersAccounted` of `LinkProxy`, and the breaker's properties for its requests |
| `KafkaProxyTypeCorrect`, `KafkaNoClientLost`, `KafkaClosedAfterUse`, `KafkaAnswerTruthful`, `KafkaProxyCallers` | `KafkaTypeOK`, `NoClientLost`, `ClosedAfterUse`, `AnswerTruthful`, `KafkaCallersAccounted` of `KafkaProxy` |
| `AppsTypeCorrect`, `AppsPortsAccounted`, `AppsAllocatedDistinct`, `AppsServedUnlessCut`, `AppsAllStopped` | `TypeOK`, `PortsAccounted`, `AllocatedDistinct`, `ServedUnlessCut`, `AllStopped` of `WasmerApps` |
| `ProcessTypeCorrect`, `TableCorrect`, `DeliveryCorrect`, `ReadyCorrect`, `SignalClosed` | `TypeOK`, `TableFollowsDisk`, `DeliveryAsAccepted`, `ReadyMeansBuilt`, `SignalClosesAll` of `FlowProcess`, for every directory, set of definitions and environment |
| `LinkTypeCorrect`, `LinkRuntimesClosed`, `LinkIntercepted`, `LinkFreshAddress`, `LinkConfigFits` | `TypeOK`, `RuntimesClosed`, `Intercepted`, `FreshAddress`, `ConfigFits` of `LinkProcess`, for every file |
| `OperatorTypeCorrect`, `OperatorVerdictOfItsSpec`, `OperatorSidecarOnce` | `OperatorTypeOK`, `VerdictOfItsSpec`, `SidecarOnce` of `Operator`, for any number of replicas and resources |

The theorems about `KafkaTxFlow` but the first have the hypothesis
`RequireStableFetchOffset`: without it they are false, as the mutant `Start_Unstable`
shows, and `main.go:251` sets it for every flow with this policy.

What the assumptions about data say: a Link file decodes into targets with all their fields,
whose counts may be of any kind (`IsFile`); a Temporal flow has a mode the sink knows and the server
starts with one open workflow for an id at most; a resource's stored spec is one of its kind's, and the
pod is one pod (`IsPod`). `LinkConfigFits` says that what an accepted file gives a breaker, a
limiter or a publisher is at least one or not empty, which is what `CircuitBreaker`,
`LinkProxy` and `KafkaProxy` assume of their constants.

### The inductive invariants

Each module's `IInv` is a conjunction of named parts.

*KafkaFlow.* `CommittedAccounted` does not follow from itself: a commit copies a mark.
`Ordered` bounds `committed` and `marked` by the loop's `cursor`, and
`CursorAccounted` says that what lies below the cursor of a running loop was settled
or knowingly lost; so a mark is safe to commit. `Control` says what each place of the
loop implies (a record in hand lies below `position`; at `ack` it is settled), and
`HistoryInLog` and `AssignedTogether` keep the histories inside the partitions that were
assigned. `StepImplements` maps each action to a step of `OrderedDelivery` or to
a stutter.

*KafkaTxFlow.* Output is seen once because the records in the transaction lie at or
above the committed offsets when the transaction takes effect. `InTransaction`
promises that of the loop's open transaction, `BetweenTransactions` that what the client is
past before `Begin` was dropped, and `Undecided` promises it of a transaction whose
outcome only the broker knows. The last is preserved because such a transaction
exists only while no loop runs: the commit that leaves it ends the loop, and a
starting consumer waits until it is decided. `EffectAdvances` shows that a
transaction taking effect, from the loop or from the broker, is one `Advance`.

*BreakerHistory.* The counters are tied to the recorded outcomes: half-open, `recent` is
as many successes as `successes` counts (`CountsSuccesses`); closed, it ends with
exactly `failures` failures, fewer than the threshold (`CountsFailures`).

*HttpPool.* A server may be closed by either closer, be started by a goroutine that runs
after one of them passed it, or have stopped by itself. `Pending` says that a stopped server
with requests in flight is one main has still to close or one a closer waits for;
`Closing` (one closer at a time holds the pool's mutex, main only after the signal) and
`PoolServers` (only reserved servers run) support it, and `Reserved` gives the distinct
routes.

*LinkProxy.* `CallersAccounted` is inductive with the types and `Bounds`, which keeps the
breaker's failures below the threshold while closed and a request from backing off
after its last attempt. `ProxyImplementsBreaker` needs no invariant: every step of a request
is, on the breaker's variables, one of `BreakerHistory`'s steps or a stutter. The
breaker's theorems then hold of `ProxySpec`.

*KafkaProxy.* `ClosedAfterUse` is about a request and the pool's close, which no
single step relates: `Drained` says that nothing is closed while the pool is open
and that a pool closed without force has no active request, now or, since the
server no longer accepts, later. `PoolClients` says that the pool holds the latest
client made and that an open pool has made one at most, which is what the second
look in `Get` preserves. `Progress` ties a request's step to its attempts and
copies, and gives `AnswerTruthful`.

*WasmerApps.* `PortsAccounted` speaks of the time between operations only; during `StopAll` the map still
holds applications whose ports are released. `Live` is the set of those that are not done,
and `LivePorts` says of them, at any time, what the properties say of the map.
`Servers` relates the flags: an application that runs and does not listen is being
stopped or its stop was cut short, and a request in flight belongs to one of these or to one that
runs. That gives `ServedUnlessCut`. `Locking` ties `cur` and `step` to the mutex, and `Ended` says
that the process ends when no application is live.

*FlowProcess.* `DeliveryAsAccepted` is about operators, not about steps: `BuiltDelivers` shows for an
arbitrary definition that whatever any of the three `buildPipeline`s returns has the
properties, from lemmas about each constructor, and `Pipelines` says that what is in
`runners` was built so from an accepted definition (`AcceptedFlows`). `AllBuilt` ties `runners`
to the part of `flows` main is past, and gives `ReadyMeansBuilt`; `Places` and
`Signaled` are main's control. `TableFollowsDisk` does not follow from itself, since the
files change between a listing and the end of a reload: `Tracks` says that as long as
nothing is unreported, what was found together with the files still to be read gives
the directory's reading, and that the table is the reading once nothing is pending (`ReadOne`
reads one file, `FollowsReading` ends a reload).

*TemporalFlow.* `FlowStep` makes every step a step of `KafkaFlow`, whose `IInv` therefore holds. `ServerInv`
adds what the server has to do with the flow's history: what the sink acknowledged is with the server,
a signal with the one run it names (`AckedReached`, `IdsUnique`), and a run that was started for a record has
the id that record resolves to (`IdsOfEvents`). `CommittedReached` is then `CommittedAccounted`.
`SignalsInOrder` needs `CursorAccounted`: when a run hears of the record in hand, the records below the
cursor are accounted for, and one that was acknowledged and is addressed to this run was heard by
it. `OneOpenRunPerKey` rests on `KeyIsId`, a fact about data: through wrapping or merging, the
nested field and the template, the key of an event becomes the one text of its workflow id.

*LinkProcess.* `Registered` says where `Load` is: the runtimes that are open are those kept and those being
made, and every target before the current one has its chains; that gives `RuntimesClosed`.
`Served` follows a request that is not cut off: in a phase, the interceptors of its target that it has not
passed are in the rest of its chain (`Left`), whose runtimes are open. `CacheFresh` bounds the
age of a cached address by its expiry, whichever lookup wrote it, and `Placed` that of a lookup under
way. `ConfigFits` needs `FileAccepted` and lemmas about `Decode` and what `run` makes of a target.

*Operator.* `VerdictOfItsSpec` holds because a resource version names one spec: `StatusInv` says of every copy, in
an informer or in a call of a controller, that it is from the past and has the stored spec if its
version is still the stored one (`IsCopy`). An update that is not refused therefore judged the spec
it is stored with. It is preserved since every write takes a version no copy has (`NextVersion`). `PodInv`
says that the pod is the submitted one or that one with its sidecar.

### Only model-checked

Liveness (`DrainTerminates`, `NoRecordStuck`, `RequestsAnswered`, `BreakerRecovers`,
`KafkaRequestsAnswered`, `ShutdownUnlessBlocked`, `StopCompletes`, `ChangesLoaded`, `StatusSettles`),
which is out of the prover's reach: the proofs have no fairness and no `ENABLED`. Every safety
and action property of a passing run is proved. What a recursive definition computes for every input would need
induction, which the provers cannot do: `Lookup` and `ResolveWorkflowID` are expanded for paths and
templates of one piece (`LookupOne`, `IdOfOne`), the only ones keys depend on; for the others
the theorems use only that they are functions of the event and the definition.

## Not modelled

Consumer group rebalances: one member owns every partition. Libraries and servers are not in the
repository and are modelled from how the code uses them: franz-go and the brokers (automatic commits
off, marks committed by `CommitMarkedOffsets`, `GroupTransactSession`), `net/http`,
`golang.org/x/time/rate`, fsnotify, the Temporal client and server, controller-runtime and the API server.
CEL's operators and functions are cel-go's: an expression here is the path it selects.

Left out of the data: the start offset of the transactional flow is "earliest"; overrides of a wrapped event's
subject, content type and schema, which are resolved as those of its source and type; that a configured dead
letter topic may be another flow's default one.

Left out because no program reaches it: the Vault provider, the gRPC sink, the gRPC interceptor and the plain
HTTP source, `internal/jsonpath`, `TargetStore.Update` and `Names`, `ServerPool.Register`, `OnChange`'s callbacks, the
reverse proxy `internal/wasmer/proxy.go`, the reconcilers of `internal/operator/reconciler.go` (their
validation is modelled), and a start under the name of a stopped application.

Left out because it has no state to go wrong in: correlation, schema, tracing, metrics, logging; the gRPC source's
`Start` and `Close`, thin around the library; the operator's webhook-only mode, two servers and a signal. The
command line tool writes files and runs docker compose for a developer; nothing in it
runs beside anything else. Leader election is a library's; the model lets every replica reconcile.

## Plan

Done: the modules above, in this order: the at-least-once flow first, since it is what fiso-flow is for,
then the transactional flow, the pool, the two kinds of proxy target, the application manager, the flow
programs with their configuration, the Link programs with theirs, the Temporal flow, and the operator.

Every safety and action property that a run checks is proved as well. What is left:

1. the enabling facts behind the liveness properties, as far as they can be stated as safety: that a step of
   the loop, of a request or of a stop is possible wherever it waits;
2. in the theorems about `Operator`, that a call of a controller is never about a resource that is neither queued
   nor read again, which is the safety half of `StatusSettles`.
