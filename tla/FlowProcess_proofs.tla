-------------------------- MODULE FlowProcess_proofs --------------------------
(***************************************************************************)
(* The flow programs for every directory, every set of flow definitions    *)
(* and every environment: the loader's table catches up with the           *)
(* directory, what is built delivers as its file was accepted, readiness   *)
(* means that every flow was built, and a signal closes all of it.         *)
(***************************************************************************)
EXTENDS FlowProcess, TLAPS, FiniteSetTheorems

-----------------------------------------------------------------------------
(* buildPipeline.                                                          *)

\* What DeliveryAsAccepted says of one pipeline.
Delivers(p) ==
    /\ p.policy = "kafka_transaction" =>
          /\ p.source.type = "kafka" /\ p.source.transactionalId # "" /\ p.source.stable
          /\ p.sink.type = "kafka" /\ p.sink.transactional
          /\ p.sink.cluster = p.source.cluster
    /\ p.policy # "kafka_transaction" =>
          /\ p.source.type = "kafka" => p.source.transactionalId = ""
          /\ p.sink.type = "kafka" => ~p.sink.transactional
    /\ p.source.type = "kafka" =>
          /\ p.source.stopOnHandlerError
          /\ p.deadLetters.type = "kafka" /\ p.deadLetters.cluster = p.source.cluster

\* The Kafka source of a definition carries its transaction or none.
LEMMA KafkaSourceParts ==
    ASSUME NEW d, NEW routes, d.source.type = "kafka", NEW src \in Source(d, routes)
    PROVE  /\ src.type = "kafka"
           /\ src.cluster = d.clusters[Text(d.source.cluster)]
           /\ src.stopOnHandlerError
           /\ Policy(d) = "kafka_transaction" => src.stable
           /\ src.transactionalId = IF Policy(d) = "kafka_transaction" THEN d.transactionalId ELSE ""
<1>1. src \in UNION {NewKafkaSource(KafkaSourceConfig(d, c)) : c \in Cluster(d, d.source)}
  BY DEF Source
<1>2. PICK c \in Cluster(d, d.source) : src \in NewKafkaSource(KafkaSourceConfig(d, c))
  BY <1>1
<1>3. c = d.clusters[Text(d.source.cluster)]
  BY DEF Cluster
<1> DEFINE cfg == KafkaSourceConfig(d, c)
<1>4. PICK at \in ResolveStartOffset(cfg.start) :
         src = [type |-> "kafka", cluster |-> cfg.cluster, topic |-> cfg.topic, group |-> cfg.group,
                start |-> at, transactionalId |-> cfg.transactionalId, stable |-> cfg.stable,
                stopOnHandlerError |-> cfg.stopOnHandlerError]
  BY <1>2 DEF NewKafkaSource
<1>5. /\ src.type = "kafka" /\ src.cluster = cfg.cluster
      /\ src.transactionalId = cfg.transactionalId
      /\ src.stable = cfg.stable /\ src.stopOnHandlerError = cfg.stopOnHandlerError
  <2> HIDE DEF cfg
  <2> QED
    BY <1>4
<1>6. /\ cfg.cluster = c /\ cfg.stopOnHandlerError = TRUE
      /\ cfg.stable = (Policy(d) = "kafka_transaction")
      /\ cfg.transactionalId = IF Policy(d) = "kafka_transaction" THEN d.transactionalId ELSE ""
  BY DEF KafkaSourceConfig
<1> HIDE DEF cfg
<1> QED
  BY <1>3, <1>5, <1>6

\* The other sources are none of Kafka's.
LEMMA OtherSourceParts ==
    ASSUME NEW d, NEW routes, d.source.type \in {"grpc", "http"}, NEW src \in Source(d, routes)
    PROVE  /\ src.type = d.source.type
           /\ src.type = "http" => src.route \notin routes
<1>1. CASE d.source.type = "grpc"
  <2>1. src \in NewGrpcSource(Text(d.source.addr))
    BY <1>1 DEF Source
  <2>2. PICK a : src = [type |-> "grpc", addr |-> a]
    BY <2>1 DEF NewGrpcSource
  <2> QED
    BY <1>1, <2>2
<1>2. CASE d.source.type = "http"
  <2>1. src \in NewPooledSource(Text(d.source.addr), Text(d.source.path), routes)
    BY <1>2 DEF Source
  <2>2. PICK q : q \notin routes /\ src = [type |-> "http", route |-> q]
    BY <2>1 DEF NewPooledSource
  <2> QED
    BY <1>2, <2>2
<1> QED
  BY <1>1, <1>2

\* Dead letters of a Kafka flow stay on its cluster.
LEMMA DeadLetterParts ==
    ASSUME NEW d, d.source.type = "kafka", NEW dlq \in DeadLetters(d)
    PROVE  dlq.type = "kafka" /\ dlq.cluster = d.clusters[Text(d.source.cluster)]
<1>1. PICK c \in Cluster(d, d.source) :
         dlq = [type |-> "kafka", cluster |-> c, topic |-> DeadLetterTopic(d)]
  BY DEF DeadLetters
<1>2. c = d.clusters[Text(d.source.cluster)]
  BY DEF Cluster
<1> QED
  BY <1>1, <1>2

\* The Kafka sink produces in a transaction just when the policy asks for one.
LEMMA KafkaSinkParts ==
    ASSUME NEW d, NEW sk \in KafkaSink(d)
    PROVE  /\ sk.type = "kafka"
           /\ sk.cluster = d.clusters[Text(d.sink.cluster)]
           /\ sk.transactional = (Policy(d) = "kafka_transaction")
<1>1. PICK c \in Cluster(d, d.sink) :
         sk \in NewKafkaSink(c, Text(d.sink.topic), Policy(d) = "kafka_transaction")
  BY DEF KafkaSink
<1>2. c = d.clusters[Text(d.sink.cluster)]
  BY DEF Cluster
<1> DEFINE transactional == Policy(d) = "kafka_transaction"
<1>3. PICK t : sk = [type |-> "kafka", cluster |-> c, topic |-> t, transactional |-> transactional]
  BY <1>1 DEF NewKafkaSink
<1> HIDE DEF transactional
<1>4. sk.type = "kafka" /\ sk.cluster = c /\ sk.transactional = transactional
  BY <1>3
<1> QED
  BY <1>2, <1>4 DEF transactional

\* What the sinks of the three programs have in common, whatever each makes of the
\* Temporal options.
SinkFits(d, sk) ==
    /\ d.sink.type = "kafka" => sk \in KafkaSink(d)
    /\ d.sink.type # "kafka" => sk.type # "kafka"

\* The sinks that are none of Kafka's.
LEMMA HttpSinkType ==
    ASSUME NEW url, NEW method, NEW n, NEW sk \in NewHttpSink(url, method, n)
    PROVE  sk.type # "kafka"
<1>1. PICK u : sk = [type |-> "http", url |-> u, method |-> Default(method, "POST"),
                     maxAttempts |-> IF n <= 0 THEN 1 ELSE n]
  BY DEF NewHttpSink
<1> QED
  BY <1>1

LEMMA TemporalSinkType ==
    ASSUME NEW t, NEW sk \in NewTemporalSink(t)
    PROVE  sk.type # "kafka"
<1>1. PICK c : sk = [type |-> "temporal", client |-> c, taskQueue |-> t.taskQueue,
                     workflowType |-> t.workflowType, workflowIdExpr |-> t.workflowIdExpr,
                     mode |-> Default(t.mode, "start"), signalName |-> t.signalName,
                     params |-> t.params]
  BY DEF NewTemporalSink
<1> QED
  BY <1>1

LEMMA SinkParts ==
    ASSUME NEW d, NEW configs, NEW sk \in Sink(d, configs)
    PROVE  SinkFits(d, sk)
<1>1. CASE d.sink.type = "kafka"
  BY <1>1 DEF Sink, SinkFits
<1>2. CASE d.sink.type # "kafka"
  <2>1. \/ sk \in NewHttpSink(Text(d.sink.url), Text(d.sink.method), d.maxRetries)
        \/ \E t : sk \in NewTemporalSink(t)
    BY <1>2 DEF Sink
  <2>2. sk.type # "kafka"
    BY <2>1, HttpSinkType, TemporalSinkType
  <2> QED
    BY <1>2, <2>2 DEF SinkFits
<1> QED
  BY <1>1, <1>2

\* The parts are put together as Delivers asks, whichever program does it.
LEMMA AssembledDelivers ==
    ASSUME NEW d, Validate(d), NEW routes, NEW sinks, \A sk \in sinks : SinkFits(d, sk),
           NEW chains, NEW overrides,
           NEW p \in Assembled(d, Source(d, routes), sinks, DeadLetters(d), chains, overrides)
    PROVE  /\ p.name = d.name
           /\ Delivers(p)
           /\ p.source.type = "http" => p.source.route \notin routes
<1> DEFINE sources == {s \in Source(d, routes) : OneCluster(d)}
<1> DEFINE Part(src, tr, sk, dlq, ch) ==
      [name |-> d.name, policy |-> Policy(d), source |-> src, transformer |-> tr,
       sink |-> sk, deadLetters |-> dlq, interceptors |-> ch, overrides |-> overrides]
<1>1. PICK src \in Source(d, routes), tr \in NewTransformer(d.fields), sk \in sinks,
           dlq \in DeadLetters(d), ch \in chains :
         OneCluster(d) /\ p = Part(src, tr, sk, dlq, ch)
  <2>1. p \in {Part(src, tr, sk, dlq, ch) :
                 src \in sources, tr \in NewTransformer(d.fields), sk \in sinks,
                 dlq \in DeadLetters(d), ch \in chains}
    BY DEF Assembled
  <2> HIDE DEF Part, sources
  <2>2. PICK src \in sources, tr \in NewTransformer(d.fields), sk \in sinks,
             dlq \in DeadLetters(d), ch \in chains : p = Part(src, tr, sk, dlq, ch)
    BY <2>1
  <2>3. src \in Source(d, routes) /\ OneCluster(d)
    BY DEF sources
  <2> QED
    BY <2>2, <2>3
<1>2. /\ p.name = d.name /\ p.policy = Policy(d) /\ p.source = src /\ p.sink = sk
      /\ p.deadLetters = dlq
  BY <1>1
<1>3. /\ d.source.type \in {"kafka", "grpc", "http"}
      /\ Policy(d) = "kafka_transaction" =>
           d.source.type = "kafka" /\ d.sink.type = "kafka" /\ d.transactionalId # ""
  BY DEF Validate, ValidPolicies
<1>4. SinkFits(d, sk)
  OBVIOUS
<1>5. CASE Policy(d) = "kafka_transaction"
  <2>1. d.source.type = "kafka" /\ d.sink.type = "kafka" /\ d.transactionalId # ""
    BY <1>3, <1>5
  <2>2. Text(d.source.cluster) = Text(d.sink.cluster)
    BY <1>1, <1>5 DEF OneCluster
  <2>3. /\ src.type = "kafka" /\ src.cluster = d.clusters[Text(d.source.cluster)]
        /\ src.stopOnHandlerError /\ src.stable /\ src.transactionalId = d.transactionalId
    BY <2>1, <1>5, KafkaSourceParts
  <2>4. dlq.type = "kafka" /\ dlq.cluster = d.clusters[Text(d.source.cluster)]
    BY <2>1, DeadLetterParts
  <2>5. sk.type = "kafka" /\ sk.cluster = d.clusters[Text(d.sink.cluster)] /\ sk.transactional
    BY <2>1, <1>4, <1>5, KafkaSinkParts DEF SinkFits
  <2> QED
    BY <1>2, <1>5, <2>1, <2>2, <2>3, <2>4, <2>5 DEF Delivers
<1>6. CASE Policy(d) # "kafka_transaction"
  <2>1. sk.type = "kafka" => ~sk.transactional
    <3>1. CASE d.sink.type = "kafka"
      BY <3>1, <1>4, <1>6, KafkaSinkParts DEF SinkFits
    <3>2. CASE d.sink.type # "kafka"
      BY <3>2, <1>4 DEF SinkFits
    <3> QED
      BY <3>1, <3>2
  <2>2. CASE d.source.type = "kafka"
    <3>1. /\ src.type = "kafka" /\ src.cluster = d.clusters[Text(d.source.cluster)]
          /\ src.stopOnHandlerError /\ src.transactionalId = ""
      BY <2>2, <1>6, KafkaSourceParts
    <3>2. dlq.type = "kafka" /\ dlq.cluster = d.clusters[Text(d.source.cluster)]
      BY <2>2, DeadLetterParts
    <3> QED
      BY <1>2, <1>6, <2>1, <3>1, <3>2 DEF Delivers
  <2>3. CASE d.source.type \in {"grpc", "http"}
    <3>1. src.type = d.source.type /\ (src.type = "http" => src.route \notin routes)
      BY <2>3, OtherSourceParts
    <3> QED
      BY <1>2, <1>6, <2>1, <2>3, <3>1 DEF Delivers
  <2> QED
    BY <1>3, <2>2, <2>3
<1> QED
  BY <1>5, <1>6

\* A pipeline of an accepted definition has its name and delivers as it says, and
\* takes no route that is given away.
LEMMA BuiltDelivers ==
    ASSUME NEW b \in Binaries, NEW d, Validate(d), NEW routes, NEW p \in BuildPipeline(b, d, routes)
    PROVE  /\ p.name = d.name
           /\ Delivers(p)
           /\ p.source.type = "http" => p.source.route \notin routes
<1>1. CASE b = "fiso-flow"
  <2>1. p \in Assembled(d, Source(d, routes), FlowSink(d), DeadLetters(d),
                        FlowInterceptors(d.interceptors), d.overrides)
    BY <1>1 DEF BuildPipeline, FlowPipeline
  <2> QED
    BY <2>1, AssembledDelivers, SinkParts DEF FlowSink
<1>2. CASE b = "fiso-flow-wasmer"
  <2>1. p \in Assembled(d, Source(d, routes), WasmerSink(d), DeadLetters(d),
                        WasmerInterceptors(d.interceptors), d.overrides)
    BY <1>2 DEF BuildPipeline, WasmerPipeline, WasmerSource, WasmerDeadLetters
  <2> QED
    BY <2>1, AssembledDelivers, SinkParts DEF WasmerSink
<1>3. CASE b = "fiso-wasmer-aio"
  <2>1. p \in Assembled(d, Source(d, routes), AioSink(d), DeadLetters(d),
                        AioInterceptors(d.interceptors), "none")
    BY <1>3 DEF BuildPipeline, AioPipeline, AioSource, AioDeadLetters
  <2> QED
    BY <2>1, AssembledDelivers, SinkParts DEF AioSink
<1> QED
  BY <1>1, <1>2, <1>3 DEF Binaries

-----------------------------------------------------------------------------
(* The inductive invariant.                                                *)

\* Every flow of a map is under its own name, in a text that is valid.
Accepted(m) ==
    \A n \in DOMAIN m :
        m[n] \in DOMAIN Definition /\ Validate(Definition[m[n]]) /\ Definition[m[n]].name = n

AcceptedFlows == Accepted(found) /\ Accepted(flows)

\* What each place of run() implies.
Places ==
    /\ main = "load" => running = {} /\ runners = <<>>
    /\ loading = "main" => main = "load"
    /\ Aio /\ (loading = "main" \/ main \in {"build", "link", "running", "closing"})
          => apps = "running"
    /\ main = "closing" => link # "serving"

\* The pipelines: each one's own flow, built as it was accepted, on its own route.
Pipelines ==
    /\ runners \in Seq(ToSet(runners))
    /\ \A i \in DOMAIN runners : runners[i].name \in DOMAIN flows /\ Delivers(runners[i])
    /\ \A i, j \in DOMAIN runners : runners[i].name = runners[j].name => i = j
    /\ \A i, j \in DOMAIN runners :
          /\ runners[i].source.type = "http" /\ runners[j].source.type = "http"
          /\ runners[i].source.route = runners[j].source.route
          => i = j

\* After the build every flow has its pipeline.
AllBuilt ==
    /\ ready => main = "running"
    /\ main \in {"link", "running", "closing"} => Built = DOMAIN flows

\* A process that a signal ended.
Signaled == cause = "signal" => main = "ended" /\ SignalClosesAll

\* m is what the files V of the directory say: of each name, the last file's text.
Follows(m, V) ==
    LET NameOf(f) == Definition[disk[f]].name
    IN  /\ m = [n \in {NameOf(f) : f \in V} |-> m[n]]
        /\ \A n \in DOMAIN m : \E f \in V :
              NameOf(f) = n /\ m[n] = disk[f] /\ \A g \in V : NameOf(g) = n => g <= f

\* While no edit came since the last listing, what was read is what the files say
\* that are not still to be read, and these come later.
Tracks ==
    ~missed /\ events = 0 =>
        IF loading = "nobody" THEN Follows(table, ValidFiles(disk))
        ELSE /\ Follows(found, ValidFiles(disk) \ todo)
             /\ \A f \in ValidFiles(disk) \ todo, g \in todo : f < g

IInv == TypeOK /\ AcceptedFlows /\ Places /\ Pipelines /\ AllBuilt /\ Signaled /\ Tracks

\* The initial states satisfy the invariant.
LEMMA InitInv == ASSUME Init PROVE IInv
<1> USE FlowProcessAssumption DEF FlowProcessAssumption, Init, NoFlows
<1>1. TypeOK
  <2>1. disk \in [1..Files -> Texts]
    OBVIOUS
  <2>2. /\ binary \in Binaries /\ edits \in 0..MaxEdits /\ unread \in 0..MaxUnread
        /\ events \in Nat
    OBVIOUS
  <2>3. /\ loading \in {"main", "watcher", "nobody"} /\ todo \subseteq 1..Files
        /\ watcher \in {"none", "starting", "watching", "done"} /\ missed \in BOOLEAN
        /\ main \in {"load", "build", "link", "running", "closing", "ended"}
        /\ running \subseteq DOMAIN flows /\ ready \in BOOLEAN
        /\ apps \in {"none", "running", "stopped"} /\ link \in {"none", "serving", "closed"}
    OBVIOUS
  <2> QED
    BY <2>1, <2>2, <2>3 DEF TypeOK
<1>2. AcceptedFlows /\ Places
  BY DEF AcceptedFlows, Accepted, Places, Aio
<1>3. Pipelines
  BY DEF Pipelines, ToSet
<1>4. AllBuilt /\ Signaled /\ Tracks
  BY DEF AllBuilt, Signaled, Tracks
<1> QED
  BY <1>1, <1>2, <1>3, <1>4 DEF IInv

-----------------------------------------------------------------------------
(* The steps.                                                              *)

\* The steps that touch neither the flows nor their pipelines.
Elsewhere == UNCHANGED <<flows, runners>>

\* A step touches them only by loading the flows or by building one.
LEMMA StepKinds ==
    ASSUME [Next]_vars
    PROVE  Loaded \/ (\E n \in DOMAIN flows : BuildFlow(n)) \/ Elsewhere
<1> USE DEF Elsewhere, vars, dirVars, loaderVars, mainVars
<1>1. ASSUME NEW e \in Edits, NEW renamed \in BOOLEAN, Edit(e[1], e[2], renamed) PROVE Elsewhere
  BY <1>1 DEF Edit
<1>2. ASSUME NEW n \in running, FlowStops(n) PROVE Elsewhere
  BY <1>2 DEF FlowStops
<1>3. ASSUME Loader PROVE Elsewhere
  BY <1>3 DEF Loader, WatchStarts, WatchEnds, LoadFile, Reload, ReloadFails, Reloaded
<1>4. ASSUME StartApps \/ Load \/ LoadFails \/ StartFlows \/ StartLink \/ Signal \/ Ends PROVE Elsewhere
  BY <1>4 DEF StartApps, Load, LoadFails, StartFlows, StartLink, Signal, Ends
<1>5. ASSUME NEW i \in DOMAIN runners, NEW c \in DOMAIN Components, CloseNext(i, c) PROVE Elsewhere
  BY <1>5 DEF CloseNext
<1> QED
  BY <1>1, <1>2, <1>3, <1>4, <1>5 DEF Next, Main

\* The types.
LEMMA TypeStep == ASSUME IInv, [Next]_vars PROVE TypeOK'
<1> USE FlowProcessAssumption DEF FlowProcessAssumption, IInv, TypeOK, vars, dirVars, loaderVars, mainVars
<1>1. ASSUME NEW e \in Edits, NEW renamed \in BOOLEAN, Edit(e[1], e[2], renamed) PROVE TypeOK'
  <2>1. e[1] \in 1..Files /\ e[2] \in Texts
    OBVIOUS
  <2>2. disk' \in [1..Files -> Texts]
    BY <1>1, <2>1 DEF Edit
  <2>3. edits' \in 0..MaxEdits /\ events' \in Nat /\ missed' \in BOOLEAN
    <3>1. edits' \in 0..MaxEdits
      BY <1>1 DEF Edit
    <3>2. events' \in Nat
      BY <1>1 DEF Edit
    <3>3. missed' \in BOOLEAN
      BY <1>1 DEF Edit
    <3> QED
      BY <3>1, <3>2, <3>3
  <2> QED
    BY <1>1, <2>2, <2>3 DEF Edit
<1>2. ASSUME NEW n \in running, FlowStops(n) PROVE TypeOK'
  BY <1>2 DEF FlowStops
<1>3. ASSUME WatchStarts \/ WatchEnds PROVE TypeOK'
  <2>1. CASE WatchStarts
    BY <2>1 DEF WatchStarts
  <2>2. CASE WatchEnds
    BY <2>2 DEF WatchEnds
  <2> QED
    BY <1>3, <2>1, <2>2
<1>4. ASSUME LoadFile \/ Reloaded PROVE TypeOK'
  <2>1. CASE LoadFile
    BY <2>1 DEF LoadFile
  <2>2. CASE Reloaded
    BY <2>2 DEF Reloaded
  <2> QED
    BY <1>4, <2>1, <2>2
<1>5. ASSUME Reload PROVE TypeOK'
  <2>1. events' \in Nat /\ todo' \subseteq 1..Files /\ loading' = "watcher" /\ missed' = FALSE
    BY <1>5 DEF Reload, Lists, Listing
  <2> QED
    BY <1>5, <2>1 DEF Reload
<1>6. ASSUME ReloadFails PROVE TypeOK'
  BY <1>6 DEF ReloadFails
<1>7. ASSUME StartApps PROVE TypeOK'
  BY <1>7 DEF StartApps, End
<1>8. ASSUME Load PROVE TypeOK'
  <2>1. todo' \subseteq 1..Files /\ loading' = "main" /\ missed' = FALSE
    BY <1>8 DEF Load, Lists, Listing
  <2> QED
    BY <1>8, <2>1 DEF Load
<1>9. ASSUME LoadFails PROVE TypeOK'
  <2>1. unread' \in 0..MaxUnread
    <3>1. unread < MaxUnread /\ unread' = unread + 1
      BY <1>9 DEF LoadFails
    <3> QED
      BY <3>1
  <2>2. /\ watcher' \in {"none", "starting", "watching", "done"}
        /\ main' \in {"load", "build", "link", "running", "closing", "ended"}
        /\ running' \subseteq DOMAIN flows' /\ apps' \in {"none", "running", "stopped"}
    BY <1>9 DEF LoadFails, End
  <2>3. ready' \in BOOLEAN
    BY <1>9 DEF LoadFails, End
  <2> QED
    BY <1>9, <2>1, <2>2, <2>3 DEF LoadFails
<1>10. ASSUME Loaded PROVE TypeOK'
  <2>1. running' \subseteq DOMAIN flows'
    BY <1>10 DEF Loaded, End, Places
  <2> QED
    BY <1>10, <2>1 DEF Loaded, End
<1>11. ASSUME StartFlows PROVE TypeOK'
  BY <1>11 DEF StartFlows
<1>12. ASSUME StartLink PROVE TypeOK'
  BY <1>12 DEF StartLink, End
<1>13. ASSUME Signal PROVE TypeOK'
  BY <1>13 DEF Signal
<1>14. ASSUME Ends PROVE TypeOK'
  BY <1>14 DEF Ends, End
<1>15. ASSUME NEW n \in DOMAIN flows, BuildFlow(n) PROVE TypeOK'
  BY <1>15 DEF BuildFlow, End
<1>16. ASSUME NEW i \in DOMAIN runners, NEW c \in DOMAIN Components, CloseNext(i, c) PROVE TypeOK'
  BY <1>16 DEF CloseNext
<1>17. ASSUME UNCHANGED vars PROVE TypeOK'
  BY <1>17
<1> QED
  BY <1>1, <1>2, <1>3, <1>4, <1>5, <1>6, <1>7, <1>8, <1>9, <1>10, <1>11, <1>12, <1>13, <1>14, <1>15,
     <1>16, <1>17 DEF Next, Loader, Main

\* What was read and what run() got is valid, each flow under its own name.
LEMMA AcceptedStep == ASSUME IInv, [Next]_vars PROVE AcceptedFlows'
<1> USE DEF IInv, AcceptedFlows
<1>1. ASSUME LoadFile PROVE Accepted(found')
  <2>1. PICK f \in todo : found' = With(found, disk[f])
    BY <1>1 DEF LoadFile
  <2> DEFINE text == disk[f]
  <2>2. CASE text \in DOMAIN Definition /\ Validate(Definition[text])
    <3>1. found' = Under(found, Definition[text].name, text)
      BY <2>1, <2>2 DEF With
    <3>2. /\ DOMAIN found' = {Definition[text].name} \cup DOMAIN found
          /\ \A n \in DOMAIN found' :
               found'[n] = IF n = Definition[text].name THEN text ELSE found[n]
      BY <3>1 DEF Under
    <3> QED
      BY <2>2, <3>2 DEF Accepted
  <2>3. CASE ~(text \in DOMAIN Definition /\ Validate(Definition[text]))
    BY <2>1, <2>3 DEF With
  <2> QED
    BY <2>2, <2>3
<1>2. ASSUME Reload \/ Load PROVE Accepted(found')
  BY <1>2 DEF Reload, Load, Lists, NoFlows, Accepted
<1>3. ASSUME Next, ~LoadFile, ~Reload, ~Load PROVE UNCHANGED found
  BY <1>3 DEF Next, Loader, Main, loaderVars, Edit, FlowStops, WatchStarts, WatchEnds, ReloadFails, Reloaded,
              StartApps, LoadFails, Loaded, StartFlows, StartLink, Signal, Ends, BuildFlow, CloseNext
<1>4. Accepted(found')
  <2>1. CASE Next
    BY <1>1, <1>2, <1>3, <2>1
  <2>2. CASE UNCHANGED vars
    BY <2>2 DEF vars, loaderVars
  <2> QED
    BY <2>1, <2>2
<1>5. Accepted(flows')
  <2>1. flows' = flows \/ flows' = found
    BY StepKinds DEF Loaded, BuildFlow, Elsewhere
  <2> QED
    BY <2>1
<1> QED
  BY <1>4, <1>5

\* Each place of run() implies what Places says of it.
LEMMA PlacesStep == ASSUME IInv, [Next]_vars PROVE Places'
<1> USE DEF IInv, Places, Aio, vars, dirVars, loaderVars, mainVars
<1>1. ASSUME NEW e \in Edits, NEW renamed \in BOOLEAN, Edit(e[1], e[2], renamed) PROVE Places'
  BY <1>1 DEF Edit
<1>2. ASSUME NEW n \in running, FlowStops(n) PROVE Places'
  BY <1>2 DEF FlowStops
<1>3. ASSUME Loader PROVE Places'
  BY <1>3 DEF Loader, WatchStarts, WatchEnds, LoadFile, Reload, ReloadFails, Reloaded, Lists
<1>4. ASSUME StartApps PROVE Places'
  BY <1>4 DEF StartApps, End
<1>5. ASSUME Load PROVE Places'
  BY <1>5 DEF Load, Lists, MayLoad
<1>6. ASSUME LoadFails PROVE Places'
  BY <1>6 DEF LoadFails, MayLoad, End
<1>7. ASSUME Loaded PROVE Places'
  BY <1>7 DEF Loaded, End
<1>8. ASSUME StartFlows PROVE Places'
  BY <1>8 DEF StartFlows
<1>9. ASSUME StartLink PROVE Places'
  BY <1>9 DEF StartLink, End
<1>10. ASSUME Signal PROVE Places'
  BY <1>10 DEF Signal
<1>11. ASSUME Ends PROVE Places'
  BY <1>11 DEF Ends, End
<1>12. ASSUME NEW n \in DOMAIN flows, BuildFlow(n) PROVE Places'
  BY <1>12 DEF BuildFlow, End
<1>13. ASSUME NEW i \in DOMAIN runners, NEW c \in DOMAIN Components, CloseNext(i, c) PROVE Places'
  BY <1>13 DEF CloseNext
<1>14. ASSUME UNCHANGED vars PROVE Places'
  BY <1>14
<1> QED
  BY <1>1, <1>2, <1>3, <1>4, <1>5, <1>6, <1>7, <1>8, <1>9, <1>10, <1>11, <1>12, <1>13, <1>14
     DEF Next, Main

\* One more pipeline: accepted, of a flow that had none, on a route that is free.
LEMMA PipelinesStep == ASSUME IInv, [Next]_vars PROVE Pipelines'
<1> USE DEF IInv
<1>1. ASSUME NEW n \in DOMAIN flows, BuildFlow(n), runners' # runners PROVE Pipelines'
  <2>1. PICK p \in BuildPipeline(binary, Definition[flows[n]], Routes) : runners' = Append(runners, p)
    BY <1>1 DEF BuildFlow
  <2>2. Validate(Definition[flows[n]]) /\ Definition[flows[n]].name = n /\ binary \in Binaries
    BY DEF AcceptedFlows, Accepted, TypeOK
  <2>3. p.name = n /\ Delivers(p) /\ (p.source.type = "http" => p.source.route \notin Routes)
    BY <2>1, <2>2, BuiltDelivers
  <2>4. flows' = flows /\ n \notin Built
    BY <1>1 DEF BuildFlow
  <2>5. runners \in Seq(ToSet(runners))
    BY DEF Pipelines
  <2> DEFINE S == ToSet(runners) \cup {p}
  <2>6. runners \in Seq(S)
    BY <2>5
  <2>7. /\ DOMAIN runners' = DOMAIN runners \cup {Len(runners) + 1}
        /\ Len(runners) + 1 \notin DOMAIN runners
        /\ runners'[Len(runners) + 1] = p
        /\ \A i \in DOMAIN runners : runners'[i] = runners[i]
        /\ Len(runners') = Len(runners) + 1 /\ DOMAIN runners' = 1..Len(runners')
    BY <2>1, <2>6
  <2>8. runners' \in Seq(ToSet(runners'))
    BY <2>1, <2>6, <2>7 DEF ToSet
  <2>9. \A i \in DOMAIN runners' : runners'[i].name \in DOMAIN flows' /\ Delivers(runners'[i])
    BY <2>3, <2>4, <2>7 DEF Pipelines
  <2>10. \A i \in DOMAIN runners : runners[i].name # p.name
    BY <2>3, <2>4 DEF Built
  <2>11. \A i \in DOMAIN runners :
           ~(/\ runners[i].source.type = "http" /\ p.source.type = "http"
             /\ runners[i].source.route = p.source.route)
    BY <2>3 DEF Routes, ToSet
  <2>12. \A i, j \in DOMAIN runners' : runners'[i].name = runners'[j].name => i = j
    BY <2>7, <2>10 DEF Pipelines
  <2>13. \A i, j \in DOMAIN runners' :
           /\ runners'[i].source.type = "http" /\ runners'[j].source.type = "http"
           /\ runners'[i].source.route = runners'[j].source.route
           => i = j
    BY <2>7, <2>11 DEF Pipelines
  <2> QED
    BY <2>8, <2>9, <2>12, <2>13 DEF Pipelines
<1>2. ASSUME Loaded PROVE Pipelines'
  <2>1. runners = <<>> /\ runners' = <<>>
    BY <1>2 DEF Loaded, Places
  <2> QED
    BY <2>1 DEF Pipelines, ToSet
<1>3. ASSUME Elsewhere PROVE Pipelines'
  BY <1>3 DEF Elsewhere, Pipelines, Delivers
<1>4. ASSUME NEW n \in DOMAIN flows, BuildFlow(n), runners' = runners PROVE Elsewhere
  BY <1>4 DEF BuildFlow, Elsewhere
<1> QED
  BY <1>1, <1>2, <1>3, <1>4, StepKinds

\* The names of the pipelines stay what they are while the pipelines do.
LEMMA BuiltUnchanged == ASSUME Elsewhere PROVE Built' = Built /\ flows' = flows /\ Parts' = Parts
  BY DEF Elsewhere, Built, Parts

\* Readiness, and the pipelines when run() is past the build.
LEMMA AllBuiltStep == ASSUME IInv, [Next]_vars PROVE AllBuilt'
<1> USE DEF IInv, AllBuilt, vars, mainVars
<1>1. ASSUME StartFlows PROVE AllBuilt'
  <2>1. Built' = Built /\ flows' = flows
    BY <1>1, BuiltUnchanged DEF StartFlows, Elsewhere
  <2>2. Built = DOMAIN flows /\ (ready' => main' = "running")
    BY <1>1 DEF StartFlows
  <2> QED
    BY <2>1, <2>2
<1>2. ASSUME Loaded \/ LoadFails \/ StartApps \/ Load PROVE AllBuilt'
  <2>1. main = "load"
    BY <1>2 DEF Loaded, LoadFails, StartApps, Load, MayLoad, Places
  <2>2. main' \in {"load", "build", "ended"}
    BY <1>2, <2>1 DEF Loaded, LoadFails, StartApps, Load, End
  <2>3. ready' = FALSE \/ ready' = ready
    BY <1>2 DEF Loaded, LoadFails, StartApps, Load, End
  <2> QED
    BY <2>1, <2>2, <2>3
<1>3. ASSUME NEW n \in DOMAIN flows, BuildFlow(n) PROVE AllBuilt'
  BY <1>3 DEF BuildFlow, End
<1>4. ASSUME StartLink \/ Signal \/ Ends PROVE AllBuilt'
  <2>1. Built' = Built /\ flows' = flows
    BY <1>4, BuiltUnchanged DEF StartLink, Signal, Ends, Elsewhere
  <2> QED
    BY <1>4, <2>1 DEF StartLink, Signal, Ends, End
<1>5. ASSUME UNCHANGED <<main, ready, flows, runners>> PROVE AllBuilt'
  BY <1>5, BuiltUnchanged DEF Elsewhere
<1>6. ASSUME NEW e \in Edits, NEW renamed \in BOOLEAN, Edit(e[1], e[2], renamed)
      PROVE UNCHANGED <<main, ready, flows, runners>>
  BY <1>6 DEF Edit
<1>7. ASSUME NEW n \in running, FlowStops(n) PROVE UNCHANGED <<main, ready, flows, runners>>
  BY <1>7 DEF FlowStops
<1>8. ASSUME Loader PROVE UNCHANGED <<main, ready, flows, runners>>
  BY <1>8 DEF Loader, WatchStarts, WatchEnds, LoadFile, Reload, ReloadFails, Reloaded
<1>9. ASSUME NEW i \in DOMAIN runners, NEW c \in DOMAIN Components, CloseNext(i, c)
      PROVE UNCHANGED <<main, ready, flows, runners>>
  BY <1>9 DEF CloseNext
<1>10. ASSUME UNCHANGED vars PROVE UNCHANGED <<main, ready, flows, runners>>
  BY <1>10
<1> QED
  BY <1>1, <1>2, <1>3, <1>4, <1>5, <1>6, <1>7, <1>8, <1>9, <1>10 DEF Next, Main

\* What a signal ended stays as it is.
LEMMA SignaledStep == ASSUME IInv, [Next]_vars PROVE Signaled'
<1> USE DEF IInv, Signaled, SignalClosesAll, vars, dirVars, loaderVars, mainVars
<1>1. ASSUME Ends PROVE Signaled'
  <2>1. closed' = closed /\ closed = Parts /\ Parts' = Parts
    BY <1>1, BuiltUnchanged DEF Ends, Elsewhere
  <2>2. link' = link /\ link # "serving"
    BY <1>1 DEF Ends, Places
  <2> QED
    BY <1>1, <2>1, <2>2 DEF Ends, End
<1>2. ASSUME UNCHANGED <<main, cause, closed, apps, link, runners, flows>> PROVE Signaled'
  BY <1>2, BuiltUnchanged DEF Elsewhere
<1>3. ASSUME NEW e \in Edits, NEW renamed \in BOOLEAN, Edit(e[1], e[2], renamed)
      PROVE UNCHANGED <<main, cause, closed, apps, link, runners, flows>>
  BY <1>3 DEF Edit
<1>4. ASSUME NEW n \in running, FlowStops(n)
      PROVE UNCHANGED <<main, cause, closed, apps, link, runners, flows>>
  BY <1>4 DEF FlowStops
<1>5. ASSUME Loader PROVE UNCHANGED <<main, cause, closed, apps, link, runners, flows>>
  BY <1>5 DEF Loader, WatchStarts, WatchEnds, LoadFile, Reload, ReloadFails, Reloaded
<1>6. ASSUME StartApps \/ Load \/ LoadFails \/ Loaded PROVE cause' # "signal"
  <2>1. main = "load"
    BY <1>6 DEF StartApps, Load, LoadFails, Loaded, MayLoad, Places
  <2> QED
    BY <1>6, <2>1 DEF StartApps, Load, LoadFails, Loaded, End
<1>7. ASSUME StartFlows \/ StartLink \/ Signal PROVE cause' # "signal"
  BY <1>7 DEF StartFlows, StartLink, Signal, End
<1>8. ASSUME NEW n \in DOMAIN flows, BuildFlow(n) PROVE cause' # "signal"
  BY <1>8 DEF BuildFlow, End
<1>9. ASSUME NEW i \in DOMAIN runners, NEW c \in DOMAIN Components, CloseNext(i, c)
      PROVE cause' # "signal"
  BY <1>9 DEF CloseNext
<1>10. ASSUME cause' # "signal" PROVE Signaled'
  BY <1>10
<1>11. ASSUME UNCHANGED vars PROVE UNCHANGED <<main, cause, closed, apps, link, runners, flows>>
  BY <1>11
<1> QED
  BY <1>1, <1>2, <1>3, <1>4, <1>5, <1>6, <1>7, <1>8, <1>9, <1>10, <1>11 DEF Next, Main

-----------------------------------------------------------------------------
(* The loader's table.                                                     *)

\* One more file, later than all that were read, is read.
LEMMA ReadOne ==
    ASSUME TypeOK, NEW m, NEW V \in SUBSET ValidFiles(disk), Follows(m, V),
           NEW f \in 1..Files, \A g \in V : g < f
    PROVE  Follows(With(m, disk[f]), V \cup (ValidFiles(disk) \cap {f}))
<1> DEFINE text == disk[f]
           W == V \cup (ValidFiles(disk) \cap {f})
           name(g) == Definition[disk[g]].name
<1>0. V \subseteq 1..Files /\ W \subseteq 1..Files /\ \A g \in 1..Files : g \in Int
  <2>1. ValidFiles(disk) \subseteq 1..Files /\ \A g \in 1..Files : g \in Int
    BY FlowProcessAssumption DEF ValidFiles, FlowProcessAssumption
  <2>2. V \subseteq 1..Files
    BY <2>1
  <2> QED
    BY <2>1, <2>2
<1>1. CASE f \in ValidFiles(disk)
  <2>1. W = V \cup {f}
    BY <1>1
  <2>2. With(m, text) = Under(m, name(f), text)
    BY <1>1 DEF With, ValidFiles
  <2> DEFINE u == Under(m, name(f), text)
  <2>3. /\ u = [n \in DOMAIN m \cup {name(f)} |-> IF n = name(f) THEN text ELSE m[n]]
        /\ DOMAIN m = {name(g) : g \in V}
    BY DEF Under, Follows
  <2>4. DOMAIN u = {name(g) : g \in W}
    BY <2>1, <2>3
  <2>5. ASSUME NEW n \in DOMAIN u
        PROVE  \E g \in W : name(g) = n /\ u[n] = disk[g] /\ \A h \in W : name(h) = n => h <= g
    <3>1. CASE n = name(f)
      <4>1. u[n] = disk[f] /\ \A h \in W : h <= f
        BY <3>1, <2>1, <2>3, <1>0
      <4> QED
        BY <3>1, <4>1, <2>1
    <3>2. CASE n # name(f)
      <4>1. n \in DOMAIN m /\ u[n] = m[n]
        BY <3>2, <2>3
      <4>2. PICK g \in V : name(g) = n /\ m[n] = disk[g] /\ \A h \in V : name(h) = n => h <= g
        BY <4>1 DEF Follows
      <4> QED
        BY <3>2, <4>1, <4>2, <2>1
    <3> QED
      BY <3>1, <3>2
  <2>6. u = [n \in {name(g) : g \in W} |-> u[n]]
    BY <2>3, <2>4
  <2> HIDE DEF u, W, name
  <2>7. Follows(u, W)
    <3> USE DEF name
    <3> QED
      BY <2>4, <2>5, <2>6 DEF Follows
  <2> QED
    BY <2>2, <2>7 DEF u, W, name
<1>2. CASE f \notin ValidFiles(disk)
  BY <1>2 DEF With, ValidFiles
<1> QED
  BY <1>1, <1>2

\* What follows the whole directory is what the directory says.
LEMMA FollowsReading ==
    ASSUME TypeOK, NEW m, Follows(m, ValidFiles(disk))
    PROVE  m = Reading(disk)
<1> DEFINE name(g) == Definition[disk[g]].name
           V == ValidFiles(disk)
           Latest(n, f) == f \in V /\ name(f) = n /\ \A g \in V : name(g) = n => g <= f
           LastOf(n) == CHOOSE f \in V : name(f) = n /\ \A g \in V : name(g) = n => g <= f
<1>1. \A g \in V : g \in Int
  BY FlowProcessAssumption DEF ValidFiles, FlowProcessAssumption
<1>2. \A n \in DOMAIN m : m[n] = disk[LastOf(n)]
  <2>1. SUFFICES ASSUME NEW n \in DOMAIN m PROVE m[n] = disk[LastOf(n)]
    OBVIOUS
  <2>2. PICK f : Latest(n, f) /\ m[n] = disk[f]
    BY DEF Follows
  <2>3. Latest(n, LastOf(n))
    BY <2>2
  <2>4. LastOf(n) = f
    <3> HIDE DEF LastOf
    <3>1. LastOf(n) <= f /\ f <= LastOf(n)
      BY <2>2, <2>3
    <3> QED
      BY <3>1, <2>2, <2>3, <1>1
  <2> QED
    BY <2>2, <2>4
<1>3. m = [n \in {name(g) : g \in V} |-> m[n]]
  BY DEF Follows
<1>4. Reading(disk) = [n \in {name(g) : g \in V} |-> disk[LastOf(n)]]
  BY DEF Reading
<1> HIDE DEF name, V, LastOf, Latest
<1> QED
  BY <1>2, <1>3, <1>4

\* The listing, the reading and the end of a Load; everything else leaves the table
\* as it was, or lets an edit be noticed.
LEMMA TracksStep == ASSUME IInv, [Next]_vars PROVE Tracks'
<1> USE DEF IInv, vars, dirVars, loaderVars, mainVars
<1> DEFINE Watched == <<disk, missed, events, loading, table, found, todo>>
<1>1. ASSUME NEW e \in Edits, NEW renamed \in BOOLEAN, Edit(e[1], e[2], renamed) PROVE Tracks'
  <2>1. missed' = TRUE \/ events' = events + 1
    BY <1>1 DEF Edit
  <2>2. events \in Nat
    BY DEF TypeOK
  <2> QED
    BY <2>1, <2>2 DEF Tracks
<1>2. ASSUME LoadFile PROVE Tracks'
  <2>1. PICK f \in todo : /\ \A g \in todo : f <= g
                          /\ found' = With(found, disk[f]) /\ todo' = todo \ {f}
    BY <1>2 DEF LoadFile
  <2>2. UNCHANGED <<disk, missed, events, loading, table>>
    BY <1>2 DEF LoadFile
  <2>3. CASE missed \/ events # 0 \/ loading = "nobody"
    BY <2>2, <2>3 DEF Tracks, Follows, ValidFiles
  <2>4. CASE ~missed /\ events = 0 /\ loading # "nobody"
    <3> DEFINE V == ValidFiles(disk) \ todo
               W == V \cup (ValidFiles(disk) \cap {f})
    <3>1. Follows(found, V) /\ \A g \in V, h \in todo : g < h
      BY <2>4 DEF Tracks
    <3>2. f \in 1..Files /\ todo \subseteq 1..Files /\ V \in SUBSET ValidFiles(disk) /\ \A g \in V : g < f
      BY <3>1 DEF TypeOK
    <3>3. Follows(With(found, disk[f]), W)
      <4> HIDE DEF V
      <4> QED
        BY <3>1, <3>2, ReadOne
    <3>4. W = ValidFiles(disk) \ todo'
      BY <2>1
    <3>5. \A h \in todo' : f < h
      BY <2>1, <3>2, FlowProcessAssumption DEF FlowProcessAssumption
    <3>6. \A g \in ValidFiles(disk) \ todo', h \in todo' : g < h
      BY <3>1, <3>4, <3>5, <2>1
    <3>7. Follows(found', ValidFiles(disk) \ todo')
      BY <2>1, <3>3, <3>4
    <3> HIDE DEF V, W
    <3>8. Follows(found, ValidFiles(disk) \ todo)'
      BY <2>2, <3>7 DEF Follows, ValidFiles
    <3>9. (\A g \in ValidFiles(disk) \ todo, h \in todo : g < h)'
      BY <2>2, <3>6 DEF ValidFiles
    <3> QED
      BY <2>2, <2>4, <3>8, <3>9 DEF Tracks
  <2> QED
    BY <2>3, <2>4
<1>3. ASSUME Reload \/ Load PROVE Tracks'
  <2>1. loading' # "nobody" /\ todo' = Listing /\ found' = NoFlows /\ UNCHANGED disk
    BY <1>3 DEF Reload, Load, Lists
  <2>2. ValidFiles(disk) \ Listing = {}
    BY FlowProcessAssumption DEF ValidFiles, Listing, FlowProcessAssumption
  <2>3. (ValidFiles(disk) \ todo)' = {}
    BY <2>1, <2>2 DEF ValidFiles
  <2>4. Follows(found, {})'
    BY <2>1 DEF Follows, NoFlows
  <2> QED
    BY <2>1, <2>3, <2>4 DEF Tracks
<1>4. ASSUME ReloadFails PROVE Tracks'
  BY <1>4 DEF ReloadFails, Tracks
<1>5. ASSUME Reloaded \/ Loaded PROVE Tracks'
  <2>1. /\ loading # "nobody" /\ todo = {} /\ loading' = "nobody" /\ table' = found
        /\ UNCHANGED <<disk, missed, events>>
    BY <1>5 DEF Reloaded, Loaded
  <2>2. ~missed /\ events = 0 => Follows(found, ValidFiles(disk))
    <3>1. ValidFiles(disk) \ todo = ValidFiles(disk)
      BY <2>1
    <3> QED
      BY <2>1, <3>1 DEF Tracks
  <2>3. ~missed /\ events = 0 => Follows(table, ValidFiles(disk))'
    BY <2>1, <2>2 DEF Follows, ValidFiles
  <2> QED
    BY <2>1, <2>3 DEF Tracks
<1>6. ASSUME UNCHANGED Watched PROVE Tracks'
  BY <1>6 DEF Tracks, Follows, ValidFiles
<1>7. ASSUME NEW n \in running, FlowStops(n) PROVE UNCHANGED Watched
  BY <1>7 DEF FlowStops
<1>8. ASSUME WatchStarts \/ WatchEnds PROVE UNCHANGED Watched
  BY <1>8 DEF WatchStarts, WatchEnds
<1>9. ASSUME StartApps \/ LoadFails \/ StartFlows \/ StartLink \/ Signal \/ Ends PROVE UNCHANGED Watched
  BY <1>9 DEF StartApps, LoadFails, StartFlows, StartLink, Signal, Ends
<1>10. ASSUME NEW n \in DOMAIN flows, BuildFlow(n) PROVE UNCHANGED Watched
  BY <1>10 DEF BuildFlow
<1>11. ASSUME NEW i \in DOMAIN runners, NEW c \in DOMAIN Components, CloseNext(i, c)
       PROVE UNCHANGED Watched
  BY <1>11 DEF CloseNext
<1>12. ASSUME UNCHANGED vars PROVE UNCHANGED Watched
  BY <1>12
<1> HIDE DEF Watched
<1> QED
  BY <1>1, <1>2, <1>3, <1>4, <1>5, <1>6, <1>7, <1>8, <1>9, <1>10, <1>11, <1>12 DEF Next, Loader, Main

-----------------------------------------------------------------------------
(* The theorems.                                                           *)

\* The invariant holds of every behaviour.
THEOREM ProcessInv == Spec => []IInv
<1>1. Init => IInv
  BY InitInv
<1>2. IInv /\ [Next]_vars => IInv'
  BY TypeStep, AcceptedStep, PlacesStep, PipelinesStep, AllBuiltStep, SignaledStep, TracksStep DEF IInv
<1> QED
  BY <1>1, <1>2, PTL DEF Spec

\* Every variable keeps its type (the state of the three mains and of the loader).
THEOREM ProcessTypeCorrect == Spec => []TypeOK
<1>1. IInv => TypeOK
  BY DEF IInv
<1> QED
  BY <1>1, ProcessInv, PTL

\* Whatever the directory holds and however often it changes, the loader's table is
\* what the directory says as soon as no event is left and none was missed
\* (Loader.Load, Loader.Watch).
THEOREM TableCorrect == Spec => []TableFollowsDisk
<1>1. IInv => TableFollowsDisk
  BY FollowsReading DEF IInv, Tracks, TableFollowsDisk
<1> QED
  BY <1>1, ProcessInv, PTL

\* No definition that a program accepts and builds breaks what KafkaFlow and
\* KafkaTxFlow rest on, whatever the definitions are (Validate, buildPipeline).
THEOREM DeliveryCorrect == Spec => []DeliveryAsAccepted
<1>1. IInv => DeliveryAsAccepted
  BY DEF IInv, Pipelines, Delivers, DeliveryAsAccepted
<1> QED
  BY <1>1, ProcessInv, PTL

\* A ready process has built every flow once, no two on one route (run, PreRegister).
THEOREM ReadyCorrect == Spec => []ReadyMeansBuilt
<1>1. IInv => ReadyMeansBuilt
  <2> SUFFICES ASSUME IInv, ready PROVE ReadyMeansBuilt
    BY DEF ReadyMeansBuilt
  <2>1. main = "running" /\ Built = DOMAIN flows
    BY DEF IInv, AllBuilt
  <2>2. Aio => apps = "running"
    BY <2>1 DEF IInv, Places
  <2>3. Len(runners) = Cardinality(Built)
    <3> DEFINE f == [i \in 1..Len(runners) |-> runners[i].name]
    <3>1. Len(runners) \in Nat /\ DOMAIN runners = 1..Len(runners)
      BY DEF IInv, Pipelines
    <3>2. f \in [1..Len(runners) -> Built] /\ \A n \in Built : \E i \in 1..Len(runners) : f[i] = n
      BY <3>1 DEF Built
    <3>3. \A i, j \in DOMAIN f : f[i] = f[j] => i = j
      BY <3>1 DEF IInv, Pipelines
    <3>4. ExistsBijection(1..Len(runners), Built)
      <4> HIDE DEF f
      <4>1. f \in Injection(1..Len(runners), Built) /\ f \in Surjection(1..Len(runners), Built)
        BY <3>2, <3>3 DEF Injection, Surjection, IsInjective
      <4> QED
        BY <4>1 DEF ExistsBijection, Bijection
    <3>5. IsFiniteSet(1..Len(runners)) /\ Cardinality(1..Len(runners)) = Len(runners)
      <4>1. Cardinality(1..Len(runners)) = IF 1 > Len(runners) THEN 0 ELSE Len(runners) - 1 + 1
        BY <3>1, FS_Interval
      <4>2. IsFiniteSet(1..Len(runners))
        BY <3>1, FS_Interval
      <4> QED
        BY <3>1, <4>1, <4>2
    <3> QED
      BY <3>4, <3>5, FS_Bijection
  <2> QED
    BY <2>1, <2>2, <2>3 DEF IInv, Pipelines, ReadyMeansBuilt
<1> QED
  BY <1>1, ProcessInv, PTL

\* A process that a signal ended has closed every component of every flow, its Link
\* proxy and its applications (run, Pipeline.Shutdown).
THEOREM SignalClosed == Spec => []SignalClosesAll
<1>1. IInv => SignalClosesAll
  BY DEF IInv, Signaled, SignalClosesAll
<1> QED
  BY <1>1, ProcessInv, PTL
===============================================================================
