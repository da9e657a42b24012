------------------------------ MODULE FlowProcess ------------------------------
(***************************************************************************)
(* The life of a flow program: cmd/fiso-flow, cmd/fiso-flow-wasmer and     *)
(* cmd/fiso-wasmer-aio with the configuration loader (internal/config).    *)
(* run() loads the directory of flow definitions, starts a goroutine that  *)
(* watches it, builds a pipeline for every definition, starts them, and on *)
(* SIGTERM shuts them down; fiso-wasmer-aio starts its applications before *)
(* and its Link proxy after the flows.  Meanwhile files are written,       *)
(* created, removed and renamed, and every event fsnotify reports for them *)
(* makes the watcher read the directory again, file by file.               *)
(*                                                                         *)
(* What a flow does while it runs is KafkaFlow, KafkaTxFlow and HttpPool.  *)
(* Calls that only log their error are left out.                           *)
(***************************************************************************)
EXTENDS FlowBuild

CONSTANTS
    Files,        \* number of YAML files of the directory, by their place in ReadDir's order
    Definition,   \* what the texts of valid YAML decode to, by text
    Starts,       \* what the directory may hold at first: a text for each file
    Edits,        \* the texts an edit may leave in each file
    MaxEdits,     \* bound on the edits of the directory
    MaxUnread     \* bound on the listings of the directory that fail

Texts == DOMAIN Definition \cup {"none", "garbled"}

ASSUME FlowProcessAssumption ==
    /\ Files \in Nat \ {0} /\ MaxEdits \in Nat /\ MaxUnread \in Nat
    /\ {"none", "garbled"} \cap DOMAIN Definition = {}
    /\ Starts \subseteq [1..Files -> Texts] /\ Edits \subseteq (1..Files) \X Texts

VARIABLES
    binary,     \* which program runs
    disk,       \* disk[f]: the text in file f, "none" when there is no such file
    edits,      \* number of edits so far
    unread,     \* number of listings that failed so far
    \* the loader
    loading,    \* who is in Load: "main", "watcher" or "nobody"
    todo,       \* the files of the listing Load has still to read
    found,      \* the flows of the files it has read
    table,      \* Loader.flows: the text of each flow
    watcher,    \* the watcher: "none", "starting", "watching" or "done"
    events,     \* events of fsnotify the watcher has not received
    missed,     \* an edit since the last listing that no event reports (history)
    \* run()
    main,       \* run(): "load", "build", "link", "running", "closing", "ended"
    flows,      \* the flows run() got from Load
    runners,    \* the pipelines built, in order
    running,    \* the flows whose goroutine is in Pipeline.Run
    closed,     \* <<flow, component>> that Pipeline.Shutdown has closed
    ready,      \* what /readyz answers
    apps,       \* fiso-wasmer-aio's applications: "none", "running", "stopped"
    link,       \* fiso-wasmer-aio's Link proxy: "none", "serving", "closed"
    cause       \* why run() returned: "nothing" yet, "signal" or an error

loaderVars == <<loading, todo, found, table, watcher, events, missed>>
dirVars == <<binary, disk, edits, unread>>
mainVars == <<main, flows, runners, running, closed, ready, apps, link, cause>>
vars == <<dirVars, loaderVars, mainVars>>

NoFlows == [n \in {} |-> "none"]
Aio == binary = "fiso-wasmer-aio"
Alive == main # "ended"
Components == <<"source", "interceptors", "sink", "dlq">>
Built == {runners[i].name : i \in DOMAIN runners}

Init ==
    /\ binary \in Binaries
    /\ disk \in Starts
    /\ edits = 0 /\ unread = 0
    /\ loading = "nobody" /\ todo = {} /\ found = NoFlows /\ table = NoFlows
    /\ watcher = "none" /\ events = 0 /\ missed = TRUE
    /\ main = "load" /\ flows = NoFlows /\ runners = <<>> /\ running = {} /\ closed = {}
    /\ ready = FALSE /\ apps = "none" /\ link = "none" /\ cause = "nothing"

-----------------------------------------------------------------------------
(* The directory and its watch.                                            *)

\* Somebody writes, creates, removes or renames a file.  fsnotify reports it
\* once the directory is watched; the watcher does nothing for a renaming.
Edit(f, text, renamed) ==
    /\ Alive
    /\ edits < MaxEdits
    /\ disk[f] # text
    /\ renamed => text = "none"
    /\ disk' = [disk EXCEPT ![f] = text]
    /\ edits' = edits + 1
    /\ IF watcher = "watching" /\ ~renamed
       THEN events' = events + 1 /\ UNCHANGED missed
       ELSE missed' = TRUE /\ UNCHANGED events
    /\ UNCHANGED <<binary, unread, loading, todo, found, table, watcher, mainVars>>

\* Watch has added the directory to its watcher.
WatchStarts ==
    /\ Alive
    /\ watcher = "starting"
    /\ watcher' = "watching"
    /\ UNCHANGED <<dirVars, loading, todo, found, table, events, missed, mainVars>>

\* Watch returns when run() closes its channel.
WatchEnds ==
    /\ Alive
    /\ main = "closing"
    /\ watcher \in {"starting", "watching"} /\ loading = "nobody"
    /\ watcher' = "done"
    /\ UNCHANGED <<dirVars, loading, todo, found, table, events, missed, mainVars>>

-----------------------------------------------------------------------------
(* Load: the listing, then one file after the other, then the table.       *)

\* The files of a listing: those that were there when it was made.
Listing == {f \in 1..Files : disk[f] # "none"}

Lists(who) ==
    /\ loading' = who
    /\ todo' = Listing
    /\ found' = NoFlows
    /\ missed' = FALSE

\* flowsFound with text as the flow of that name.
Under(flowsFound, name, text) ==
    [n \in DOMAIN flowsFound \cup {name} |-> IF n = name THEN text ELSE flowsFound[n]]

\* Mutant: a file that is not valid keeps the flows as they were.
With_Keeps(flowsFound, text) ==
    IF text \in DOMAIN Definition /\ Validate(Definition[text])
    THEN Under(flowsFound, Definition[text].name, text)
    ELSE table @@ flowsFound

\* A file that cannot be read, parsed or validated is skipped; a later file
\* takes the name of an earlier one.
With(flowsFound, text) ==
    IF text \in DOMAIN Definition /\ Validate(Definition[text])
    THEN Under(flowsFound, Definition[text].name, text)
    ELSE flowsFound

\* ReadDir sorts its listing.
LoadFile ==
    /\ Alive
    /\ \E f \in todo :
         /\ \A g \in todo : f <= g
         /\ found' = With(found, disk[f])
         /\ todo' = todo \ {f}
    /\ UNCHANGED <<dirVars, loading, table, watcher, events, missed, mainVars>>

\* An event arrives and the watcher lists the directory.
Reload ==
    /\ Alive
    /\ watcher = "watching" /\ loading = "nobody" /\ events > 0
    /\ events' = events - 1
    /\ Lists("watcher")
    /\ UNCHANGED <<dirVars, table, watcher, mainVars>>

\* The listing fails: the watcher keeps the table and drops the event.
ReloadFails ==
    /\ Alive
    /\ watcher = "watching" /\ loading = "nobody" /\ events > 0
    /\ unread < MaxUnread
    /\ unread' = unread + 1
    /\ events' = events - 1
    /\ missed' = TRUE
    /\ UNCHANGED <<binary, disk, edits, loading, todo, found, table, watcher, mainVars>>

\* Mutant: the events that came while the directory was read count as read.
Reloaded_Drains ==
    /\ Alive
    /\ loading = "watcher" /\ todo = {}
    /\ table' = found
    /\ loading' = "nobody"
    /\ events' = 0
    /\ UNCHANGED <<dirVars, todo, found, watcher, missed, mainVars>>

\* The watcher's Load returns; nobody registers with OnChange.
Reloaded ==
    /\ Alive
    /\ loading = "watcher" /\ todo = {}
    /\ table' = found
    /\ loading' = "nobody"
    /\ UNCHANGED <<dirVars, todo, found, watcher, events, missed, mainVars>>

-----------------------------------------------------------------------------
(* run(), from the load to the flows.                                      *)

\* run() returns; fiso-wasmer-aio's deferred StopAll stops the applications.
End(why) ==
    /\ main' = "ended"
    /\ cause' = why
    /\ running' = {}
    /\ ready' = FALSE
    /\ apps' = IF apps = "running" THEN "stopped" ELSE apps

\* fiso-wasmer-aio starts its applications first.
StartApps ==
    /\ Aio /\ main = "load" /\ apps = "none"
    /\ \/ /\ apps' = "running"
          /\ UNCHANGED <<main, running, ready, cause>>
       \/ End("applications")
    /\ UNCHANGED <<dirVars, loaderVars, flows, runners, closed, link>>

MayLoad == main = "load" /\ loading = "nobody" /\ (Aio => apps = "running")

Load ==
    /\ MayLoad
    /\ Lists("main")
    /\ UNCHANGED <<dirVars, table, watcher, events, mainVars>>

\* The listing fails: only fiso-wasmer-aio goes on, without a flow.
LoadFails ==
    /\ MayLoad
    /\ unread < MaxUnread
    /\ unread' = unread + 1
    /\ IF Aio
       THEN /\ main' = "build"
            /\ watcher' = "starting"
            /\ UNCHANGED <<running, ready, apps, cause>>
       ELSE End("no directory") /\ UNCHANGED watcher
    /\ UNCHANGED <<binary, disk, edits, loading, todo, found, table, events, missed,
                   flows, runners, closed, link>>

\* Load returns to run(), which starts the watcher unless there is no flow.
Loaded ==
    /\ Alive
    /\ loading = "main" /\ todo = {}
    /\ table' = found
    /\ flows' = found
    /\ loading' = "nobody"
    /\ IF found = NoFlows /\ ~Aio
       THEN End("no flows") /\ UNCHANGED watcher
       ELSE /\ main' = "build"
            /\ watcher' = "starting"
            /\ UNCHANGED <<running, ready, apps, cause>>
    /\ UNCHANGED <<dirVars, todo, found, events, missed, runners, closed, link>>

\* Mutant: the pool forgets the routes it has given away.
Routes_Forgets == {r \in {p.source.route : p \in {q \in ToSet(runners) : q.source.type = "http"}} :
                     runners = <<>>}

Routes == {p.source.route : p \in {q \in ToSet(runners) : q.source.type = "http"}}

\* The next definition of the map, in no order; run() returns when it cannot be
\* built.
BuildFlow(n) ==
    /\ main = "build"
    /\ n \in DOMAIN flows \ Built
    /\ LET Pipelines == BuildPipeline(binary, Definition[flows[n]], Routes) IN
         \/ /\ \E p \in Pipelines : runners' = Append(runners, p)
            /\ UNCHANGED <<main, running, ready, apps, cause>>
         \/ Pipelines = {} /\ End("build") /\ UNCHANGED runners
    /\ UNCHANGED <<dirVars, loaderVars, flows, closed, link>>

\* The flows' goroutines start; the flow programs are ready just before.
StartFlows ==
    /\ main = "build"
    /\ Built = DOMAIN flows
    /\ running' = Built
    /\ ready' = ~Aio
    /\ main' = IF Aio THEN "link" ELSE "running"
    /\ UNCHANGED <<dirVars, loaderVars, flows, runners, closed, apps, link, cause>>

\* A flow's Run returns, with an error or because the context is done: nobody
\* but the log is told.
FlowStops(n) ==
    /\ Alive
    /\ n \in running
    /\ running' = running \ {n}
    /\ UNCHANGED <<dirVars, loaderVars, main, flows, runners, closed, ready, apps, link, cause>>

\* fiso-wasmer-aio's Link proxy: not configured or its file not valid, served,
\* or its clusters or interceptors not loaded, which ends the process.
StartLink ==
    /\ main = "link"
    /\ \/ /\ link' \in {"none", "serving"}
          /\ main' = "running"
          /\ ready' = TRUE
          /\ UNCHANGED <<running, apps, cause>>
       \/ End("link") /\ UNCHANGED link
    /\ UNCHANGED <<dirVars, loaderVars, flows, runners, closed>>

-----------------------------------------------------------------------------
(* run(), from the signal to its end.                                      *)

\* SIGINT or SIGTERM: not ready, the watcher is told to end, Link shuts down and
\* the pool closes (HttpPool).  A signal while run() starts is seen here too.
Signal ==
    /\ main = "running"
    /\ main' = "closing"
    /\ ready' = FALSE
    /\ link' = IF link = "serving" THEN "closed" ELSE link
    /\ UNCHANGED <<dirVars, loaderVars, flows, runners, running, closed, apps, cause>>

Parts == {<<n, c>> : n \in Built, c \in Range(Components)}

\* The components of runner i that come before c.
Before(i, c) ==
    {<<runners[j].name, Components[k]>> : j \in 1..i - 1, k \in DOMAIN Components} \cup
    {<<runners[i].name, Components[k]>> : k \in 1..c - 1}

\* Shutdown closes the components of one pipeline after the other; an error of
\* one does not keep the next from being closed.
CloseNext(i, c) ==
    /\ main = "closing"
    /\ Before(i, c) \subseteq closed
    /\ <<runners[i].name, Components[c]>> \notin closed
    /\ closed' = closed \cup {<<runners[i].name, Components[c]>>}
    /\ UNCHANGED <<dirVars, loaderVars, main, flows, runners, running, ready, apps, link, cause>>

\* The metrics server shuts down and run() returns.
Ends ==
    /\ main = "closing"
    /\ closed = Parts
    /\ End("signal")
    /\ UNCHANGED <<dirVars, loaderVars, flows, runners, closed, link>>

Loader == WatchStarts \/ WatchEnds \/ LoadFile \/ Reload \/ ReloadFails \/ Reloaded

Main ==
    \/ StartApps \/ Load \/ LoadFails \/ Loaded \/ StartFlows \/ StartLink \/ Signal \/ Ends
    \/ \E n \in DOMAIN flows : BuildFlow(n)
    \/ \E i \in DOMAIN runners, c \in DOMAIN Components : CloseNext(i, c)

Next ==
    \/ \E e \in Edits, renamed \in BOOLEAN : Edit(e[1], e[2], renamed)
    \/ \E n \in running : FlowStops(n)
    \/ Loader
    \/ Main

\* The goroutines run; nobody has to edit a file or to end the process.
Fairness ==
    /\ WF_vars(WatchStarts) /\ WF_vars(LoadFile) /\ WF_vars(Reload) /\ WF_vars(Reloaded)
    /\ WF_vars(StartApps) /\ WF_vars(Load) /\ WF_vars(Loaded)

Spec == Init /\ [][Next]_vars /\ Fairness

-----------------------------------------------------------------------------
(* Correctness.                                                            *)

\* What the directory says: for every name, the last valid file that has it.
ValidFiles(d) == {f \in 1..Files : d[f] \in DOMAIN Definition /\ Validate(Definition[d[f]])}

Reading(d) ==
    LET NameOf(f) == Definition[d[f]].name
        LastOf(n) == CHOOSE f \in ValidFiles(d) :
                     NameOf(f) = n /\ \A g \in ValidFiles(d) : NameOf(g) = n => g <= f
    IN  [n \in {NameOf(f) : f \in ValidFiles(d)} |-> d[LastOf(n)]]

TypeOK ==
    /\ binary \in Binaries
    /\ disk \in [1..Files -> Texts]
    /\ edits \in 0..MaxEdits /\ unread \in 0..MaxUnread
    /\ loading \in {"main", "watcher", "nobody"}
    /\ todo \subseteq 1..Files
    /\ watcher \in {"none", "starting", "watching", "done"}
    /\ events \in Nat
    /\ missed \in BOOLEAN
    /\ main \in {"load", "build", "link", "running", "closing", "ended"}
    /\ running \subseteq DOMAIN flows
    /\ ready \in BOOLEAN
    /\ apps \in {"none", "running", "stopped"}
    /\ link \in {"none", "serving", "closed"}

\* When the watcher has handled every event and none was missed, the loader's
\* table is what the directory says, however many edits came while it was
\* reading the files one by one (Loader.Load, Loader.Watch).
TableFollowsDisk ==
    watcher = "watching" /\ loading = "nobody" /\ events = 0 /\ ~missed /\ Alive
        => table = Reading(disk)

\* Edits that stop coming are in the table at last, unless fsnotify or a listing
\* failed to tell of one (Loader.Watch).
ChangesLoaded == <>[](~Alive \/ main = "closing" \/ missed \/ table = Reading(disk))

\* A flow that commits by transactions reads and writes one cluster, waits for
\* stable offsets and has the sink produce in the source's transaction; any other
\* Kafka flow stops at an event that failed and keeps its dead letters on its own
\* cluster.  This is what KafkaTxFlow and KafkaFlow rest on, for a file that was
\* accepted and built by any of the three programs.
DeliveryAsAccepted ==
    \A i \in DOMAIN runners :
        LET p == runners[i] IN
        /\ p.policy = "kafka_transaction" =>
              /\ p.source.type = "kafka" /\ p.source.transactionalId # "" /\ p.source.stable
              /\ p.sink.type = "kafka" /\ p.sink.transactional
              /\ p.sink.cluster = p.source.cluster
        /\ p.policy # "kafka_transaction" =>
              /\ p.source.type = "kafka" => p.source.transactionalId = ""
              /\ p.sink.type = "kafka" => ~p.sink.transactional
        /\ p.source.type = "kafka" =>
              /\ p.source.stopOnHandlerError
              /\ p.deadLetters.type = "kafka" /\ p.deadLetters.cluster = p.source.cluster

\* A process that says it is ready has built every flow that it accepted, once
\* each and no two on one HTTP route, and has its applications running: a file
\* that cannot be built is never left out in silence (run, buildPipeline).
ReadyMeansBuilt ==
    ready =>
        /\ Built = DOMAIN flows /\ Len(runners) = Cardinality(Built)
        /\ \A i, j \in DOMAIN runners :
              /\ runners[i].source.type = "http" /\ runners[j].source.type = "http"
              /\ runners[i].source.route = runners[j].source.route
              => i = j
        /\ Aio => apps = "running"

\* A process that a signal ended has closed every component of every flow, the
\* Link proxy and the applications, whatever failed to close (run, Shutdown).
SignalClosesAll ==
    cause = "signal" => closed = Parts /\ apps # "running" /\ link # "serving"
=============================================================================
