------------------------------ MODULE HttpPool ------------------------------
(***************************************************************************)
(* The shared HTTP server pool of fiso-flow (internal/source/http/pool.go) *)
(* in the process that runs it (cmd/fiso-flow run): flows reserve a path   *)
(* each, the pool's Start goroutine brings one server up per listen        *)
(* address, the flows' goroutines install their handlers, requests look    *)
(* their handler up under the server's mutex, and on SIGTERM both the      *)
(* pool's goroutine and main close every server, each holding the pool's   *)
(* and the server's mutex while http.Server.Shutdown waits for the         *)
(* requests in flight.                                                     *)
(*                                                                         *)
(* net/http is modelled from how the source uses it: Shutdown stops        *)
(* accepting at once and returns when no request is being served; Serve    *)
(* accepts until then.  Requests of another method than POST, and requests *)
(* whose body cannot be read, are answered before or after the lookup and  *)
(* change nothing: they are requests whose handler fails.                  *)
(***************************************************************************)
EXTENDS Integers

CONSTANTS
    Flows,      \* HTTP flows of the configuration
    Servers,    \* listen addresses
    Paths,      \* paths
    Configs,    \* configurations: a listen address and a path for each flow
    Requests    \* requests clients send (model bound)

Route == [addr : Servers, path : Paths]

ASSUME HttpPoolAssumption ==
    Flows # {} /\ Configs \subseteq [Flows -> Route] /\ "nobody" \notin Servers

Closers == {"main", "starter"}
Nobody == "nobody"
Locker == Closers \cup {Nobody}

VARIABLES
    route,      \* the configuration: each flow's listen address and path
    \* the pool and its servers
    poolLock,   \* who holds ServerPool.mu for writing, across steps
    srvLock,    \* who holds sharedServer.mu across steps
    handlers,   \* handlers[f]: "absent", "reserved" (nil) or "set"
    server,     \* server[s]: "none", "serving" or "shutdown"
    \* the goroutines
    main,       \* run(): "build", "serve", "close", "pipelines", "exited"
    starter,    \* ServerPool.Start: "none", "launch", "wait", "close", "done"
    starting,   \* start goroutines not run yet: servers
    failed,     \* servers whose listen failed, errors not collected yet
    closing,    \* closing[c]: servers closer c has not closed yet
    current,    \* current[c]: the server c is shutting down, or Nobody
    flow,       \* flow[f]: "none", "running", "blocked" (in Start) or "done"
    cancelled,  \* the process context is done (SIGTERM)
    \* the requests
    request,    \* request[q]: "new", "lookup", "handling" or its answer
    target      \* target[q]: the flow whose path q asks for

poolVars == <<poolLock, srvLock, handlers, server>>
goVars == <<main, starter, starting, failed, closing, current, flow, cancelled>>
reqVars == <<request, target>>
vars == <<route, poolVars, goVars, reqVars>>

\* The process runs: when run() returns, every goroutine is gone.
Alive == main # "exited"

Answered == {"200", "500", "503", "refused"}

Addr(f) == route[f].addr

\* The pool's servers: the addresses of the routes reserved so far.
Pooled == {Addr(f) : f \in {g \in Flows : handlers[g] # "absent"}}

\* Requests a server has accepted and not answered.
InFlight(s) == {q \in Requests : request[q] \in {"lookup", "handling"} /\ Addr(target[q]) = s}

Init ==
    /\ route \in Configs
    /\ poolLock = Nobody
    /\ srvLock = [s \in Servers |-> Nobody]
    /\ handlers = [f \in Flows |-> "absent"]
    /\ server = [s \in Servers |-> "none"]
    /\ main = "build"
    /\ starter = "none"
    /\ starting = {}
    /\ failed = {}
    /\ closing = [c \in Closers |-> {}]
    /\ current = [c \in Closers |-> Nobody]
    /\ flow = [f \in Flows |-> "none"]
    /\ cancelled = FALSE
    /\ request = [q \in Requests |-> "new"]
    /\ target \in [Requests -> Flows]

-----------------------------------------------------------------------------
(* run(): build the flows, start them, wait for the signal, shut down.     *)

\* buildPipeline reserves the flow's path; a path reserved before ends run().
PreRegister(f) ==
    /\ main = "build"
    /\ handlers[f] = "absent"
    /\ IF \E g \in Flows : handlers[g] # "absent" /\ route[g] = route[f]
       THEN main' = "exited" /\ UNCHANGED handlers
       ELSE handlers' = [handlers EXCEPT ![f] = "reserved"] /\ UNCHANGED main
    /\ UNCHANGED <<route, poolLock, srvLock, server, starter, starting, failed, closing,
                   current, flow, cancelled, reqVars>>

\* Every flow is built: the pool's goroutine and the flows' are started.
StartAll ==
    /\ main = "build"
    /\ \A f \in Flows : handlers[f] # "absent"
    /\ main' = "serve"
    /\ starter' = "launch"
    /\ flow' = [f \in Flows |-> "running"]
    /\ UNCHANGED <<route, poolVars, starting, failed, closing, current, cancelled, reqVars>>

\* SIGINT or SIGTERM; run() listens for it before it builds the flows.
Signal ==
    /\ main \in {"build", "serve"}
    /\ ~cancelled
    /\ cancelled' = TRUE
    /\ UNCHANGED <<route, poolVars, main, starter, starting, failed, closing, current, flow, reqVars>>

\* Close takes the pool's mutex and walks over the servers.
LockPool(c) ==
    /\ poolLock = Nobody
    /\ poolLock' = c
    /\ closing' = [closing EXCEPT ![c] = Pooled]

\* run() closes the pool: ctx.Done, SetReady(false), httpPool.Close().
MainClose ==
    /\ main = "serve"
    /\ cancelled
    /\ LockPool("main")
    /\ main' = "close"
    /\ UNCHANGED <<route, srvLock, handlers, server, starter, starting, failed, current,
                   flow, cancelled, reqVars>>

-----------------------------------------------------------------------------
(* ServerPool.Start and the servers' start goroutines.                     *)

\* Start launches one goroutine per server.
Launch ==
    /\ Alive
    /\ starter = "launch"
    /\ poolLock = Nobody
    /\ starting' = Pooled
    /\ starter' = "wait"
    /\ UNCHANGED <<route, poolVars, main, failed, closing, current, flow, cancelled, reqVars>>

\* Mutant: the error path of start returns without unlocking.
Listen_LeaksLock(s) ==
    /\ Alive
    /\ s \in starting
    /\ srvLock[s] = Nobody
    /\ starting' = starting \ {s}
    /\ \/ server' = [server EXCEPT ![s] = "serving"] /\ UNCHANGED <<failed, srvLock>>
       \/ /\ failed' = failed \cup {s}
          /\ srvLock' = [srvLock EXCEPT ![s] = "start"]
          /\ UNCHANGED server
    /\ UNCHANGED <<route, poolLock, handlers, main, starter, closing, current, flow, cancelled, reqVars>>

\* sharedServer.start: listen and serve, under the server's mutex; or fail.
Listen(s) ==
    /\ Alive
    /\ s \in starting
    /\ srvLock[s] = Nobody
    /\ starting' = starting \ {s}
    /\ \/ server' = [server EXCEPT ![s] = "serving"] /\ UNCHANGED failed
       \/ failed' = failed \cup {s} /\ UNCHANGED server
    /\ UNCHANGED <<route, poolLock, srvLock, handlers, main, starter, closing, current,
                   flow, cancelled, reqVars>>

\* Serve fails for good: the server accepts nothing any more.
ServeFails(s) ==
    /\ Alive
    /\ server[s] = "serving"
    /\ ~cancelled
    /\ server' = [server EXCEPT ![s] = "shutdown"]
    /\ failed' = failed \cup {s}
    /\ UNCHANGED <<route, poolLock, srvLock, handlers, main, starter, starting, closing,
                   current, flow, cancelled, reqVars>>

\* Start's select: the context is done or a server failed; both close the pool.
StarterClose ==
    /\ Alive
    /\ starter = "wait"
    /\ cancelled \/ failed # {}
    /\ LockPool("starter")
    /\ starter' = "close"
    /\ UNCHANGED <<route, srvLock, handlers, server, main, starting, failed, current,
                   flow, cancelled, reqVars>>

-----------------------------------------------------------------------------
(* ServerPool.Close, run by main and by the pool's own goroutine.          *)

\* sharedServer.close takes the server's mutex; a server that never started
\* is left alone, the others stop accepting.
BeginShutdown(c, s) ==
    /\ Alive
    /\ current[c] = Nobody
    /\ s \in closing[c]
    /\ srvLock[s] = Nobody
    /\ closing' = [closing EXCEPT ![c] = @ \ {s}]
    /\ IF server[s] = "none"
       THEN UNCHANGED <<srvLock, server, current>>
       ELSE /\ srvLock' = [srvLock EXCEPT ![s] = c]
            /\ server' = [server EXCEPT ![s] = "shutdown"]
            /\ current' = [current EXCEPT ![c] = s]
    /\ UNCHANGED <<route, poolLock, handlers, main, starter, starting, failed, flow, cancelled, reqVars>>

\* Mutant: the shutdown does not wait for the requests in flight.
EndShutdown_NoWait(c) ==
    /\ Alive
    /\ current[c] # Nobody
    /\ srvLock' = [srvLock EXCEPT ![current[c]] = Nobody]
    /\ current' = [current EXCEPT ![c] = Nobody]
    /\ UNCHANGED <<route, poolLock, handlers, server, main, starter, starting, failed,
                   closing, flow, cancelled, reqVars>>

\* Shutdown(context.Background()) returns when nothing is in flight any more.
EndShutdown(c) ==
    /\ Alive
    /\ current[c] # Nobody
    /\ InFlight(current[c]) = {}
    /\ srvLock' = [srvLock EXCEPT ![current[c]] = Nobody]
    /\ current' = [current EXCEPT ![c] = Nobody]
    /\ UNCHANGED <<route, poolLock, handlers, server, main, starter, starting, failed,
                   closing, flow, cancelled, reqVars>>

\* Every server is closed: the pool's mutex is released, the closer goes on.
EndClose(c) ==
    /\ Alive
    /\ poolLock = c
    /\ closing[c] = {}
    /\ current[c] = Nobody
    /\ poolLock' = Nobody
    /\ IF c = "main" THEN main' = "pipelines" /\ UNCHANGED starter
                     ELSE starter' = "done" /\ UNCHANGED main
    /\ UNCHANGED <<route, srvLock, handlers, server, starting, failed, closing, current,
                   flow, cancelled, reqVars>>

\* The pipelines and the metrics server are shut down and the process exits.
Exit ==
    /\ main = "pipelines"
    /\ main' = "exited"
    /\ UNCHANGED <<route, poolVars, starter, starting, failed, closing, current, flow, cancelled, reqVars>>

-----------------------------------------------------------------------------
(* The flows' goroutines: PooledSource.Start.                              *)

\* SetHandler: a read lock on the pool, then the server's mutex.
SetHandler(f) ==
    /\ Alive
    /\ flow[f] = "running"
    /\ poolLock = Nobody
    /\ flow' = [flow EXCEPT ![f] = "blocked"]
    /\ UNCHANGED <<route, poolVars, main, starter, starting, failed, closing, current, cancelled, reqVars>>

\* Mutant: SetHandler returns with the server's mutex held.
Install_LeaksLock(f) ==
    /\ Alive
    /\ flow[f] = "blocked"
    /\ handlers[f] = "reserved"
    /\ srvLock[Addr(f)] = Nobody
    /\ handlers' = [handlers EXCEPT ![f] = "set"]
    /\ srvLock' = [srvLock EXCEPT ![Addr(f)] = f]
    /\ UNCHANGED <<route, poolLock, server, goVars, reqVars>>

\* The server's mutex is free: the handler replaces the reservation.
Install(f) ==
    /\ Alive
    /\ flow[f] = "blocked"
    /\ handlers[f] = "reserved"
    /\ srvLock[Addr(f)] = Nobody
    /\ handlers' = [handlers EXCEPT ![f] = "set"]
    /\ UNCHANGED <<route, poolLock, srvLock, server, goVars, reqVars>>

\* With its handler set the source only waits for the context.
FlowReturns(f) ==
    /\ Alive
    /\ flow[f] = "blocked"
    /\ handlers[f] = "set"
    /\ cancelled
    /\ flow' = [flow EXCEPT ![f] = "done"]
    /\ UNCHANGED <<route, poolVars, main, starter, starting, failed, closing, current, cancelled, reqVars>>

-----------------------------------------------------------------------------
(* The requests.                                                           *)

\* The request is accepted, or its connection is refused.
Accept(q) ==
    /\ Alive
    /\ request[q] = "new"
    /\ request' = [request EXCEPT ![q] =
                     IF server[Addr(target[q])] = "serving" THEN "lookup" ELSE "refused"]
    /\ UNCHANGED <<route, poolVars, goVars, target>>

\* The handler of the path is looked up under the server's mutex.
Lookup(q) ==
    /\ Alive
    /\ request[q] = "lookup"
    /\ srvLock[Addr(target[q])] = Nobody
    /\ request' = [request EXCEPT ![q] =
                     IF handlers[target[q]] = "set" THEN "handling" ELSE "503"]
    /\ UNCHANGED <<route, poolVars, goVars, target>>

\* The flow's pipeline returns.
Answer(q) ==
    /\ Alive
    /\ request[q] = "handling"
    /\ \E code \in {"200", "500"} : request' = [request EXCEPT ![q] = code]
    /\ UNCHANGED <<route, poolVars, goVars, target>>

-----------------------------------------------------------------------------
Next ==
    \/ \E f \in Flows : PreRegister(f)
    \/ StartAll \/ Signal \/ MainClose \/ Exit
    \/ Launch \/ StarterClose
    \/ \E s \in Servers : Listen(s) \/ ServeFails(s)
    \/ \E c \in Closers : \/ \E s \in Servers : BeginShutdown(c, s)
                          \/ EndShutdown(c)
                          \/ EndClose(c)
    \/ \E f \in Flows : SetHandler(f) \/ Install(f) \/ FlowReturns(f)
    \/ \E q \in Requests : Accept(q) \/ Lookup(q) \/ Answer(q)

Spec == Init /\ [][Next]_vars

(***************************************************************************)
(* Every goroutine is scheduled and a flow's pipeline returns.  Weak       *)
(* fairness is enough for the mutexes: no one takes one infinitely often.  *)
(* Clients, signals and failures owe nothing.                              *)
(***************************************************************************)
Fairness ==
    /\ \A f \in Flows :
          WF_vars(PreRegister(f)) /\ WF_vars(SetHandler(f)) /\ WF_vars(Install(f))
    /\ WF_vars(StartAll \/ MainClose \/ Exit)
    /\ WF_vars(Launch \/ StarterClose)
    /\ \A s \in Servers : WF_vars(Listen(s))
    /\ \A c \in Closers :
          WF_vars((\E s \in Servers : BeginShutdown(c, s)) \/ EndShutdown(c) \/ EndClose(c))
    /\ \A q \in Requests : WF_vars(Lookup(q) \/ Answer(q))

FairSpec == Spec /\ Fairness

-----------------------------------------------------------------------------
(* Properties.                                                             *)

\* The types of the pool's, the goroutines' and the requests' state.
TypeOK ==
    /\ route \in [Flows -> Route]
    /\ poolLock \in Locker
    /\ srvLock \in [Servers -> Locker]
    /\ handlers \in [Flows -> {"absent", "reserved", "set"}]
    /\ server \in [Servers -> {"none", "serving", "shutdown"}]
    /\ main \in {"build", "serve", "close", "pipelines", "exited"}
    /\ starter \in {"none", "launch", "wait", "close", "done"}
    /\ starting \subseteq Servers
    /\ failed \subseteq Servers
    /\ closing \in [Closers -> SUBSET Servers]
    /\ current \in [Closers -> Servers \cup {Nobody}]
    /\ flow \in [Flows -> {"none", "running", "blocked", "done"}]
    /\ cancelled \in BOOLEAN
    /\ request \in [Requests -> {"new", "lookup", "handling"} \cup Answered]
    /\ target \in [Requests -> Flows]

\* A flow's requests are its own: no two flows run on one route.
RoutesDistinct ==
    main \in {"serve", "close", "pipelines"} =>
        \A f, g \in Flows : route[f] = route[g] => f = g

\* When both closers are through and the pipelines are shut down, every request
\* the closed servers had accepted is answered, whichever closer closed them.
Drained ==
    main = "pipelines" /\ starter = "done" =>
        \A s \in Servers : server[s] = "shutdown" => InFlight(s) = {}

\* No request waits at its lookup forever.
LookupsEnd == <>[](\A q \in Requests : request[q] # "lookup")

\* A request that was accepted is answered, as long as nothing closes the pool.
RequestsAnswered ==
    \A q \in Requests :
        request[q] = "lookup" ~> (request[q] \in Answered \/ cancelled \/ failed # {})

\* A shutdown that no request blocks at its lookup comes to its end, with main and
\* the pool's goroutine closing the pool concurrently.
ShutdownUnlessBlocked == LookupsEnd => (cancelled ~> main = "exited")

\* pool.go:331, "Close gracefully shuts down all servers.": after SIGTERM the
\* pool is closed and the process exits.
ShutdownCompletes == cancelled ~> main = "exited"
=============================================================================
