------------------------------ MODULE WasmerApps ------------------------------
(***************************************************************************)
(* The long-running WebAssembly applications of fiso-wasmer: the manager   *)
(* with its port pool (internal/wasmer/manager.go), each application's     *)
(* HTTP server and runner (internal/wasm/runtime_wasmer_app.go), the       *)
(* health checkers, and the process that starts all applications and stops *)
(* them at the end (cmd/fiso-wasmer).                                      *)
(*                                                                         *)
(* The manager's mutex is held from the beginning of StopApp and StopAll   *)
(* to their end, while servers wait for their requests; StartApp is one    *)
(* step under it.  An application that was stopped is not started again.   *)
(* StopApp is the manager's exported operation; the programs of the        *)
(* repository use StopAll only.                                            *)
(***************************************************************************)
EXTENDS Integers

CONSTANTS
    Apps,           \* applications of the configuration
    Pool,           \* ports of the manager's pool
    ConfiguredPort, \* ConfiguredPort[n]: the configured port, 0 to allocate one
    Checked,        \* applications with a health check
    Called          \* applications that clients call

ASSUME WasmerAppsAssumption ==
    /\ Pool \subseteq Nat \ {0}
    /\ ConfiguredPort \in [Apps -> Nat]
    /\ Checked \subseteq Apps
    /\ Called \subseteq Apps
    /\ "none" \notin Apps

VARIABLES
    \* the manager
    apps,       \* applications in its map
    used,       \* ports marked in the pool
    port,       \* port[n]: the port in the application's address
    health,     \* health[n]: "healthy" or "unhealthy"
    \* the mutex of the manager, and what its holder does
    op,         \* "none", "StopApp" or "StopAll"
    todo,       \* StopAll: applications to come
    cur,        \* the application being stopped, or "none"
    step,       \* "idle", "stop", "drain", "close", "closing"
    mayEnd,     \* the context of the operation may be done
    \* the applications
    listening,  \* applications whose server listens
    running,    \* applications whose runtime has its running flag set
    closed,     \* applications whose runner is closed
    request,    \* request[n]: "none", "accepted" or "called"
    refused,    \* applications with a request refused by a closed runner
    cut,        \* applications whose Stop ended with the context's error
    \* the health checkers
    checker,    \* checker[n]: "none", "idle", "asking", "healthy", "unhealthy", "ended"
    told,       \* applications whose StopHealth channel is closed
    \* the process
    main,       \* "starting", "serving", "aborting", "stopping", "exited", "panicked"
    pending     \* applications still to be started

managerVars == <<apps, used, port, health>>
stopVars == <<op, todo, cur, step, mayEnd>>
appVars == <<listening, running, closed, request, refused, cut>>
checkVars == <<checker, told>>
mainVars == <<main, pending>>
vars == <<managerVars, stopVars, appVars, checkVars, mainVars>>

Init ==
    /\ apps = {} /\ used = {}
    /\ port = [n \in Apps |-> 0]
    /\ health = [n \in Apps |-> "healthy"]
    /\ op = "none" /\ todo = {} /\ cur = "none" /\ step = "idle" /\ mayEnd = FALSE
    /\ listening = {} /\ running = {} /\ closed = {} /\ refused = {} /\ cut = {}
    /\ request = [n \in Apps |-> "none"]
    /\ checker = [n \in Apps |-> "none"]
    /\ told = {}
    /\ main = "starting" /\ pending = Apps

Alive == main \notin {"exited", "panicked"}
Unlocked == Alive /\ op = "none"

Dynamic(n) == ConfiguredPort[n] = 0
Held(p) == \E m \in listening : port[m] = p

-----------------------------------------------------------------------------
(* StartApp.                                                               *)

\* PortPool.Allocate: a port that is not marked and can be bound.  Other programs
\* hold ports too, so it need not be the lowest of them.
Allocate(p) == p \in Pool \ used /\ ~Held(p) /\ used' = used \cup {p}

\* StartApp succeeds.
StartOk(n) ==
    /\ main = "starting" /\ Unlocked
    /\ n \in pending
    /\ pending' = pending \ {n}
    /\ \E p \in Pool \cup {ConfiguredPort[n]} :
        /\ IF Dynamic(n) THEN Allocate(p)
                         ELSE p = ConfiguredPort[n] /\ ~Held(p) /\ UNCHANGED used
        /\ port' = [port EXCEPT ![n] = p]
    /\ apps' = apps \cup {n}
    /\ health' = [health EXCEPT ![n] = "healthy"]
    /\ listening' = listening \cup {n}
    /\ running' = running \cup {n}
    /\ checker' = [checker EXCEPT ![n] = IF n \in Checked THEN "idle" ELSE "none"]
    /\ UNCHANGED <<stopVars, closed, request, refused, cut, told, main>>

\* Mutant: the failure of an allocated application leaks its port.
StartFails_LeaksPort(n) ==
    /\ main = "starting" /\ Unlocked
    /\ n \in pending
    /\ main' = "aborting"
    /\ used' \in IF Dynamic(n) THEN {used} \cup {used \cup {p} : p \in Pool} ELSE {used}
    /\ UNCHANGED <<apps, port, health, stopVars, appVars, checkVars, pending>>

\* StartApp fails: no port, no module, no runtime, or the port is taken.  The port
\* is released, a configured one too.
StartFails(n) ==
    /\ main = "starting" /\ Unlocked
    /\ n \in pending
    /\ main' = "aborting"
    /\ used' \in IF Dynamic(n) THEN {used} ELSE {used, used \ {ConfiguredPort[n]}}
    /\ UNCHANGED <<apps, port, health, stopVars, appVars, checkVars, pending>>

-----------------------------------------------------------------------------
(* StopApp and StopAll.                                                    *)

\* StopApp takes the mutex; its context may end while it waits.  The checker's
\* channel is closed: a second time, after a stop that failed, that is a panic.
StopApp(n) ==
    /\ main \in {"starting", "serving"} /\ Unlocked
    /\ n \in apps
    /\ IF n \in told
       THEN main' = "panicked" /\ UNCHANGED <<op, cur, step, mayEnd, told>>
       ELSE /\ op' = "StopApp" /\ cur' = n /\ step' = "stop" /\ mayEnd' \in BOOLEAN
            /\ told' = told \cup ({n} \cap Checked)
            /\ UNCHANGED main
    /\ UNCHANGED <<managerVars, todo, appVars, checker, pending>>

\* StopAll takes the mutex, after a start that failed with the process's context,
\* at the end with one that never ends.
StopAll ==
    /\ main \in {"aborting", "stopping"} /\ Unlocked
    /\ op' = "StopAll"
    /\ todo' = apps
    /\ IF main = "aborting" THEN mayEnd' \in BOOLEAN ELSE mayEnd' = FALSE
    /\ UNCHANGED <<managerVars, cur, step, appVars, checkVars, mainVars>>

\* The next application of the map, in any order.
StopNext(n) ==
    /\ op = "StopAll" /\ step = "idle"
    /\ n \in todo
    /\ todo' = todo \ {n}
    /\ cur' = n /\ step' = "stop"
    /\ UNCHANGED <<managerVars, op, mayEnd, appVars, checkVars, mainVars>>

\* Runtime.Stop: nothing to do if the runtime does not run, or its server stops
\* listening and waits for its requests, with the runtime's mutex held.
RuntimeStop ==
    /\ step = "stop"
    /\ IF cur \in running
       THEN step' = "drain" /\ listening' = listening \ {cur}
       ELSE step' = "close" /\ UNCHANGED listening
    /\ UNCHANGED <<managerVars, op, todo, cur, mayEnd, running, closed, request, refused, cut,
                   checkVars, mainVars>>

\* Shutdown returns: the requests are answered.
Drained ==
    /\ step = "drain"
    /\ request[cur] = "none"
    /\ running' = running \ {cur}
    /\ step' = "close"
    /\ UNCHANGED <<managerVars, op, todo, cur, mayEnd, listening, closed, request, refused, cut,
                   checkVars, mainVars>>

\* Mutant: StopApp releases the port of an application it could not stop.
DrainCut_Releases ==
    /\ step = "drain" /\ mayEnd
    /\ cut' = cut \cup {cur}
    /\ IF op = "StopApp"
       THEN op' = "none" /\ cur' = "none" /\ step' = "idle" /\ used' = used \ {port[cur]}
       ELSE step' = "close" /\ UNCHANGED <<op, cur, used>>
    /\ UNCHANGED <<apps, port, health, todo, mayEnd, listening, running, closed, request, refused,
                   checkVars, mainVars>>

\* Mutant: StopAll ends with the first error.
DrainCut_EndsStopAll ==
    /\ step = "drain" /\ mayEnd
    /\ cut' = cut \cup {cur}
    /\ op' = "none" /\ cur' = "none" /\ step' = "idle"
    /\ IF op = "StopAll" THEN main' = "exited" ELSE UNCHANGED main
    /\ UNCHANGED <<managerVars, todo, mayEnd, listening, running, closed, request, refused,
                   checkVars, pending>>

\* Shutdown returns the context's error, for a request or for a connection that has
\* sent none yet: StopApp returns it and leaves the
\* application in the map, StopAll goes on.
DrainCut ==
    /\ step = "drain" /\ mayEnd
    /\ cut' = cut \cup {cur}
    /\ IF op = "StopApp"
       THEN op' = "none" /\ cur' = "none" /\ step' = "idle"
       ELSE step' = "close" /\ UNCHANGED <<op, cur>>
    /\ UNCHANGED <<managerVars, todo, mayEnd, listening, running, closed, request, refused,
                   checkVars, mainVars>>

\* Runtime.Close: Stop once more, without an end to its patience, if the runtime
\* still runs.
RuntimeClose ==
    /\ step = "close" /\ cur \in running
    /\ step' = "closing"
    /\ listening' = listening \ {cur}
    /\ UNCHANGED <<managerVars, op, todo, cur, mayEnd, running, closed, request, refused, cut,
                   checkVars, mainVars>>

\* The runner is closed, the port released and the application deleted: by StopApp
\* at once, by StopAll with all others at its end.
Finish ==
    /\ closed' = closed \cup {cur}
    /\ used' = used \ {port[cur]}
    /\ cur' = "none" /\ step' = "idle"
    /\ IF op = "StopApp" THEN apps' = apps \ {cur} /\ op' = "none" ELSE UNCHANGED <<apps, op>>
    /\ UNCHANGED <<port, health, todo, mayEnd, listening, request, refused, cut, checkVars, mainVars>>

\* Mutant: the runner is closed before the server has stopped.
RuntimeClosed_AtOnce ==
    /\ step \in {"stop", "drain", "close", "closing"}
    /\ running' = running \ {cur}
    /\ Finish

RuntimeClosed ==
    /\ \/ step = "close" /\ cur \notin running
       \/ step = "closing" /\ request[cur] = "none"
    /\ running' = running \ {cur}
    /\ Finish

\* Mutant: StopAll waits for the checkers.
StopAllReturns_Joins ==
    /\ op = "StopAll" /\ step = "idle" /\ todo = {}
    /\ \A n \in Apps : checker[n] \in {"none", "ended"}
    /\ apps' = {}
    /\ op' = "none"
    /\ main' = "exited"
    /\ UNCHANGED <<used, port, health, todo, cur, step, mayEnd, appVars, checkVars, pending>>

\* StopAll returns, and the process ends.
StopAllReturns ==
    /\ op = "StopAll" /\ step = "idle" /\ todo = {}
    /\ apps' = {}
    /\ op' = "none"
    /\ main' = "exited"
    /\ UNCHANGED <<used, port, health, todo, cur, step, mayEnd, appVars, checkVars, pending>>

-----------------------------------------------------------------------------
(* The applications' servers.                                              *)

\* The goroutine around Serve, which ended with the listener, takes the runtime's
\* mutex and clears the flag.
ServeEnds(n) ==
    /\ Alive
    /\ n \in running \ listening
    /\ ~(cur = n /\ step \in {"drain", "closing"})
    /\ running' = running \ {n}
    /\ UNCHANGED <<managerVars, stopVars, listening, closed, request, refused, cut, checkVars, mainVars>>

\* A client's request.
Request(n) ==
    /\ Alive
    /\ n \in Called \cap listening /\ request[n] = "none"
    /\ request' = [request EXCEPT ![n] = "accepted"]
    /\ UNCHANGED <<managerVars, stopVars, listening, running, closed, refused, cut, checkVars, mainVars>>

\* handleHTTP calls the runner, which refuses if it is closed.
Call(n) ==
    /\ Alive
    /\ request[n] = "accepted"
    /\ IF n \in closed
       THEN refused' = refused \cup {n} /\ request' = [request EXCEPT ![n] = "none"]
       ELSE request' = [request EXCEPT ![n] = "called"] /\ UNCHANGED refused
    /\ UNCHANGED <<managerVars, stopVars, listening, running, closed, cut, checkVars, mainVars>>

\* The call returns, and the request is answered.
Answer(n) ==
    /\ Alive
    /\ request[n] = "called"
    /\ request' = [request EXCEPT ![n] = "none"]
    /\ UNCHANGED <<managerVars, stopVars, listening, running, closed, refused, cut, checkVars, mainVars>>

-----------------------------------------------------------------------------
(* healthCheckLoop.                                                        *)

Checker(n, from, to) ==
    /\ Alive
    /\ checker[n] = from
    /\ checker' = [checker EXCEPT ![n] = to]

\* The ticker fires, also when the channel is closed already: select takes either.
Ask(n) ==
    /\ Checker(n, "idle", "asking")
    /\ UNCHANGED <<managerVars, stopVars, appVars, told, mainVars>>

\* A 2xx of the server that listens at the address, or anything else.
Hear(n) ==
    /\ \/ Checker(n, "asking", "healthy") /\ Held(port[n])
       \/ Checker(n, "asking", "unhealthy")
    /\ UNCHANGED <<managerVars, stopVars, appVars, told, mainVars>>

\* setAppHealth, under the manager's mutex, if the application is in the map.
SetHealth(n) ==
    /\ Unlocked
    /\ \E status \in {"healthy", "unhealthy"} :
        /\ Checker(n, status, "idle")
        /\ health' = IF n \in apps THEN [health EXCEPT ![n] = status] ELSE health
    /\ UNCHANGED <<apps, used, port, stopVars, appVars, told, mainVars>>

\* The loop finds its channel closed.
EndChecks(n) ==
    /\ n \in told
    /\ Checker(n, "idle", "ended")
    /\ UNCHANGED <<managerVars, stopVars, appVars, told, mainVars>>

-----------------------------------------------------------------------------
(* The process.                                                            *)

Started ==
    /\ main = "starting" /\ pending = {}
    /\ main' = "serving"
    /\ UNCHANGED <<managerVars, stopVars, appVars, checkVars, pending>>

\* SIGINT or SIGTERM.
Signal ==
    /\ main = "serving"
    /\ main' = "stopping"
    /\ UNCHANGED <<managerVars, stopVars, appVars, checkVars, pending>>

Stopping ==
    \/ StopAll \/ (\E n \in Apps : StopNext(n)) \/ RuntimeStop \/ Drained \/ DrainCut
    \/ RuntimeClose \/ RuntimeClosed \/ StopAllReturns

Serve(n) == Call(n) \/ Answer(n) \/ ServeEnds(n)

Check(n) == Ask(n) \/ Hear(n) \/ SetHealth(n) \/ EndChecks(n)

Next ==
    \/ \E n \in Apps : StartOk(n) \/ StartFails(n) \/ StopApp(n) \/ Request(n) \/ Serve(n) \/ Check(n)
    \/ Started \/ Signal \/ Stopping

Spec == Init /\ [][Next]_vars

(***************************************************************************)
(* Goroutines are scheduled, and calls of a runner return: they have the   *)
(* configured timeout, or a client that gives up.  Clients, signals and    *)
(* the start of the applications owe nothing.                              *)
(***************************************************************************)
FairSpec == Spec /\ WF_vars(Stopping) /\ \A n \in Apps : WF_vars(Serve(n)) /\ WF_vars(Check(n))

-----------------------------------------------------------------------------
(* Properties.                                                             *)

\* The types, and who holds the mutex when.
TypeOK ==
    /\ apps \subseteq Apps
    /\ used \subseteq Pool
    /\ port \in [Apps -> Nat]
    /\ health \in [Apps -> {"healthy", "unhealthy"}]
    /\ op \in {"none", "StopApp", "StopAll"}
    /\ todo \subseteq Apps
    /\ cur \in Apps \cup {"none"}
    /\ step \in {"idle", "stop", "drain", "close", "closing"}
    /\ mayEnd \in BOOLEAN
    /\ listening \subseteq Apps
    /\ running \subseteq Apps
    /\ closed \subseteq Apps
    /\ request \in [Apps -> {"none", "accepted", "called"}]
    /\ refused \subseteq Apps
    /\ cut \subseteq Apps
    /\ checker \in [Apps -> {"none", "idle", "asking", "healthy", "unhealthy", "ended"}]
    /\ told \subseteq Checked
    /\ main \in {"starting", "serving", "aborting", "stopping", "exited", "panicked"}
    /\ pending \subseteq Apps
    /\ step = "idle" <=> cur = "none"

\* The configured ports, which the pool does not know of.
Configured == {ConfiguredPort[n] : n \in Apps}

\* No port is lost or given back early: between operations a marked port is that of
\* an application in the map, and an allocated one is marked unless a configuration
\* names it too.
PortsAccounted ==
    op = "none" =>
        /\ \A p \in used : \E n \in apps : port[n] = p
        /\ \A n \in apps : Dynamic(n) => port[n] \in used \cup Configured

\* No two applications in the map have one allocated port, whatever failed before.
AllocatedDistinct ==
    \A m, n \in apps : /\ m # n /\ op = "none"
                       /\ Dynamic(m) /\ Dynamic(n)
                       /\ port[m] = port[n]
                       => port[n] \in Configured

\* An accepted request meets a closed runner only if its application's stop was
\* cut short.
ServedUnlessCut == refused \subseteq cut

\* When the process ends nothing is left: no application, no listener, no port.
AllStopped == main = "exited" => apps = {} /\ listening = {} /\ running = {} /\ used = {}

\* Once the stop has begun the process ends, whatever its checkers and requests do.
StopCompletes == main \in {"aborting", "stopping"} ~> main = "exited"
=============================================================================
