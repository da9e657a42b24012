-------------------------- MODULE WasmerApps_proofs --------------------------
(***************************************************************************)
(* The manager of the WebAssembly applications for every set of            *)
(* applications and ports: ports are accounted for, a runner is closed     *)
(* after its requests unless a stop was cut short, and the process leaves  *)
(* nothing behind.                                                         *)
(***************************************************************************)
EXTENDS WasmerApps, TLAPS

\* The applications that still have what StartApp gave them: all of the map's, but
\* those StopAll has done.
Live == IF op = "StopAll" THEN todo \cup ({cur} \ {"none"}) ELSE apps

\* Who holds the mutex, and for what.
Locking ==
    /\ op = "none" => step = "idle"
    /\ op = "StopApp" => step # "idle" /\ cur \in apps
    /\ op = "StopAll" => cur \notin todo
    /\ pending \cap (apps \cup closed \cup Live) = {}

\* The ports of the applications that are not done.
LivePorts ==
    /\ \A p \in used : \E n \in Live : port[n] = p
    /\ \A n \in Live : Dynamic(n) => port[n] \in used \cup Configured
    /\ \A n \in Live : ~Dynamic(n) => port[n] = ConfiguredPort[n]
    /\ \A m, n \in Live :
        m # n /\ Dynamic(m) /\ Dynamic(n) /\ port[m] = port[n] => port[n] \in Configured

\* Servers, their requests and their runners.
Servers ==
    /\ listening \subseteq running
    /\ running \subseteq Live
    /\ closed \cap running = {}
    /\ step \in {"drain", "closing"} => cur \in running \ listening
    /\ \A n \in running \ listening : n \in cut \/ (cur = n /\ step \in {"drain", "closing"})
    /\ \A n \in Apps : request[n] # "none" => n \in running \cup cut

\* The process that has ended.
Ended == main = "exited" => op = "none" /\ Live = {}

\* The inductive invariant.
IInv ==
    /\ TypeOK
    /\ Locking
    /\ LivePorts
    /\ Servers
    /\ ServedUnlessCut
    /\ Ended

-----------------------------------------------------------------------------
\* The initial states satisfy the invariant.
LEMMA InitInv == ASSUME Init PROVE IInv
<1> USE WasmerAppsAssumption DEF WasmerAppsAssumption, Init
<1>1. TypeOK
  BY DEF TypeOK
<1>2. Locking /\ LivePorts /\ Servers
  BY DEF Locking, LivePorts, Servers, Live
<1>3. ServedUnlessCut /\ Ended
  BY DEF ServedUnlessCut, Ended
<1> QED
  BY <1>1, <1>2, <1>3 DEF IInv

\* The application being stopped is one that is not done.
LEMMA Current == ASSUME IInv
                 PROVE /\ Live \subseteq Apps
                       /\ step # "idle" => cur \in Live /\ cur \in Apps
BY WasmerAppsAssumption DEF WasmerAppsAssumption, IInv, TypeOK, Locking, Live

-----------------------------------------------------------------------------
(* Types.                                                                  *)

\* The types are preserved.
LEMMA NextType == ASSUME IInv, Next PROVE TypeOK'
<1> USE WasmerAppsAssumption, Current
    DEF WasmerAppsAssumption, IInv, TypeOK, managerVars, stopVars, appVars, checkVars, mainVars
<1>1. ASSUME NEW n \in Apps, StartOk(n) PROVE TypeOK'
  <2>1. PICK p \in Pool \cup {ConfiguredPort[n]} :
            /\ port' = [port EXCEPT ![n] = p] /\ used' \in {used, used \cup {p}}
            /\ used' # used => p \in Pool
    BY <1>1 DEF StartOk, Allocate
  <2>2. p \in Nat
    BY <2>1
  <2>3. used' \subseteq Pool /\ port' \in [Apps -> Nat]
    BY <2>1, <2>2
  <2>4. /\ apps' \subseteq Apps /\ health' \in [Apps -> {"healthy", "unhealthy"}]
        /\ listening' \subseteq Apps /\ running' \subseteq Apps /\ pending' \subseteq Apps
    BY <1>1 DEF StartOk
  <2>5. checker' \in [Apps -> {"none", "idle", "asking", "healthy", "unhealthy", "ended"}]
    BY <1>1 DEF StartOk
  <2> QED
    BY <1>1, <2>3, <2>4, <2>5 DEF StartOk
<1>2. ASSUME NEW n \in Apps, StartFails(n) PROVE TypeOK'
  <2>1. used' \subseteq Pool
    BY <1>2 DEF StartFails
  <2> QED
    BY <1>2, <2>1 DEF StartFails
<1>3. ASSUME NEW n \in Apps, StopApp(n) PROVE TypeOK'
  BY <1>3 DEF StopApp
<1>4. CASE StopAll
  BY <1>4 DEF StopAll
<1>5. ASSUME NEW n \in Apps, StopNext(n) PROVE TypeOK'
  BY <1>5 DEF StopNext
<1>6. CASE RuntimeStop \/ Drained \/ DrainCut \/ RuntimeClose
  BY <1>6 DEF RuntimeStop, Drained, DrainCut, RuntimeClose
<1>7. CASE RuntimeClosed
  BY <1>7 DEF RuntimeClosed, Finish
<1>8. CASE StopAllReturns
  BY <1>8 DEF StopAllReturns
<1>9. ASSUME NEW n \in Apps, Serve(n) \/ Request(n) PROVE TypeOK'
  <2>1. /\ UNCHANGED <<managerVars, stopVars, checkVars, mainVars, listening, closed, cut>>
        /\ running' \subseteq running /\ refused' \subseteq refused \cup {n}
    BY <1>9 DEF Serve, ServeEnds, Request, Call, Answer
  <2>2. \E to \in {"none", "accepted", "called"} :
            request' = request \/ request' = [request EXCEPT ![n] = to]
    BY <1>9 DEF Serve, ServeEnds, Request, Call, Answer
  <2>3. request' \in [Apps -> {"none", "accepted", "called"}]
    BY <2>2
  <2> QED
    BY <2>1, <2>3
<1>10. ASSUME NEW n \in Apps, Check(n) PROVE TypeOK'
  <2>1. /\ health' = health \/ \E s \in {"healthy", "unhealthy"} : health' = [health EXCEPT ![n] = s]
        /\ \E to \in {"idle", "asking", "healthy", "unhealthy", "ended"} :
               checker' = [checker EXCEPT ![n] = to]
        /\ UNCHANGED <<apps, used, port, stopVars, appVars, told, mainVars>>
    BY <1>10 DEF Check, Ask, Hear, SetHealth, EndChecks, Checker
  <2>2. health' \in [Apps -> {"healthy", "unhealthy"}]
    BY <2>1
  <2>3. checker' \in [Apps -> {"none", "idle", "asking", "healthy", "unhealthy", "ended"}]
    BY <2>1
  <2> QED
    BY <2>1, <2>2, <2>3
<1>11. CASE Started \/ Signal
  BY <1>11 DEF Started, Signal
<1> QED
  BY <1>1, <1>2, <1>3, <1>4, <1>5, <1>6, <1>7, <1>8, <1>9, <1>10, <1>11 DEF Next, Stopping

-----------------------------------------------------------------------------
(* The rest of the invariant, for each kind of step.                       *)

\* What the types do not say.
Rest == Locking /\ LivePorts /\ Servers /\ ServedUnlessCut /\ Ended

\* A step of a request or a server.
LEMMA ServeRest == ASSUME IInv, NEW n \in Apps, Serve(n) \/ Request(n) PROVE Rest'
<1> USE Current DEF IInv, managerVars, stopVars, checkVars, mainVars
<1>1. /\ UNCHANGED <<managerVars, stopVars, checkVars, mainVars, listening, closed, cut>>
      /\ Live' = Live
  BY DEF Serve, ServeEnds, Request, Call, Answer, Live
<1>2. Locking' /\ LivePorts' /\ Ended'
  BY <1>1 DEF Locking, LivePorts, Ended, TypeOK
<1>3. CASE ServeEnds(n)
  <2>1. Servers'
    BY <1>1, <1>3 DEF ServeEnds, Servers
  <2>2. ServedUnlessCut'
    BY <1>1, <1>3 DEF ServeEnds, ServedUnlessCut
  <2> QED
    BY <1>2, <2>1, <2>2 DEF Rest
<1>4. CASE Request(n)
  <2>1. Servers' /\ ServedUnlessCut'
    BY <1>1, <1>4 DEF Request, Servers, ServedUnlessCut, TypeOK
  <2> QED
    BY <1>2, <2>1 DEF Rest
<1>5. CASE Call(n) \/ Answer(n)
  <2>1. /\ running' = running
        /\ request[n] # "none"
        /\ \A m \in Apps : request'[m] # "none" => request[m] # "none"
        /\ refused' = refused \/ (n \in closed /\ refused' = refused \cup {n})
    BY <1>5 DEF Call, Answer, TypeOK
  <2>2. Servers'
    BY <1>1, <2>1 DEF Servers
  <2>3. ServedUnlessCut'
    BY <1>1, <2>1 DEF Servers, ServedUnlessCut
  <2> QED
    BY <1>2, <2>2, <2>3 DEF Rest
<1> QED
  BY <1>3, <1>4, <1>5 DEF Serve

\* A step that leaves the ports, the mutex and the servers alone.
LEMMA QuietRest ==
    ASSUME IInv,
           UNCHANGED <<apps, used, port, stopVars, appVars, pending>>,
           main' = "exited" => main = "exited"
    PROVE  Rest'
<1>1. Live' = Live
  BY DEF Live, stopVars
<1> QED
  BY <1>1 DEF IInv, Rest, Locking, LivePorts, Servers, ServedUnlessCut, Ended, stopVars, appVars

\* A start, done or failed.
LEMMA StartRest == ASSUME IInv, NEW n \in Apps, StartOk(n) \/ StartFails(n) PROVE Rest'
<1> USE WasmerAppsAssumption, Current
    DEF WasmerAppsAssumption, IInv, managerVars, stopVars, appVars, checkVars, mainVars
<1>1. CASE StartOk(n)
  <2>1. PICK p \in Pool \cup {ConfiguredPort[n]} :
            /\ IF Dynamic(n) THEN Allocate(p) ELSE p = ConfiguredPort[n] /\ UNCHANGED used
            /\ port' = [port EXCEPT ![n] = p]
    BY <1>1 DEF StartOk
  <2>2. /\ op = "none" /\ step = "idle" /\ n \in pending /\ n \notin apps /\ n \notin closed
        /\ Live = apps /\ Live' = apps \cup {n} /\ apps' = apps \cup {n}
        /\ main = "starting" /\ pending' = pending \ {n}
        /\ UNCHANGED <<op, step, cur, todo, closed, main, cut, refused, request>>
    BY <1>1 DEF StartOk, Unlocked, Locking, Live
  <2>3. /\ used \subseteq used'
        /\ used' \subseteq used \cup {p}
        /\ Dynamic(n) => p \in used' /\ p \notin used
        /\ ~Dynamic(n) => p = ConfiguredPort[n]
    BY <2>1 DEF Allocate
  <2>4. port'[n] = p /\ \A m \in Apps : m # n => port'[m] = port[m]
    BY <2>1 DEF TypeOK
  <2>5. Locking' /\ Ended'
    BY <2>2 DEF Locking, Ended
  <2>6. LivePorts'
    <3>1. \A q \in used' : \E m \in Live' : port'[m] = q
      BY <2>2, <2>3, <2>4 DEF LivePorts
    <3>2. \A m \in Live' : /\ Dynamic(m) => port'[m] \in used' \cup Configured
                           /\ ~Dynamic(m) => port'[m] = ConfiguredPort[m]
      BY <2>2, <2>3, <2>4 DEF LivePorts
    <3>3. \A l, m \in Live' : l # m /\ Dynamic(l) /\ Dynamic(m) /\ port'[l] = port'[m]
                              => port'[m] \in Configured
      BY <2>2, <2>3, <2>4 DEF LivePorts
    <3> QED
      BY <3>1, <3>2, <3>3 DEF LivePorts, Dynamic, Configured
  <2>7. Servers'
    BY <1>1, <2>2 DEF StartOk, Servers
  <2>8. ServedUnlessCut'
    BY <2>2 DEF ServedUnlessCut
  <2> QED
    BY <2>5, <2>6, <2>7, <2>8 DEF Rest
<1>2. CASE StartFails(n)
  <2>1. /\ main' = "aborting" /\ UNCHANGED <<apps, port, stopVars, appVars, pending>>
        /\ Live' = Live
    BY <1>2 DEF StartFails, Live
  <2>2. used' \subseteq used /\ used \subseteq used' \cup Configured
    BY <1>2 DEF StartFails, Configured
  <2>3. LivePorts'
    BY <2>1, <2>2 DEF LivePorts
  <2>4. Locking' /\ Servers' /\ ServedUnlessCut' /\ Ended'
    BY <2>1 DEF Locking, Servers, ServedUnlessCut, Ended
  <2> QED
    BY <2>3, <2>4 DEF Rest
<1> QED
  BY <1>1, <1>2

\* The beginning of StopApp and StopAll, and StopAll's next application.
LEMMA BeginRest ==
    ASSUME IInv, StopAll \/ \E n \in Apps : StopApp(n) \/ StopNext(n)
    PROVE  Rest'
<1> USE WasmerAppsAssumption
    DEF WasmerAppsAssumption, IInv, managerVars, stopVars, appVars, checkVars, mainVars
<1>1. Live' = Live /\ UNCHANGED <<managerVars, appVars, pending>>
  <2>1. CASE StopAll
    BY <2>1 DEF StopAll, Unlocked, Live, Locking, TypeOK
  <2>2. ASSUME NEW n \in Apps, StopApp(n)
        PROVE  Live' = Live /\ UNCHANGED <<managerVars, appVars, pending>>
    BY <2>2 DEF StopApp, Unlocked, Live
  <2>3. ASSUME NEW n \in Apps, StopNext(n)
        PROVE  Live' = Live /\ UNCHANGED <<managerVars, appVars, pending>>
    BY <2>3 DEF StopNext, Live, TypeOK
  <2> QED
    BY <2>1, <2>2, <2>3
<1>2. LivePorts' /\ ServedUnlessCut'
  BY <1>1 DEF LivePorts, ServedUnlessCut
<1>3. Locking'
  BY <1>1 DEF StopAll, StopApp, StopNext, Unlocked, Locking, TypeOK
<1>4. Servers'
  <2>1. step \in {"idle", "stop"} /\ step' \in {"idle", "stop"}
    BY DEF StopAll, StopApp, StopNext, Unlocked, Locking, TypeOK
  <2> QED
    BY <1>1, <2>1 DEF Servers
<1>5. Ended'
  BY <1>1 DEF StopAll, StopApp, StopNext, Unlocked, Alive, Ended
<1> QED
  BY <1>2, <1>3, <1>4, <1>5 DEF Rest

\* The steps of a stop up to the closed runner.
LEMMA StopRest ==
    ASSUME IInv, RuntimeStop \/ Drained \/ DrainCut \/ RuntimeClose
    PROVE  Rest'
<1> USE Current DEF IInv, managerVars, stopVars, appVars, checkVars, mainVars
<1>1. /\ UNCHANGED <<managerVars, todo, closed, request, refused, main, pending>>
      /\ Live' = Live
      /\ step # "idle" /\ op # "none"
  BY DEF RuntimeStop, Drained, DrainCut, RuntimeClose, Live, Locking
<1>2. LivePorts'
  BY <1>1 DEF LivePorts
<1>3. Locking' /\ Ended'
  BY <1>1 DEF RuntimeStop, Drained, DrainCut, RuntimeClose, Locking, Ended, TypeOK
<1>4. Servers'
  <2>1. CASE RuntimeStop
    BY <1>1, <2>1 DEF RuntimeStop, Servers
  <2>2. CASE Drained
    BY <1>1, <2>2 DEF Drained, Servers
  <2>3. CASE DrainCut
    BY <1>1, <2>3 DEF DrainCut, Servers, TypeOK
  <2>4. CASE RuntimeClose
    BY <1>1, <2>4 DEF RuntimeClose, Servers
  <2> QED
    BY <2>1, <2>2, <2>3, <2>4
<1>5. ServedUnlessCut'
  BY <1>1 DEF RuntimeStop, Drained, DrainCut, RuntimeClose, ServedUnlessCut
<1> QED
  BY <1>2, <1>3, <1>4, <1>5 DEF Rest

\* The runner is closed, and what StartApp gave the application is taken back.
LEMMA FinishRest == ASSUME IInv, RuntimeClosed PROVE Rest'
<1> USE WasmerAppsAssumption, Current
    DEF WasmerAppsAssumption, IInv, managerVars, stopVars, appVars, checkVars, mainVars
<1>1. /\ step \in {"close", "closing"} /\ op # "none" /\ cur \in Live
      /\ Live' = Live \ {cur}
      /\ used' = used \ {port[cur]} /\ running' = running \ {cur}
      /\ closed' = closed \cup {cur} /\ cur' = "none" /\ step' = "idle"
      /\ UNCHANGED <<port, todo, listening, request, refused, cut, main, pending>>
  BY DEF RuntimeClosed, Finish, Live, Locking, TypeOK
<1>2. /\ cur \notin listening
      /\ cur \in running => step = "closing" /\ request[cur] = "none"
  BY DEF RuntimeClosed, Servers
<1>3. Locking'
  BY <1>1 DEF RuntimeClosed, Finish, Locking, TypeOK, Live
<1>4. LivePorts'
  <2>1. \A p \in used' : \E n \in Live' : port'[n] = p
    BY <1>1 DEF LivePorts
  <2>2. ASSUME NEW n \in Live', Dynamic(n) PROVE port'[n] \in used' \cup Configured
    <3>1. CASE port[n] # port[cur]
      BY <1>1, <2>2, <3>1 DEF LivePorts
    <3>2. CASE port[n] = port[cur] /\ Dynamic(cur)
      BY <1>1, <2>2, <3>2 DEF LivePorts
    <3>3. CASE port[n] = port[cur] /\ ~Dynamic(cur)
      BY <1>1, <2>2, <3>3 DEF LivePorts, Configured
    <3> QED
      BY <3>1, <3>2, <3>3
  <2> QED
    BY <1>1, <2>1, <2>2 DEF LivePorts, Dynamic, Configured
<1>5. Servers'
  BY <1>1, <1>2 DEF Servers
<1>6. ServedUnlessCut' /\ Ended'
  BY <1>1 DEF ServedUnlessCut, Ended
<1> QED
  BY <1>3, <1>4, <1>5, <1>6 DEF Rest

\* StopAll returns.
LEMMA ReturnRest == ASSUME IInv, StopAllReturns PROVE Rest'
<1> USE DEF IInv, managerVars, stopVars, appVars, checkVars, mainVars
<1>1. /\ Live = {} /\ Live' = {} /\ op' = "none" /\ apps' = {} /\ step' = "idle"
      /\ UNCHANGED <<used, port, cur, step, listening, running, closed, request, refused, cut, pending>>
  BY DEF StopAllReturns, Live, TypeOK
<1>2. Locking' /\ Ended' /\ ServedUnlessCut'
  BY <1>1 DEF Locking, Ended, ServedUnlessCut
<1>3. LivePorts'
  BY <1>1 DEF LivePorts
<1>4. Servers'
  BY <1>1 DEF Servers
<1> QED
  BY <1>2, <1>3, <1>4 DEF Rest

\* Every step preserves the invariant.
LEMMA NextInv == ASSUME IInv, Next PROVE IInv'
<1>1. TypeOK'
  BY NextType
<1>2. ASSUME NEW n \in Apps, Check(n) PROVE Rest'
  <2>1. UNCHANGED <<apps, used, port, stopVars, appVars, pending, main>>
    BY <1>2 DEF Check, Ask, Hear, SetHealth, EndChecks, managerVars, mainVars
  <2> QED
    BY <2>1, QuietRest
<1>3. ASSUME Started \/ Signal PROVE Rest'
  <2>1. UNCHANGED <<apps, used, port, stopVars, appVars, pending>>
    BY <1>3 DEF Started, Signal, managerVars
  <2>2. main' = "exited" => main = "exited"
    BY <1>3 DEF Started, Signal
  <2> QED
    BY <2>1, <2>2, QuietRest
<1>4. ASSUME NEW n \in Apps,
             StartOk(n) \/ StartFails(n) \/ StopApp(n) \/ Request(n) \/ Serve(n)
      PROVE  Rest'
  BY <1>4, ServeRest, StartRest, BeginRest
<1>5. ASSUME StopAll \/ \E n \in Apps : StopNext(n) PROVE Rest'
  BY <1>5, BeginRest
<1>6. ASSUME RuntimeStop \/ Drained \/ DrainCut \/ RuntimeClose PROVE Rest'
  BY <1>6, StopRest
<1>7. ASSUME RuntimeClosed \/ StopAllReturns PROVE Rest'
  BY <1>7, FinishRest, ReturnRest
<1>8. Rest'
  BY <1>2, <1>3, <1>4, <1>5, <1>6, <1>7 DEF Next, Stopping
<1> QED
  BY <1>1, <1>8 DEF IInv, Rest

\* The invariant does not depend on anything but the variables.
LEMMA StutterInv == ASSUME IInv, UNCHANGED vars PROVE IInv'
<1>1. TypeOK'
  BY DEF vars, managerVars, stopVars, appVars, checkVars, mainVars, IInv, TypeOK
<1>2. Rest'
  BY QuietRest DEF vars, managerVars, mainVars
<1> QED
  BY <1>1, <1>2 DEF IInv, Rest

-----------------------------------------------------------------------------
\* The invariant holds in every reachable state.
THEOREM AppsInvariant == Spec => []IInv
<1>1. Init => IInv
  BY InitInv
<1>2. IInv /\ [Next]_vars => IInv'
  BY NextInv, StutterInv
<1> QED
  BY <1>1, <1>2, PTL DEF Spec

\* The types, and that the manager's mutex has a holder exactly while it stops
\* something.
THEOREM AppsTypeCorrect == Spec => []TypeOK
<1>1. IInv => TypeOK
  BY DEF IInv
<1> QED
  BY <1>1, AppsInvariant, PTL

\* No port of the pool is lost or given back early, on whatever path a start or a
\* stop ends.
THEOREM AppsPortsAccounted == Spec => []PortsAccounted
<1>1. IInv => PortsAccounted
  BY DEF IInv, LivePorts, Live, PortsAccounted
<1> QED
  BY <1>1, AppsInvariant, PTL

\* No two applications in the map have one allocated port that is not configured.
THEOREM AppsAllocatedDistinct == Spec => []AllocatedDistinct
<1>1. IInv => AllocatedDistinct
  BY DEF IInv, LivePorts, Live, AllocatedDistinct
<1> QED
  BY <1>1, AppsInvariant, PTL

\* A request meets a closed runner only if its application's stop was cut short.
THEOREM AppsServedUnlessCut == Spec => []ServedUnlessCut
<1>1. IInv => ServedUnlessCut
  BY DEF IInv
<1> QED
  BY <1>1, AppsInvariant, PTL

\* The process leaves no application, listener or port behind.
THEOREM AppsAllStopped == Spec => []AllStopped
<1>1. IInv => AllStopped
  BY DEF IInv, Ended, Live, LivePorts, Servers, AllStopped
<1> QED
  BY <1>1, AppsInvariant, PTL
=============================================================================
