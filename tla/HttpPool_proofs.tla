--------------------------- MODULE HttpPool_proofs ---------------------------
(***************************************************************************)
(* The shared HTTP server pool for every set of flows, servers, routes and *)
(* requests: no two flows run on one route, and a pool both of whose       *)
(* closers are through has answered every request its closed servers had   *)
(* accepted.                                                               *)
(*                                                                         *)
(* The second needs an invariant because a server may be closed by either  *)
(* closer, or have stopped by itself: a stopped server with requests in    *)
(* flight is one that main has not closed yet, or one that a closer is     *)
(* waiting for right now (Pending).                                        *)
(***************************************************************************)
EXTENDS HttpPool, TLAPS

\* Reserved routes are distinct, and every flow has one when the flows run.
Reserved ==
    /\ \A f, g \in Flows :
          handlers[f] # "absent" /\ handlers[g] # "absent" /\ route[f] = route[g] => f = g
    /\ main \in {"serve", "close", "pipelines"} => \A f \in Flows : handlers[f] # "absent"
    /\ main = "build" => starter = "none"
    /\ \A f \in Flows : flow[f] # "none" => handlers[f] # "absent"

\* Only servers of the pool are started, by a pool whose flows are all built.
PoolServers ==
    /\ \A s \in Servers : s \in starting \/ server[s] # "none" => s \in Pooled
    /\ main = "build" => starting = {} /\ \A s \in Servers : server[s] = "none"

\* A closer waits for a server only while it closes the pool; main closes it
\* only after the signal.
Closing ==
    /\ current["main"] # Nobody \/ closing["main"] # {} => main \in {"close", "exited"}
    /\ current["starter"] # Nobody \/ closing["starter"] # {} => starter = "close"
    /\ main = "close" => poolLock = "main"
    /\ starter = "close" => poolLock = "starter"
    /\ poolLock = "main" => main \in {"close", "exited"}
    /\ poolLock = "starter" => starter = "close"
    /\ main \in {"close", "pipelines"} => cancelled

\* A server that stopped with requests in flight is waited for, or will be.
Pending ==
    \A s \in Servers :
        server[s] = "shutdown" =>
            \/ InFlight(s) = {}
            \/ main \in {"build", "serve", "exited"}
            \/ main = "close" /\ (s \in closing["main"] \/ current["main"] = s)
            \/ current["starter"] = s

\* The inductive invariant.
IInv ==
    /\ TypeOK
    /\ Reserved
    /\ PoolServers
    /\ Closing
    /\ Pending
-----------------------------------------------------------------------------
\* The initial states satisfy the invariant.
LEMMA InitInv == ASSUME Init PROVE IInv
<1>1. TypeOK
  BY HttpPoolAssumption
  DEF HttpPoolAssumption, Init, TypeOK, Route, Locker, Closers, Nobody, Answered
<1>2. Reserved /\ PoolServers
  BY DEF Init, Reserved, PoolServers
<1>3. Closing /\ Pending
  BY DEF Init, Closing, Pending, Closers, Nobody
<1> QED
  BY <1>1, <1>2, <1>3 DEF IInv

\* The types are preserved.
LEMMA NextType == ASSUME TypeOK, Next PROVE TypeOK'
<1> USE DEF TypeOK, Route, Locker, Closers, Nobody, poolVars, goVars, reqVars
<1>1. ASSUME NEW f \in Flows, PreRegister(f) PROVE TypeOK'
  BY <1>1 DEF PreRegister
<1>2. CASE StartAll
  BY <1>2 DEF StartAll
<1>3. CASE Signal
  BY <1>3 DEF Signal
<1>4. Pooled \in SUBSET Servers
  BY DEF Pooled, Addr
<1>5. CASE MainClose
  BY <1>4, <1>5 DEF MainClose, LockPool
<1>6. CASE Exit
  BY <1>6 DEF Exit
<1>7. CASE Launch
  BY <1>4, <1>7 DEF Launch
<1>8. CASE StarterClose
  BY <1>4, <1>8 DEF StarterClose, LockPool
<1>9. ASSUME NEW s \in Servers, Listen(s) PROVE TypeOK'
  BY <1>9 DEF Listen
<1>10. ASSUME NEW s \in Servers, ServeFails(s) PROVE TypeOK'
  BY <1>10 DEF ServeFails
<1>11. ASSUME NEW c \in Closers, NEW s \in Servers, BeginShutdown(c, s) PROVE TypeOK'
  <2>1. closing' \in [Closers -> SUBSET Servers]
    BY <1>11 DEF BeginShutdown
  <2>2. /\ srvLock' \in [Servers -> Locker]
        /\ server' \in [Servers -> {"none", "serving", "shutdown"}]
        /\ current' \in [Closers -> Servers \cup {Nobody}]
    BY <1>11 DEF BeginShutdown
  <2> QED
    BY <1>11, <2>1, <2>2 DEF BeginShutdown
<1>12. ASSUME NEW c \in Closers, EndShutdown(c) PROVE TypeOK'
  BY <1>12 DEF EndShutdown
<1>13. ASSUME NEW c \in Closers, EndClose(c) PROVE TypeOK'
  BY <1>13 DEF EndClose
<1>14. ASSUME NEW f \in Flows, SetHandler(f) PROVE TypeOK'
  BY <1>14 DEF SetHandler
<1>15. ASSUME NEW f \in Flows, Install(f) PROVE TypeOK'
  BY <1>15 DEF Install
<1>16. ASSUME NEW f \in Flows, FlowReturns(f) PROVE TypeOK'
  BY <1>16 DEF FlowReturns
<1>17. ASSUME NEW q \in Requests, Accept(q) PROVE TypeOK'
  BY <1>17 DEF Accept, Answered
<1>18. ASSUME NEW q \in Requests, Lookup(q) PROVE TypeOK'
  BY <1>18 DEF Lookup, Answered
<1>19. ASSUME NEW q \in Requests, Answer(q) PROVE TypeOK'
  <2>1. PICK code \in {"200", "500"} : request' = [request EXCEPT ![q] = code]
    BY <1>19 DEF Answer
  <2> QED
    BY <1>19, <2>1 DEF Answer, Answered
<1> QED
  BY <1>1, <1>2, <1>3, <1>5, <1>6, <1>7, <1>8, <1>9, <1>10, <1>11, <1>12, <1>13, <1>14, <1>15,
     <1>16, <1>17, <1>18, <1>19 DEF Next

-----------------------------------------------------------------------------
\* Routes are reserved once, before the flows run.
LEMMA NextReserved == ASSUME IInv, Next PROVE Reserved'
<1> USE DEF IInv, Reserved, poolVars, goVars, reqVars
<1>1. ASSUME NEW f \in Flows, PreRegister(f) PROVE Reserved'
  BY <1>1 DEF PreRegister, TypeOK
<1>2. CASE StartAll
  BY <1>2 DEF StartAll, TypeOK
<1>3. CASE Signal
  BY <1>3 DEF Signal
<1>4. CASE MainClose
  BY <1>4 DEF MainClose
<1>5. CASE Exit
  BY <1>5 DEF Exit
<1>6. CASE Launch
  BY <1>6 DEF Launch
<1>7. CASE StarterClose
  BY <1>7 DEF StarterClose
<1>8. ASSUME NEW s \in Servers, Listen(s) \/ ServeFails(s) PROVE Reserved'
  BY <1>8 DEF Listen, ServeFails
<1>9. ASSUME NEW c \in Closers, NEW s \in Servers, BeginShutdown(c, s) PROVE Reserved'
  BY <1>9 DEF BeginShutdown
<1>10. ASSUME NEW c \in Closers, EndShutdown(c) PROVE Reserved'
  BY <1>10 DEF EndShutdown
<1>11. ASSUME NEW c \in Closers, EndClose(c) PROVE Reserved'
  BY <1>11 DEF EndClose, Alive, Closing, Closers, Nobody
<1>12. ASSUME NEW f \in Flows, SetHandler(f) PROVE Reserved'
  BY <1>12 DEF SetHandler, TypeOK
<1>13. ASSUME NEW f \in Flows, Install(f) PROVE Reserved'
  BY <1>13 DEF Install, TypeOK
<1>14. ASSUME NEW f \in Flows, FlowReturns(f) PROVE Reserved'
  BY <1>14 DEF FlowReturns, TypeOK
<1>15. ASSUME NEW q \in Requests, Accept(q) \/ Lookup(q) \/ Answer(q) PROVE Reserved'
  BY <1>15 DEF Accept, Lookup, Answer
<1> QED
  BY <1>1, <1>2, <1>3, <1>4, <1>5, <1>6, <1>7, <1>8, <1>9, <1>10, <1>11, <1>12, <1>13, <1>14,
     <1>15 DEF Next
\* The pool's servers stay the same once the flows run.
LEMMA NextPoolServers == ASSUME IInv, Next PROVE PoolServers'
<1> USE DEF IInv, PoolServers, poolVars, goVars, reqVars
<1>1. ASSUME NEW f \in Flows, PreRegister(f) PROVE PoolServers'
  <2>1. main = "build" /\ starting' = starting /\ server' = server
    BY <1>1 DEF PreRegister
  <2> QED
    BY <2>1
<1>2. ASSUME \A f \in Flows : handlers[f] # "absent" <=> handlers'[f] # "absent",
             UNCHANGED route
      PROVE  Pooled' = Pooled
  BY <1>2 DEF Pooled, Addr
<1>3. CASE StartAll \/ Signal \/ MainClose \/ Exit \/ StarterClose
  <2>1. UNCHANGED <<handlers, route, starting, server>>
    BY <1>3 DEF StartAll, Signal, MainClose, Exit, StarterClose
  <2>2. main' = "build" => main = "build"
    BY <1>3 DEF StartAll, Signal, MainClose, Exit, StarterClose
  <2> QED
    BY <1>2, <2>1, <2>2
<1>4. CASE Launch
  <2>1. UNCHANGED <<handlers, route, main, server>> /\ starting' = Pooled /\ starter = "launch"
    BY <1>4 DEF Launch
  <2>2. main # "build"
    BY <2>1 DEF Reserved
  <2> QED
    BY <1>2, <2>1, <2>2
<1>5. ASSUME NEW s \in Servers, Listen(s) PROVE PoolServers'
  <2>1. /\ UNCHANGED <<handlers, route, main>>
        /\ s \in starting /\ starting' \subseteq starting
        /\ \A t \in Servers : t # s => server'[t] = server[t]
    BY <1>5 DEF Listen, TypeOK
  <2> QED
    BY <1>2, <2>1
<1>6. ASSUME NEW s \in Servers, ServeFails(s) PROVE PoolServers'
  <2>1. /\ UNCHANGED <<handlers, route, main, starting>>
        /\ server[s] # "none"
        /\ \A t \in Servers : t # s => server'[t] = server[t]
    BY <1>6 DEF ServeFails, TypeOK
  <2> QED
    BY <1>2, <2>1
<1>7. ASSUME NEW c \in Closers, NEW s \in Servers, BeginShutdown(c, s) PROVE PoolServers'
  <2>1. /\ UNCHANGED <<handlers, route, main, starting>>
        /\ server[s] = "none" => server' = server
        /\ \A t \in Servers : t # s => server'[t] = server[t]
    BY <1>7 DEF BeginShutdown, TypeOK
  <2> QED
    BY <1>2, <2>1
<1>8. ASSUME NEW c \in Closers, EndShutdown(c) \/ EndClose(c) PROVE PoolServers'
  <2>1. UNCHANGED <<handlers, route, starting, server>>
    BY <1>8 DEF EndShutdown, EndClose
  <2>2. main' = "build" => main = "build"
    BY <1>8 DEF EndShutdown, EndClose
  <2> QED
    BY <1>2, <2>1, <2>2
<1>9. ASSUME NEW f \in Flows, SetHandler(f) \/ FlowReturns(f) PROVE PoolServers'
  <2>1. UNCHANGED <<handlers, route, main, starting, server>>
    BY <1>9 DEF SetHandler, FlowReturns
  <2> QED
    BY <1>2, <2>1
<1>10. ASSUME NEW f \in Flows, Install(f) PROVE PoolServers'
  <2>1. /\ UNCHANGED <<route, main, starting, server>>
        /\ handlers[f] = "reserved" /\ handlers' = [handlers EXCEPT ![f] = "set"]
    BY <1>10 DEF Install
  <2>2. \A g \in Flows : handlers[g] # "absent" <=> handlers'[g] # "absent"
    BY <2>1 DEF TypeOK
  <2> QED
    BY <1>2, <2>1, <2>2
<1>11. ASSUME NEW q \in Requests, Accept(q) \/ Lookup(q) \/ Answer(q) PROVE PoolServers'
  <2>1. UNCHANGED <<handlers, route, main, starting, server>>
    BY <1>11 DEF Accept, Lookup, Answer
  <2> QED
    BY <1>2, <2>1
<1> QED
  BY <1>1, <1>3, <1>4, <1>5, <1>6, <1>7, <1>8, <1>9, <1>10, <1>11 DEF Next

\* One closer at a time walks over the servers.
LEMMA NextClosing == ASSUME IInv, Next PROVE Closing'
<1> USE DEF IInv, Closing, poolVars, goVars, reqVars, Closers, Nobody
<1>1. ASSUME NEW f \in Flows, PreRegister(f) PROVE Closing'
  BY <1>1 DEF PreRegister
<1>2. CASE StartAll
  BY <1>2 DEF StartAll, Reserved
<1>3. CASE Signal
  BY <1>3 DEF Signal
<1>4. CASE MainClose
  BY <1>4 DEF MainClose, LockPool
<1>5. CASE Exit
  BY <1>5 DEF Exit
<1>6. CASE Launch
  BY <1>6 DEF Launch
<1>7. CASE StarterClose
  BY <1>7 DEF StarterClose, LockPool
<1>8. ASSUME NEW s \in Servers, Listen(s) \/ ServeFails(s) PROVE Closing'
  BY <1>8 DEF Listen, ServeFails
<1>9. ASSUME NEW c \in Closers, NEW s \in Servers, BeginShutdown(c, s) PROVE Closing'
  <2>1. /\ s \in closing[c] /\ current[c] = Nobody
        /\ UNCHANGED <<poolLock, main, starter, cancelled>>
        /\ \A d \in Closers : d # c => current'[d] = current[d] /\ closing'[d] = closing[d]
    BY <1>9 DEF BeginShutdown, TypeOK
  <2> QED
    BY <2>1
<1>10. ASSUME NEW c \in Closers, EndShutdown(c) PROVE Closing'
  BY <1>10 DEF EndShutdown, TypeOK
<1>11. ASSUME NEW c \in Closers, EndClose(c) PROVE Closing'
  BY <1>11 DEF EndClose, Alive
<1>12. ASSUME NEW f \in Flows, SetHandler(f) \/ Install(f) \/ FlowReturns(f) PROVE Closing'
  BY <1>12 DEF SetHandler, Install, FlowReturns
<1>13. ASSUME NEW q \in Requests, Accept(q) \/ Lookup(q) \/ Answer(q) PROVE Closing'
  BY <1>13 DEF Accept, Lookup, Answer
<1> QED
  BY <1>1, <1>2, <1>3, <1>4, <1>5, <1>6, <1>7, <1>8, <1>9, <1>10, <1>11, <1>12, <1>13 DEF Next
\* A server that stopped with requests in flight stays waited for.
LEMMA NextPending == ASSUME IInv, Next PROVE Pending'
<1> USE DEF IInv, poolVars, goVars, reqVars, Closers, Nobody
<1>1. ASSUME UNCHANGED <<server, main, request, target, route>>,
             \A c \in Closers : current'[c] = current[c] /\ closing'[c] = closing[c]
      PROVE  Pending'
  BY <1>1 DEF Pending, InFlight, Addr
<1>2. ASSUME main' \in {"build", "serve", "exited"} PROVE Pending'
  BY <1>2 DEF Pending
<1>3. ASSUME NEW f \in Flows, PreRegister(f) PROVE Pending'
  BY <1>2, <1>3 DEF PreRegister
<1>4. CASE StartAll \/ Signal \/ Exit
  BY <1>2, <1>4 DEF StartAll, Signal, Exit
<1>5. CASE MainClose
  <2>1. /\ main' = "close" /\ server' = server
        /\ closing' = [closing EXCEPT !["main"] = Pooled]
    BY <1>5 DEF MainClose, LockPool
  <2>2. closing'["main"] = Pooled
    BY <2>1 DEF TypeOK
  <2>3. ASSUME NEW s \in Servers, server'[s] = "shutdown" PROVE s \in closing'["main"]
    BY <2>1, <2>2, <2>3 DEF PoolServers
  <2> QED
    BY <2>1, <2>3 DEF Pending
<1>6. CASE Launch
  BY <1>1, <1>6 DEF Launch
<1>7. CASE StarterClose
  <2>1. /\ UNCHANGED <<server, main, request, target, route, current>>
        /\ closing' = [closing EXCEPT !["starter"] = Pooled]
    BY <1>7 DEF StarterClose, LockPool
  <2>2. closing'["main"] = closing["main"]
    BY <2>1 DEF TypeOK
  <2> QED
    BY <2>1, <2>2 DEF Pending, InFlight, Addr
<1>8. ASSUME NEW t \in Servers, Listen(t) PROVE Pending'
  <2>1. /\ UNCHANGED <<main, request, target, route, current, closing>>
        /\ \A s \in Servers : server'[s] = "shutdown" => server[s] = "shutdown"
    BY <1>8 DEF Listen, TypeOK
  <2> QED
    BY <2>1 DEF Pending, InFlight, Addr
<1>9. ASSUME NEW t \in Servers, ServeFails(t) PROVE Pending'
  <2>1. ~cancelled /\ main' = main
    BY <1>9 DEF ServeFails
  <2> QED
    BY <1>2, <2>1 DEF TypeOK, Closing
<1>10. ASSUME NEW c \in Closers, NEW t \in Servers, BeginShutdown(c, t) PROVE Pending'
  <2>1. /\ UNCHANGED <<main, request, target, route>>
        /\ current[c] = Nobody /\ t \in closing[c]
        /\ \A d \in Closers : d # c => current'[d] = current[d] /\ closing'[d] = closing[d]
        /\ closing'[c] = closing[c] \ {t}
    BY <1>10 DEF BeginShutdown, TypeOK
  <2>2. CASE server[t] = "none"
    <3>1. server' = server /\ current' = current
      BY <1>10, <2>2 DEF BeginShutdown
    <3> QED
      BY <2>1, <2>2, <3>1 DEF Pending, InFlight, Addr
  <2>3. CASE server[t] # "none"
    <3>1. /\ current'[c] = t
          /\ \A s \in Servers : s # t => server'[s] = server[s]
      BY <1>10, <2>3 DEF BeginShutdown, TypeOK
    <3>2. c = "main" => main' \in {"close", "exited"}
      BY <2>1 DEF Closing
    <3>3. ASSUME NEW s \in Servers, s # t, server[s] = "shutdown"
          PROVE  \/ InFlight(s)' = {}
                 \/ main' \in {"build", "serve", "exited"}
                 \/ main' = "close" /\ (s \in closing'["main"] \/ current'["main"] = s)
                 \/ current'["starter"] = s
      <4>1. current[c] # s
        BY <2>1, HttpPoolAssumption DEF HttpPoolAssumption
      <4>2. s \in closing["main"] => s \in closing'["main"]
        BY <2>1, <3>3
      <4>3. \A d \in Closers : current[d] = s => current'[d] = s
        BY <2>1, <4>1
      <4>4. InFlight(s)' = InFlight(s)
        BY <2>1 DEF InFlight, Addr
      <4> QED
        BY <2>1, <3>3, <4>2, <4>3, <4>4 DEF Pending
    <3>4. \/ main' \in {"build", "serve", "exited"}
          \/ main' = "close" /\ current'["main"] = t
          \/ current'["starter"] = t
      BY <3>1, <3>2
    <3> QED
      BY <3>1, <3>3, <3>4 DEF Pending
  <2> QED
    BY <2>2, <2>3
<1>11. ASSUME NEW c \in Closers, EndShutdown(c) PROVE Pending'
  <2>1. /\ UNCHANGED <<server, main, request, target, route, closing>>
        /\ InFlight(current[c]) = {}
        /\ \A d \in Closers : d # c => current'[d] = current[d]
    BY <1>11 DEF EndShutdown, TypeOK
  <2>2. \A s \in Servers : InFlight(s)' = InFlight(s)
    BY <2>1 DEF InFlight, Addr
  <2> QED
    BY <2>1, <2>2 DEF Pending
<1>12. ASSUME NEW c \in Closers, EndClose(c) PROVE Pending'
  <2>1. /\ UNCHANGED <<server, request, target, route, closing, current>>
        /\ closing[c] = {} /\ current[c] = Nobody
    BY <1>12 DEF EndClose
  <2>2. \A s \in Servers : InFlight(s)' = InFlight(s)
    BY <2>1 DEF InFlight, Addr
  <2>3. CASE c = "main"
    <3>1. \A s \in Servers : ~(s \in closing["main"] \/ current["main"] = s)
      BY <2>1, <2>3, HttpPoolAssumption DEF HttpPoolAssumption
    <3>2. main = "close"
      BY <1>12, <2>3 DEF EndClose, Alive, Closing
    <3> QED
      BY <2>1, <2>2, <3>1, <3>2 DEF Pending
  <2>4. CASE c # "main"
    <3>1. main' = main
      BY <1>12, <2>4 DEF EndClose
    <3> QED
      BY <1>1, <2>1, <3>1
  <2> QED
    BY <2>3, <2>4
<1>13. ASSUME NEW f \in Flows, SetHandler(f) \/ Install(f) \/ FlowReturns(f) PROVE Pending'
  BY <1>1, <1>13 DEF SetHandler, Install, FlowReturns
<1>14. ASSUME NEW q \in Requests, Accept(q) \/ Lookup(q) \/ Answer(q) PROVE Pending'
  <2>1. UNCHANGED <<server, main, target, route, current, closing>>
    BY <1>14 DEF Accept, Lookup, Answer
  <2>2. \A p \in Requests : p # q => request'[p] = request[p]
    BY <1>14 DEF Accept, Lookup, Answer, TypeOK
  <2>3. ASSUME request'[q] \in {"lookup", "handling"}
        PROVE  request[q] \in {"lookup", "handling"} \/ server[Addr(target[q])] = "serving"
    BY <1>14, <2>3 DEF Accept, Lookup, Answer, TypeOK
  <2>4. ASSUME NEW s \in Servers, server[s] = "shutdown" PROVE InFlight(s)' \subseteq InFlight(s)
    BY <2>1, <2>2, <2>3, <2>4 DEF InFlight, Addr
  <2> QED
    BY <2>1, <2>4 DEF Pending
<1> QED
  BY <1>3, <1>4, <1>5, <1>6, <1>7, <1>8, <1>9, <1>10, <1>11, <1>12, <1>13, <1>14 DEF Next

\* The invariant does not depend on anything but the variables.
LEMMA StutterInv == ASSUME IInv, UNCHANGED vars PROVE IInv'
<1>1. TypeOK' /\ Reserved' /\ Closing'
  BY DEF vars, poolVars, goVars, reqVars, IInv, TypeOK, Reserved, Closing
<1>2. PoolServers' /\ Pending'
  BY DEF vars, poolVars, goVars, reqVars, IInv, PoolServers, Pending, Pooled, InFlight, Addr
<1> QED
  BY <1>1, <1>2 DEF IInv

-----------------------------------------------------------------------------
\* The invariant holds in every reachable state.
THEOREM PoolInvariant == Spec => []IInv
<1>1. IInv /\ [Next]_vars => IInv'
  <2>1. ASSUME IInv, Next PROVE IInv'
    BY <2>1, NextType, NextReserved, NextPoolServers, NextClosing, NextPending DEF IInv
  <2> QED
    BY <2>1, StutterInv
<1>2. Init => IInv
  BY InitInv
<1> QED
  BY <1>1, <1>2, PTL DEF Spec

\* The types of the pool's, the goroutines' and the requests' state.
THEOREM PoolTypeCorrect == Spec => []TypeOK
<1>1. IInv => TypeOK
  BY DEF IInv
<1> QED
  BY <1>1, PoolInvariant, PTL

\* A flow's requests are its own: no two flows run on one route.
THEOREM PoolRoutesDistinct == Spec => []RoutesDistinct
<1>1. IInv => RoutesDistinct
  BY DEF IInv, Reserved, RoutesDistinct
<1> QED
  BY <1>1, PoolInvariant, PTL

\* When both closers are through and the pipelines are shut down, every request
\* the closed servers had accepted is answered, whichever closer closed them.
THEOREM PoolDrained == Spec => []Drained
<1>1. ASSUME IInv PROVE Drained
  <2> SUFFICES ASSUME main = "pipelines", starter = "done",
                      NEW s \in Servers, server[s] = "shutdown"
               PROVE  InFlight(s) = {}
    BY DEF Drained
  <2>1. current["starter"] = Nobody
    BY <1>1 DEF IInv, Closing
  <2>2. current["starter"] # s
    BY <2>1, HttpPoolAssumption DEF HttpPoolAssumption, Nobody
  <2> QED
    BY <1>1, <2>2 DEF IInv, Pending
<1> QED
  BY <1>1, PoolInvariant, PTL
=============================================================================
