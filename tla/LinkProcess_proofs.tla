-------------------------- MODULE LinkProcess_proofs --------------------------
(***************************************************************************)
(* The life of a Link program for every file, every number of requests,    *)
(* every time to live and every lookup time.  The invariant says where the *)
(* registry is in its loading, that the accepted targets are those of the  *)
(* file, how old an entry of the DNS cache may be, and which interceptors  *)
(* of its target a request has left behind at each of its steps.           *)
(*                                                                         *)
(* The last part is about the operator that puts a Link program beside the *)
(* containers of a pod and judges the resources it is configured by, for   *)
(* every number of resources, replicas, edits and crashes.  Its invariant  *)
(* says that a resource version identifies a spec, in every stale copy.    *)
(***************************************************************************)
EXTENDS LinkProcess, Operator, FiniteSetTheorems, TLAPS

Runtimes == Nat \X Nat
Written == UNION {ToSet(c.targets) : c \in Configs}
Decoded == {Decode(raw) : raw \in Written}
Entries == [addr : Nat, expiresAt : Nat]
Steps == {"new", "failed", "resolve", "lookup", "credentials", "getOutbound", "outbound", "upstream",
          "getInbound", "inbound", "answered"}
RequestStates ==
    [at : Steps, target : Nat, body : BOOLEAN, reply : BOOLEAN, since : Nat, age : Nat,
     chain : SUBSET Runtimes, passed : SUBSET Runtimes]

Types ==
    /\ config \in Configs
    /\ main \in {"load", "targets", "serving", "draining", "closing", "locked", "closed", "ended"}
    /\ undrained \in {"no", "cut", "failed"}
    /\ targets \in Seq(Decoded)
    /\ current \in Nat /\ making \in Seq(Runtimes)
    /\ open \subseteq Runtimes /\ kept \subseteq Runtimes /\ chained \subseteq Nat
    /\ now \in 0..MaxTime
    /\ cache \in [Hosts -> SUBSET Entries]
    /\ req \in [Requests -> RequestStates]

\* Before the file is accepted nothing has happened; after it, its targets are valid.
FileAccepted ==
    /\ main = "load" => /\ targets = <<>> /\ current = 1 /\ making = <<>> /\ kept = {} /\ chained = {}
                        /\ \A q \in Requests : req[q].at = "new"
    /\ main \in {"load", "targets", "serving", "draining"} => undrained = "no"
    /\ \A i \in DOMAIN targets : ValidTarget(targets[i], config.clusters)
    /\ targets # <<>> => \A k \in DOMAIN config.clusters : ValidCluster(config.clusters[k])

\* How far the registry is.
Registered ==
    /\ current \in 1..Len(targets) + 1
    /\ making # <<>> => main = "targets" /\ current <= Len(targets)
    /\ current <= Len(targets) => Len(making) <= Len(Interceptors(current))
    /\ \A n \in DOMAIN making : making[n] = <<current, n>>
    /\ \A r \in kept : r[1] < current
    /\ open = kept \cup ToSet(making)
    /\ chained \subseteq {i \in Configured : i < current}
    /\ main \in {"targets", "serving", "draining"} =>
         /\ chained = {i \in Configured : i < current}
         /\ \A i \in DOMAIN targets : i < current =>
              \A n \in DOMAIN Interceptors(i) : <<i, n>> \in kept
    /\ main \in {"serving", "draining"} => current = Len(targets) + 1
    /\ main \in {"closed", "ended"} => kept = {}

\* A cached address was right when it was at most one lookup old.
CacheFresh ==
    \A h \in Hosts : \A e \in cache[h] : e.addr <= now /\ e.expiresAt - e.addr <= TTL + LookupTime

\* The interceptors of a request's target in one phase that are not in passed
\* are in rest.
Left(q, inbound, rest) ==
    \A n \in DOMAIN Interceptors(req[q].target) :
        IsInbound(Interceptors(req[q].target)[n]) = inbound =>
            <<req[q].target, n>> \in req[q].passed \cup rest

\* A request's target is the one that its name leads to, and its lookup is not
\* longer than a lookup may be.
Placed(q) ==
    /\ req[q].at \notin {"new", "failed"} =>
         req[q].target \in LastWith(targets, targets[req[q].target].name, DOMAIN targets)
    /\ req[q].at = "lookup" => req[q].since <= now /\ now - req[q].since <= LookupTime
    /\ req[q].at \notin {"inbound", "getInbound", "answered"} => ~req[q].reply
    /\ req[q].age <= TTL + LookupTime

\* Before the servers are given up on, a request in flight has a program that
\* serves it, runtimes that are open, and behind it the interceptors it ought to.
Served(q) ==
    undrained = "no" =>
        /\ req[q].at \notin {"new", "answered", "failed"} =>
             main \in {"serving", "draining"} /\ req[q].chain \subseteq kept
        /\ req[q].body =>
             /\ req[q].at = "outbound" => Left(q, FALSE, req[q].chain)
             /\ req[q].at \in {"upstream", "getInbound", "inbound", "answered"} => Left(q, FALSE, {})
        /\ req[q].reply =>
             /\ req[q].at = "inbound" => Left(q, TRUE, req[q].chain)
             /\ req[q].at = "answered" => Left(q, TRUE, {})

\* The inductive invariant.
IInv ==
    /\ Types
    /\ FileAccepted
    /\ Registered
    /\ CacheFresh
    /\ \A q \in Requests : Placed(q) /\ Served(q)

-----------------------------------------------------------------------------
(* The file and its targets.                                               *)

\* A decoded target keeps its host, name and interceptors; its counts are numbers.
LEMMA DecodedTarget ==
    ASSUME NEW t \in Decoded
    PROVE  /\ t.host \in Hosts
           /\ Len(t.interceptors) \in Nat /\ DOMAIN t.interceptors = 1..Len(t.interceptors)
           /\ t.breaker.failureThreshold \in Int /\ t.breaker.successThreshold \in Int
           /\ t.retry.maxAttempts \in Int
           /\ t.limit.requestsPerSecond \in Int /\ t.limit.burst \in Int
<1>1. PICK raw \in Written : t = Decode(raw)
  BY DEF Decoded
<1>2. IsTarget(raw)
  BY LinkProcessAssumption DEF Written, LinkProcessAssumption, IsFile
<1>3. DOMAIN raw = TargetKeys
  BY <1>2 DEF IsTarget
<1>4. /\ t.host = raw.host /\ t.interceptors = raw.interceptors
      /\ t.breaker = DecodeBreaker(raw.breaker) /\ t.retry = DecodeRetry(raw.retry)
      /\ t.limit = DecodeRateLimit(raw.limit)
  BY <1>1, <1>3 DEF Decode, TargetKeys
<1>5. t.host \in Hosts
  BY <1>4 DEF Hosts, Written
<1>6. t.interceptors \in Seq(ToSet(raw.interceptors))
  BY <1>2, <1>4 DEF IsTarget
<1>7. \A s : IsScalar(s) => Number(s) \in Int
  BY DEF IsScalar, Number
<1>8. /\ t.breaker.failureThreshold \in Int /\ t.breaker.successThreshold \in Int
      /\ t.retry.maxAttempts \in Int
      /\ t.limit.requestsPerSecond \in Int /\ t.limit.burst \in Int
  BY <1>2, <1>4, <1>7 DEF IsTarget, DecodeBreaker, DecodeRetry, DecodeRateLimit
<1> QED
  BY <1>5, <1>6, <1>8

\* What LoadConfig validates has a decoded target for each written one, and the
\* clusters of the file.
LEMMA DecodedFile ==
    ASSUME NEW c \in Configs,
           NEW decoded, decoded = [c EXCEPT !.targets = [i \in DOMAIN c.targets |-> Decode(c.targets[i])]]
    PROVE  decoded.targets \in Seq(Decoded) /\ decoded.clusters = c.clusters
<1>1. IsFile(c)
  BY LinkProcessAssumption DEF LinkProcessAssumption
<1>2. /\ decoded.targets = [i \in DOMAIN c.targets |-> Decode(c.targets[i])]
      /\ decoded.clusters = c.clusters
  BY <1>1 DEF IsFile
<1>3. DOMAIN c.targets = 1..Len(c.targets) /\ Len(c.targets) \in Nat
  BY <1>1 DEF IsFile
<1>4. \A i \in 1..Len(c.targets) : Decode(c.targets[i]) \in Decoded
  BY <1>3 DEF Decoded, Written, ToSet
<1> QED
  BY <1>2, <1>3, <1>4

-----------------------------------------------------------------------------
(* The steps of run().                                                     *)

\* The initial state satisfies the invariant.
LEMMA InitInv == Init => IInv
<1> SUFFICES ASSUME Init PROVE IInv
  OBVIOUS
<1> USE LinkProcessAssumption DEF LinkProcessAssumption, Init
<1>1. New \in RequestStates
  BY DEF New, RequestStates, Steps
<1>2. Types
  BY <1>1 DEF Types
<1>3. FileAccepted
  BY DEF FileAccepted, New
<1>4. ToSet(making) = {} /\ DOMAIN making = {} /\ Len(targets) = 0
  BY DEF ToSet
<1>5. Registered
  BY <1>4 DEF Registered, Configured
<1>6. CacheFresh
  BY DEF CacheFresh
<1>7. \A q \in Requests : req[q].at = "new" /\ req[q].age = 0 /\ req[q].reply = FALSE /\ req[q].body = FALSE
  BY DEF New
<1>8. 0 <= TTL + LookupTime
  OBVIOUS
<1>9. \A q \in Requests : Placed(q)
  BY <1>7, <1>8 DEF Placed
<1>10. \A q \in Requests : Served(q)
  BY <1>7 DEF Served
<1> QED
  BY <1>2, <1>3, <1>5, <1>6, <1>9, <1>10 DEF IInv

\* The file is accepted or refused.
LEMMA LoadConfigInv == ASSUME IInv, LoadConfig PROVE IInv'
<1> USE DEF IInv, LoadConfig, registryVars, dnsVars
<1> DEFINE decoded == [config EXCEPT !.targets = [i \in DOMAIN config.targets |-> Decode(config.targets[i])]]
<1>1. decoded.targets \in Seq(Decoded) /\ decoded.clusters = config.clusters
  BY DecodedFile DEF Types
<1>2. \/ ValidLinkConfig(decoded) /\ targets' = decoded.targets /\ main' = "targets"
      \/ main' = "ended" /\ targets' = targets
  OBVIOUS
<1> HIDE DEF decoded
<1>3. Types'
  BY <1>1, <1>2 DEF Types
<1>4. main = "load" /\ targets = <<>> /\ current = 1 /\ making = <<>> /\ kept = {} /\ chained = {}
      /\ undrained = "no" /\ \A q \in Requests : req[q].at = "new"
  BY DEF FileAccepted
<1>5. FileAccepted'
  <2>1. \A i \in DOMAIN targets' : ValidTarget(targets'[i], config.clusters)
    BY <1>1, <1>2, <1>4 DEF ValidLinkConfig
  <2>2. targets' # <<>> => \A k \in DOMAIN config.clusters : ValidCluster(config.clusters[k])
    BY <1>1, <1>2, <1>4 DEF ValidLinkConfig
  <2> QED
    BY <2>1, <2>2, <1>2, <1>4 DEF FileAccepted
<1>6. Registered'
  <2>1. DOMAIN making = {} /\ Len(targets') \in Nat /\ Len(making) = 0
    BY <1>3, <1>4 DEF Types
  <2>2. current <= Len(targets') => Len(targets'[current].interceptors) \in Nat
    BY <1>3, <1>4, DecodedTarget DEF Types
  <2>3. Configured' \subseteq DOMAIN targets' /\ DOMAIN targets' \subseteq Nat \ {0}
    BY <1>3 DEF Configured, Types
  <2>4. chained' = {i \in Configured' : i < current'}
    BY <1>4, <2>3
  <2>5. \A i \in DOMAIN targets' : ~(i < current')
    BY <1>4, <2>3
  <2> QED
    BY <1>2, <1>4, <2>1, <2>2, <2>4, <2>5 DEF Registered, Interceptors
<1>7. CacheFresh'
  BY DEF CacheFresh
<1>8. \A q \in Requests : Placed(q)' /\ Served(q)'
  BY <1>4 DEF Placed, Served, Left
<1> QED
  BY <1>3, <1>5, <1>6, <1>7, <1>8

\* A step that leaves the targets, the clock and the requests alone moves no
\* request; Served is left to show.
LEMMA PlacedStays ==
    ASSUME IInv, UNCHANGED <<targets, dnsVars, req>>
    PROVE  CacheFresh' /\ \A q \in Requests : Placed(q)'
BY DEF IInv, dnsVars, CacheFresh, Placed

\* While the interceptors are made there is no request in flight or answered.
LEMMA NotServingYet ==
    ASSUME IInv, main = "targets", NEW q \in Requests
    PROVE  /\ undrained = "no" /\ req[q].at \in {"new", "answered", "failed"}
BY DEF IInv, FileAccepted, Served

\* Appending to what is made makes one runtime more.
LEMMA MakingGrows ==
    ASSUME NEW r \in Runtimes, making \in Seq(Runtimes)
    PROVE  /\ Append(making, r) \in Seq(Runtimes)
           /\ DOMAIN Append(making, r) = 1..Len(making) + 1
           /\ Append(making, r)[Len(making) + 1] = r
           /\ \A n \in 1..Len(making) : Append(making, r)[n] = making[n]
           /\ ToSet(Append(making, r)) = ToSet(making) \cup {r}
<1>1. /\ Append(making, r) \in Seq(Runtimes)
      /\ DOMAIN Append(making, r) = 1..Len(making) + 1
      /\ Append(making, r)[Len(making) + 1] = r
      /\ \A n \in 1..Len(making) : Append(making, r)[n] = making[n]
  OBVIOUS
<1>2. DOMAIN making = 1..Len(making) /\ Len(making) \in Nat
  OBVIOUS
<1>3. \A n \in 1..Len(making) + 1 : n \in 1..Len(making) \/ n = Len(making) + 1
  BY <1>2
<1>4. \A n \in 1..Len(making) : n \in 1..Len(making) + 1
  BY <1>2
<1>5. Len(making) + 1 \in 1..Len(making) + 1
  BY <1>2
<1>6. ToSet(Append(making, r)) = ToSet(making) \cup {r}
  BY <1>1, <1>2, <1>3, <1>4, <1>5, Zenon DEF ToSet
<1> QED
  BY <1>1, <1>6

\* An interceptor is made, or the target's are closed.
LEMMA MakeInterceptorInv == ASSUME IInv, MakeInterceptor PROVE IInv'
<1> USE DEF IInv, MakeInterceptor, dnsVars
<1> DEFINE n == Len(making) + 1
<1>0. /\ Types /\ Registered /\ FileAccepted
      /\ making \in Seq(Runtimes) /\ DOMAIN making = 1..Len(making) /\ Len(making) \in Nat
      /\ current \in Nat /\ Len(targets) \in Nat
  BY DEF Types
<1>1. CacheFresh' /\ \A q \in Requests : Placed(q)'
  BY PlacedStays
<1>2. \A q \in Requests : undrained = "no" /\ req[q].at \in {"new", "answered", "failed"}
  BY NotServingYet
<1>3. \A q \in Requests : Served(q)'
  BY <1>2 DEF Served, Left, Interceptors
<1>4. CASE CreateInterceptor(Interceptors(current)[n]) # {}
  <2>1. /\ making' = Append(making, <<current, n>>) /\ open' = open \cup {<<current, n>>}
        /\ main' = main /\ <<current, n>> \in Runtimes
    BY <1>4, <1>0 DEF Runtimes
  <2>2. /\ making' \in Seq(Runtimes) /\ DOMAIN making' = 1..n /\ making'[n] = <<current, n>>
        /\ \A m \in 1..Len(making) : making'[m] = making[m]
        /\ ToSet(making') = ToSet(making) \cup {<<current, n>>}
    BY <2>1, <1>0, MakingGrows
  <2>3. Types'
    BY <2>1, <2>2 DEF Types
  <2>4. Len(making') = n /\ n <= Len(Interceptors(current))
    BY <2>2, <1>0
  <2>5. \A m \in DOMAIN making' : making'[m] = <<current, m>>
    BY <2>2, <1>0 DEF Registered
  <2>6. Registered'
    BY <1>0, <2>1, <2>2, <2>4, <2>5 DEF Registered, Configured, Interceptors
  <2>7. FileAccepted'
    BY <2>1 DEF FileAccepted
  <2> QED
    BY <1>1, <1>3, <2>3, <2>6, <2>7
<1>5. CASE CreateInterceptor(Interceptors(current)[n]) = {}
  <2>1. /\ making' = <<>> /\ open' = open \ ToSet(making) /\ main' = "closing"
    BY <1>5 DEF Return
  <2>2. Types'
    BY <2>1 DEF Types
  <2>3. open' = kept
    <3>1. \A r \in ToSet(making) : r[1] = current
      BY <1>0 DEF Registered, ToSet
    <3>2. \A r \in kept : r[1] # current
      BY <1>0 DEF Registered, Types, Runtimes
    <3> QED
      BY <3>1, <3>2, <2>1 DEF Registered
  <2>4. ToSet(making') = {} /\ DOMAIN making' = {} /\ Len(making') = 0
    BY <2>1 DEF ToSet
  <2>5. current <= Len(targets) => 0 <= Len(Interceptors(current))
    BY <1>0, DecodedTarget DEF Types, Registered, Interceptors
  <2>6. Registered'
    BY <1>0, <2>1, <2>3, <2>4, <2>5 DEF Registered, Configured, Interceptors
  <2>7. FileAccepted'
    BY <2>1 DEF FileAccepted
  <2> QED
    BY <1>1, <1>3, <2>2, <2>6, <2>7
<1> QED
  BY <1>4, <1>5

\* The chains of a target are kept.
LEMMA KeepChainsInv == ASSUME IInv, KeepChains PROVE IInv'
<1> USE DEF IInv, KeepChains, dnsVars, mainVars
<1>0. /\ Types /\ Registered /\ FileAccepted
      /\ making \in Seq(Runtimes) /\ DOMAIN making = 1..Len(making) /\ Len(making) \in Nat
      /\ current \in Nat /\ Len(targets) \in Nat /\ DOMAIN targets = 1..Len(targets)
      /\ main = "targets" /\ current \in DOMAIN targets
  BY DEF Types, Registered
<1>1. CacheFresh' /\ \A q \in Requests : Placed(q)'
  BY PlacedStays
<1>2. \A q \in Requests : undrained = "no" /\ req[q].at \in {"new", "answered", "failed"}
  BY <1>0, NotServingYet
<1>3. \A q \in Requests : Served(q)'
  BY <1>2 DEF Served, Left, Interceptors
<1>4. ToSet(making) = {<<current, m>> : m \in 1..Len(making)}
  BY <1>0 DEF Registered, ToSet
<1>5. DOMAIN Interceptors(current) = 1..Len(making) /\ (making = <<>> <=> Interceptors(current) = <<>>)
  BY <1>0, DecodedTarget DEF Types, Interceptors
<1>6. ToSet(making) \subseteq Runtimes
  BY <1>0, <1>4 DEF Runtimes
<1>7. making' = <<>> /\ ToSet(making') = {} /\ DOMAIN making' = {} /\ Len(making') = 0
  BY DEF ToSet
<1>8. Types'
  BY <1>0, <1>6, <1>7 DEF Types
<1>9. FileAccepted'
  BY <1>0 DEF FileAccepted
<1>10. Registered'
  <2>1. current' = current + 1 /\ current' \in 1..Len(targets) + 1 /\ current' \in Nat
    BY <1>0
  <2>2. current' <= Len(targets) => 0 <= Len(Interceptors(current'))
    BY <2>1, <1>0, DecodedTarget DEF Types, Interceptors
  <2>3. \A r \in kept' : r[1] < current'
    BY <1>0, <1>4, <2>1 DEF Registered, Types, Runtimes
  <2>4. open' = kept'
    BY <1>0 DEF Registered
  <2>5. chained' = {i \in Configured : i < current'}
    <3>1. \A i \in DOMAIN targets : i < current' <=> i < current \/ i = current
      BY <1>0, <2>1
    <3>2. chained = {i \in Configured : i < current}
      BY <1>0 DEF Registered
    <3>3. current \in Configured <=> making # <<>>
      BY <1>0, <1>5 DEF Configured
    <3>4. chained' = IF making = <<>> THEN chained ELSE chained \cup {current}
      OBVIOUS
    <3>5. Configured \subseteq DOMAIN targets
      BY DEF Configured
    <3> QED
      BY <3>1, <3>2, <3>3, <3>4, <3>5
  <2>6. ASSUME NEW i \in DOMAIN targets, i < current', NEW m \in DOMAIN Interceptors(i)
        PROVE  <<i, m>> \in kept'
    <3>1. CASE i < current
      BY <3>1, <1>0, <2>6 DEF Registered
    <3>2. CASE i = current
      BY <3>2, <1>4, <1>5, <2>6
    <3> QED
      BY <3>1, <3>2, <2>1, <2>6, <1>0
  <2> QED
    BY <1>0, <1>7, <2>1, <2>2, <2>3, <2>4, <2>5, <2>6 DEF Registered, Configured, Interceptors
<1> QED
  BY <1>1, <1>3, <1>8, <1>9, <1>10

\* The servers start, stop accepting, or are left undrained.
LEMMA ServersInv ==
    ASSUME IInv, Serve \/ Signal \/ ServerFails \/ Drained \/ DrainCut \/ LockRegistry \/ End
    PROVE  IInv'
<1> USE DEF IInv, registryVars, dnsVars, Return
<1>0. /\ Types /\ Registered /\ FileAccepted
      /\ making \in Seq(Runtimes) /\ current \in Nat /\ Len(targets) \in Nat
  BY DEF Types
<1>1. UNCHANGED <<config, targets, registryVars, dnsVars, req>>
  BY DEF Serve, Signal, ServerFails, Drained, DrainCut, LockRegistry, End
<1>2. /\ main' \in {"serving", "draining", "closing", "locked", "ended"}
      /\ main' \in {"serving", "draining"} => undrained = "no"
      /\ undrained' \in {"no", "cut", "failed"} /\ (undrained' = "no" => undrained = "no")
      /\ main' \in {"serving", "draining"} => undrained' = "no"
      /\ main # "load"
      /\ main' = "serving" => main = "targets" /\ current > Len(targets)
      /\ main' = "draining" => main = "serving"
      /\ main' = "ended" => kept = {}
      /\ making # <<>> => main # "targets"
  BY <1>0 DEF Serve, Signal, ServerFails, Drained, DrainCut, LockRegistry, End, Types, FileAccepted, Registered
<1>3. making = <<>>
  BY <1>0, <1>2 DEF Registered
<1>4. CacheFresh' /\ \A q \in Requests : Placed(q)'
  BY <1>1, PlacedStays
<1>5. Types'
  BY <1>1, <1>2 DEF Types
<1>6. FileAccepted'
  BY <1>0, <1>1, <1>2 DEF FileAccepted
<1>7. Registered'
  <2>1. main' \in {"serving", "draining"} =>
          /\ current = Len(targets) + 1
          /\ chained = {i \in Configured : i < current}
          /\ \A i \in DOMAIN targets : i < current =>
               \A n \in DOMAIN Interceptors(i) : <<i, n>> \in kept
    BY <1>0, <1>2 DEF Registered
  <2> QED
    BY <1>0, <1>1, <1>2, <1>3, <2>1 DEF Registered, Configured, Interceptors
<1>8. ASSUME NEW q \in Requests PROVE Served(q)'
  <2> SUFFICES ASSUME undrained' = "no" PROVE Served(q)'
    BY DEF Served
  <2>1. undrained = "no" /\ Served(q)
    BY <1>2
  <2>2. req[q].at \notin {"new", "answered", "failed"} => main' \in {"serving", "draining"}
    BY <2>1 DEF Served, Serve, Signal, ServerFails, Drained, DrainCut, LockRegistry, End, InFlight
  <2> QED
    BY <1>1, <2>1, <2>2 DEF Served, Left, Interceptors
<1> QED
  BY <1>4, <1>5, <1>6, <1>7, <1>8

\* The registry is closed.
LEMMA CloseInv == ASSUME IInv, ForgetChains \/ \E r \in kept : CloseRuntime(r) PROVE IInv'
<1> USE DEF IInv, mainVars, dnsVars
<1>0. /\ Types /\ Registered /\ FileAccepted /\ main = "locked"
      /\ UNCHANGED <<config, targets, undrained, current, making, dnsVars, req>>
      /\ main' = "locked" \/ (main' = "closed" /\ kept' = {})
  BY DEF ForgetChains, CloseRuntime
<1>1. making = <<>> /\ ToSet(making) = {}
  BY <1>0 DEF Registered, ToSet
<1>2. kept' = open' /\ kept' \subseteq kept /\ chained' \subseteq chained
  BY <1>0, <1>1 DEF ForgetChains, CloseRuntime, Registered
<1>3. CacheFresh' /\ \A q \in Requests : Placed(q)'
  BY <1>0, PlacedStays
<1>4. Types'
  BY <1>0, <1>2 DEF Types
<1>5. FileAccepted'
  BY <1>0 DEF FileAccepted
<1>6. Registered'
  BY <1>0, <1>1, <1>2 DEF Registered, Configured, Interceptors
<1>7. ASSUME NEW q \in Requests PROVE Served(q)'
  <2>1. undrained = "no" => req[q].at \in {"new", "answered", "failed"}
    BY <1>0 DEF Served
  <2> QED
    BY <1>0, <2>1 DEF Served, Left, Interceptors
<1> QED
  BY <1>3, <1>4, <1>5, <1>6, <1>7

\* Time passes.
LEMMA TickInv == ASSUME IInv, Tick PROVE IInv'
<1> USE LinkProcessAssumption DEF LinkProcessAssumption, IInv, Tick, mainVars, registryVars
<1>0. now \in Nat /\ now' = now + 1 /\ now' \in 0..MaxTime
  BY DEF Types
<1>1. Types'
  BY <1>0 DEF Types
<1>2. FileAccepted' /\ Registered'
  BY DEF FileAccepted, Registered, Configured, Interceptors
<1>3. CacheFresh'
  <2> SUFFICES ASSUME NEW h \in Hosts, NEW e \in cache[h]
               PROVE  e.addr <= now' /\ e.expiresAt - e.addr <= TTL + LookupTime
    BY DEF CacheFresh
  <2>1. e.addr <= now /\ e.addr \in Nat /\ e.expiresAt - e.addr <= TTL + LookupTime
    BY DEF CacheFresh, Types, Entries
  <2> QED
    BY <2>1, <1>0
<1>4. ASSUME NEW q \in Requests PROVE Placed(q)'
  <2>1. req[q].since \in Nat
    BY DEF Types, RequestStates
  <2>2. req[q].at = "lookup" => req[q].since <= now' /\ now' - req[q].since <= LookupTime
    BY <1>0, <2>1 DEF Placed
  <2> QED
    BY <2>2 DEF Placed
<1>5. \A q \in Requests : Served(q)'
  BY DEF Served, Left, Interceptors
<1> QED
  BY <1>1, <1>2, <1>3, <1>4, <1>5

-----------------------------------------------------------------------------
(* The steps of a request.                                                 *)

\* A step of one request, to a state of which Placed and Served hold, leaves the
\* rest of the invariant as it is.
LEMMA OneRequest ==
    ASSUME IInv, NEW q \in Requests, NEW r \in RequestStates, Becomes(q, r),
           main # "load", UNCHANGED <<mainVars, registryVars, now>>,
           cache' \in [Hosts -> SUBSET Entries], CacheFresh',
           Placed(q)', Served(q)'
    PROVE  IInv'
<1> USE DEF IInv, mainVars, registryVars, Becomes
<1>1. Types'
  BY DEF Types
<1>2. FileAccepted'
  BY DEF FileAccepted
<1>3. Registered'
  BY DEF Registered, Configured, Interceptors
<1>4. ASSUME NEW p \in Requests, p # q PROVE Placed(p)' /\ Served(p)'
  <2>1. req'[p] = req[p]
    BY <1>4 DEF Types
  <2> QED
    BY <2>1 DEF Placed, Served, Left, Interceptors
<1> QED
  BY <1>1, <1>2, <1>3, <1>4

\* What a request in flight may rely on.
LEMMA InFlightFacts ==
    ASSUME IInv, NEW q \in Requests, req[q].at \notin {"new", "failed"}
    PROVE  /\ main # "load" /\ req[q] \in RequestStates /\ Len(targets) \in Nat
           /\ req[q].target \in DOMAIN targets /\ TargetOf(q) \in Decoded /\ TargetOf(q).host \in Hosts
           /\ req[q].target \in LastWith(targets, TargetOf(q).name, DOMAIN targets)
           /\ Placed(q) /\ Served(q)
<1>1. main # "load" /\ req[q] \in RequestStates /\ Len(targets) \in Nat /\ targets \in Seq(Decoded)
  BY DEF IInv, FileAccepted, Types
<1>2. req[q].target \in LastWith(targets, TargetOf(q).name, DOMAIN targets)
  BY DEF IInv, Placed, TargetOf
<1>3. req[q].target \in DOMAIN targets
  BY <1>2 DEF LastWith
<1>4. TargetOf(q) \in Decoded
  BY <1>1, <1>3 DEF TargetOf
<1> QED
  BY <1>1, <1>2, <1>3, <1>4, DecodedTarget DEF IInv

\* A request may fail at any step.
LEMMA FailsInv ==
    ASSUME IInv, NEW q \in Requests, main # "load", Fails(q),
           UNCHANGED <<mainVars, registryVars, dnsVars>>
    PROVE  IInv'
<1>1. Failed \in RequestStates
  BY DEF Failed, New, RequestStates, Steps
<1>2. req'[q] = Failed /\ Becomes(q, Failed)
  BY DEF Fails, Becomes, IInv, Types
<1>3. Placed(q)' /\ Served(q)'
  <2>1. 0 <= TTL + LookupTime
    BY LinkProcessAssumption DEF LinkProcessAssumption
  <2>2. /\ req'[q].at = "failed" /\ req'[q].reply = FALSE /\ req'[q].body = FALSE
        /\ req'[q].age = 0
    BY <1>2 DEF Failed, New
  <2> QED
    BY <2>1, <2>2 DEF Placed, Served
<1>4. CacheFresh' /\ cache' \in [Hosts -> SUBSET Entries]
  BY DEF IInv, CacheFresh, Types, dnsVars
<1> QED
  BY <1>1, <1>2, <1>3, <1>4, OneRequest DEF dnsVars

\* A request gets its target.
LEMMA AcceptInv ==
    ASSUME IInv, NEW q \in Requests, NEW i \in DOMAIN targets, NEW body \in BOOLEAN, Accept(q, i, body)
    PROVE  IInv'
<1> USE DEF Accept
<1> DEFINE r == [New EXCEPT !.target = i, !.body = body,
                            !.at = IF targets[i].protocol = "kafka" THEN "getOutbound" ELSE "resolve"]
<1>0. main \in {"serving", "closing", "locked", "closed"} /\ (main # "serving" => undrained = "failed")
  BY DEF Accepting
<1>1. CASE Fails(q)
  BY <1>0, <1>1, FailsInv
<1>2. CASE Becomes(q, r)
  <2>1. i \in Nat
    BY DEF IInv, Types
  <2>2. /\ r \in RequestStates /\ r.at \in {"getOutbound", "resolve"} /\ r.target = i /\ r.reply = FALSE
        /\ r.age = 0 /\ r.chain = {}
    BY <2>1 DEF New, RequestStates, Steps
  <2>3. req'[q] = r
    BY <1>2 DEF Becomes, IInv, Types
  <2> HIDE DEF r
  <2>4. Placed(q)'
    <3>1. 0 <= TTL + LookupTime
      BY LinkProcessAssumption DEF LinkProcessAssumption
    <3>2. i \in LastWith(targets, targets[i].name, DOMAIN targets) /\ targets' = targets
      BY DEF mainVars
    <3> QED
      BY <3>1, <3>2, <2>2, <2>3 DEF Placed
  <2>5. Served(q)'
    BY <1>0, <2>2, <2>3 DEF Served, mainVars
  <2>6. CacheFresh' /\ cache' \in [Hosts -> SUBSET Entries]
    BY DEF IInv, CacheFresh, Types, dnsVars
  <2> QED
    BY <1>0, <1>2, <2>2, <2>4, <2>5, <2>6, OneRequest DEF dnsVars
<1> QED
  BY <1>1, <1>2

\* A request that is moved on before its chains run, with an age in its bounds.
LEMMA MovesOn ==
    ASSUME IInv, NEW q \in Requests, req[q].at \in {"resolve", "lookup", "credentials"},
           NEW r \in RequestStates, Becomes(q, r),
           r.at \in {"lookup", "credentials", "getOutbound"},
           r.target = req[q].target, r.reply = req[q].reply, r.chain = req[q].chain,
           r.at = "lookup" => r.since = now,
           r.age <= TTL + LookupTime,
           UNCHANGED <<mainVars, registryVars, now>>,
           cache' \in [Hosts -> SUBSET Entries], CacheFresh'
    PROVE  IInv'
<1>1. req'[q] = r
  BY DEF Becomes, IInv, Types
<1>2. main # "load" /\ Placed(q) /\ Served(q)
  BY InFlightFacts
<1>3. now \in Nat /\ 0 <= LookupTime
  BY LinkProcessAssumption DEF LinkProcessAssumption, IInv, Types
<1>4. Placed(q)'
  BY <1>1, <1>2, <1>3 DEF Placed, mainVars
<1>5. Served(q)'
  BY <1>1, <1>2 DEF Served, mainVars, registryVars
<1> QED
  BY <1>2, <1>4, <1>5, OneRequest

\* An entry of the cache is taken, or a lookup begins.
LEMMA ResolveInv == ASSUME IInv, NEW q \in Requests, Resolve(q) PROVE IInv'
<1> USE DEF Resolve, Is
<1>0. /\ req[q] \in RequestStates /\ TargetOf(q).host \in Hosts
      /\ CacheFresh' /\ cache' \in [Hosts -> SUBSET Entries] /\ now \in Nat
      /\ TTL \in Nat /\ LookupTime \in Nat /\ Placed(q)
  BY InFlightFacts, LinkProcessAssumption
     DEF LinkProcessAssumption, IInv, CacheFresh, Types, dnsVars
<1>1. ASSUME NEW e \in cache[TargetOf(q).host], now < e.expiresAt,
             Becomes(q, [req[q] EXCEPT !.at = "credentials", !.age = now - e.addr])
      PROVE  IInv'
  <2>1. /\ e.addr \in Nat /\ e.expiresAt \in Nat /\ e.addr <= now
        /\ e.expiresAt - e.addr <= TTL + LookupTime
    BY <1>0 DEF IInv, CacheFresh, Types, Entries
  <2>2. now - e.addr \in Nat /\ now - e.addr <= TTL + LookupTime
    BY <2>1, <1>0, <1>1
  <2>3. [req[q] EXCEPT !.at = "credentials", !.age = now - e.addr] \in RequestStates
    BY <2>2, <1>0 DEF RequestStates, Steps
  <2> DEFINE r == [req[q] EXCEPT !.at = "credentials", !.age = now - e.addr]
  <2>4. /\ r.at = "credentials" /\ r.target = req[q].target /\ r.reply = req[q].reply
        /\ r.chain = req[q].chain /\ r.age = now - e.addr
    BY <1>0 DEF RequestStates
  <2> HIDE DEF r
  <2> QED
    BY <1>0, <1>1, <2>2, <2>3, <2>4, MovesOn DEF r, dnsVars
<1>2. ASSUME Becomes(q, [req[q] EXCEPT !.at = "lookup", !.since = now])
      PROVE  IInv'
  <2> DEFINE r == [req[q] EXCEPT !.at = "lookup", !.since = now]
  <2>3. r \in RequestStates
    BY <1>0 DEF RequestStates, Steps
  <2>4. /\ r.at = "lookup" /\ r.target = req[q].target /\ r.reply = req[q].reply
        /\ r.chain = req[q].chain /\ r.age = req[q].age /\ r.since = now
    BY <1>0 DEF RequestStates
  <2>5. req[q].age <= TTL + LookupTime
    BY <1>0 DEF Placed
  <2>6. Becomes(q, r)
    BY <1>2
  <2> HIDE DEF r
  <2> QED
    BY <1>0, <2>3, <2>4, <2>5, <2>6, MovesOn DEF dnsVars
<1> QED
  BY <1>1, <1>2 DEF UseEntry

\* A lookup is answered and cached.
LEMMA LookupAnswersInv ==
    ASSUME IInv, NEW q \in Requests, NEW addr \in 0..now, LookupAnswers(q, addr) PROVE IInv'
<1> USE DEF LookupAnswers, Is
<1>0. /\ req[q] \in RequestStates /\ TargetOf(q).host \in Hosts
      /\ now \in Nat /\ TTL \in Nat /\ LookupTime \in Nat /\ req[q].since \in Nat
      /\ Placed(q) /\ CacheFresh /\ cache \in [Hosts -> SUBSET Entries]
  BY InFlightFacts, LinkProcessAssumption
     DEF LinkProcessAssumption, IInv, Types, RequestStates
<1>1. now - req[q].since <= LookupTime /\ addr \in req[q].since..now
  BY <1>0 DEF Placed
<1>2. addr \in Nat /\ now - addr \in Nat /\ now - addr <= LookupTime
  BY <1>0, <1>1
<1> DEFINE e == [addr |-> addr, expiresAt |-> now + TTL]
           r == [req[q] EXCEPT !.at = "credentials", !.since = 0, !.age = now - addr]
<1>3. e \in Entries /\ e.addr <= now /\ e.expiresAt - e.addr <= TTL + LookupTime
  BY <1>0, <1>2 DEF Entries
<1>4. r \in RequestStates
  BY <1>0, <1>2 DEF RequestStates, Steps
<1>5. /\ r.at = "credentials" /\ r.target = req[q].target /\ r.reply = req[q].reply
      /\ r.chain = req[q].chain /\ r.age = now - addr
  BY <1>0 DEF RequestStates
<1>6. cache' = [cache EXCEPT ![TargetOf(q).host] = {e}] /\ Becomes(q, r) /\ now' = now
  OBVIOUS
<1> HIDE DEF e, r
<1>7. cache' \in [Hosts -> SUBSET Entries]
  BY <1>0, <1>3, <1>6
<1>8. CacheFresh'
  BY <1>0, <1>3, <1>6 DEF CacheFresh
<1>9. now - addr <= TTL + LookupTime
  BY <1>0, <1>2
<1> QED
  BY <1>4, <1>5, <1>6, <1>7, <1>8, <1>9, MovesOn

\* The credentials are added.
LEMMA CredentialsInv == ASSUME IInv, NEW q \in Requests, Credentials(q) PROVE IInv'
<1> USE DEF Credentials, Is
<1>0. /\ req[q] \in RequestStates /\ main # "load"
      /\ CacheFresh' /\ cache' \in [Hosts -> SUBSET Entries]
      /\ 0 <= TTL + LookupTime
  BY InFlightFacts, LinkProcessAssumption
     DEF LinkProcessAssumption, IInv, CacheFresh, Types, dnsVars
<1>1. CASE Fails(q)
  BY <1>0, <1>1, FailsInv
<1>2. CASE Becomes(q, [req[q] EXCEPT !.at = "getOutbound", !.age = 0])
  <2> DEFINE r == [req[q] EXCEPT !.at = "getOutbound", !.age = 0]
  <2>1. /\ r \in RequestStates /\ r.at = "getOutbound" /\ r.target = req[q].target
        /\ r.reply = req[q].reply /\ r.chain = req[q].chain /\ r.age = 0
    BY <1>0 DEF RequestStates, Steps
  <2>2. Becomes(q, r)
    BY <1>2
  <2> HIDE DEF r
  <2> QED
    BY <1>0, <2>1, <2>2, MovesOn DEF dnsVars
<1> QED
  BY <1>1, <1>2

\* A chain consists of runtimes; while the program serves or drains, of all those
\* of the request's target in that phase, and they are in the registry.
LEMMA ChainOfTarget ==
    ASSUME IInv, NEW q \in Requests, req[q].at \notin {"new", "failed"}, NEW inbound
    PROVE  /\ Chain(TargetOf(q).name, inbound) \subseteq Runtimes
           /\ main \in {"serving", "draining"} =>
                /\ Chain(TargetOf(q).name, inbound) \subseteq kept
                /\ \A n \in DOMAIN Interceptors(req[q].target) :
                     IsInbound(Interceptors(req[q].target)[n]) = inbound =>
                        <<req[q].target, n>> \in Chain(TargetOf(q).name, inbound)
<1> DEFINE t == req[q].target
<1>0. /\ targets \in Seq(Decoded) /\ t \in DOMAIN targets
      /\ t \in LastWith(targets, TargetOf(q).name, DOMAIN targets)
      /\ TargetOf(q) = targets[t] /\ Registered
  BY InFlightFacts DEF IInv, Types, TargetOf
<1>1. \A i \in DOMAIN targets : i \in Nat /\ DOMAIN Interceptors(i) \subseteq Nat
                                /\ (Interceptors(i) = <<>> => DOMAIN Interceptors(i) = {})
  BY <1>0, DecodedTarget DEF Interceptors
<1>2. ASSUME NEW i, NEW n, <<i, n>> \in Chain(TargetOf(q).name, inbound)
      PROVE  i \in chained /\ i \in DOMAIN targets /\ n \in DOMAIN Interceptors(i)
  BY <1>2 DEF Chain, LastWith, Configured
<1>3. \A r \in Chain(TargetOf(q).name, inbound) : \E i, n : r = <<i, n>>
  BY DEF Chain
<1>4. Chain(TargetOf(q).name, inbound) \subseteq Runtimes
  BY <1>1, <1>2, <1>3 DEF Runtimes
<1>5. ASSUME main \in {"serving", "draining"}
      PROVE  Chain(TargetOf(q).name, inbound) \subseteq kept
  <2>1. \A i \in chained : i < current
    BY <1>5, <1>0 DEF Registered
  <2>2. \A i \in DOMAIN targets : i < current => \A n \in DOMAIN Interceptors(i) : <<i, n>> \in kept
    BY <1>5, <1>0 DEF Registered
  <2> QED
    BY <1>2, <1>3, <2>1, <2>2
<1>6. ASSUME main \in {"serving", "draining"}, NEW n \in DOMAIN Interceptors(t),
             IsInbound(Interceptors(t)[n]) = inbound
      PROVE  <<t, n>> \in Chain(TargetOf(q).name, inbound)
  <2>1. t \in Configured
    BY <1>0, <1>1, <1>6 DEF Configured
  <2>2. t \in chained
    <3>1. t < current
      BY <1>0, <1>6 DEF Registered
    <3> QED
      BY <3>1, <2>1, <1>0, <1>6 DEF Registered
  <2>3. t \in LastWith(targets, TargetOf(q).name, Configured)
    BY <1>0, <2>1 DEF LastWith, Configured
  <2> QED
    BY <1>6, <2>2, <2>3 DEF Chain
<1> QED
  BY <1>4, <1>5, <1>6

\* A request gets the chain of its phase.
LEMMA GetChainsInv == ASSUME IInv, NEW q \in Requests, GetChains(q) PROVE IInv'
<1> USE DEF GetChains
<1> DEFINE inbound == req[q].at = "getInbound"
           body == IF inbound THEN req[q].reply ELSE req[q].body
           chain == IF body THEN Chain(TargetOf(q).name, inbound) ELSE {}
           r == [req[q] EXCEPT !.at = IF inbound THEN "inbound" ELSE "outbound", !.chain = chain]
<1>0. /\ req[q] \in RequestStates /\ main # "load" /\ Placed(q) /\ Served(q)
      /\ req[q].at \in {"getOutbound", "getInbound"} /\ Becomes(q, r)
      /\ CacheFresh' /\ cache' \in [Hosts -> SUBSET Entries]
  BY InFlightFacts DEF IInv, CacheFresh, Types, dnsVars
<1>1. chain \subseteq Runtimes /\ (main \in {"serving", "draining"} => chain \subseteq kept)
  BY <1>0, ChainOfTarget
<1>2. /\ r \in RequestStates
      /\ r.at = IF req[q].at = "getInbound" THEN "inbound" ELSE "outbound"
      /\ r.target = req[q].target /\ r.reply = req[q].reply /\ r.body = req[q].body
      /\ r.chain = chain /\ r.age = req[q].age /\ r.passed = req[q].passed
  BY <1>0, <1>1 DEF RequestStates, Steps
<1>3. req'[q] = r
  BY <1>0 DEF Becomes, IInv, Types
<1>4. Placed(q)'
  <2> HIDE DEF r
  <2> QED
    BY <1>0, <1>2, <1>3 DEF Placed, mainVars
<1>5. Served(q)'
  <2> SUFFICES ASSUME undrained = "no" PROVE Served(q)'
    BY DEF Served, mainVars
  <2>1. main \in {"serving", "draining"} /\ kept' = kept /\ main' = main /\ targets' = targets
        /\ undrained' = undrained
    BY <1>0 DEF Served, mainVars, registryVars
  <2>2. body => \A n \in DOMAIN Interceptors(req[q].target) :
                   IsInbound(Interceptors(req[q].target)[n]) = inbound => <<req[q].target, n>> \in chain
    BY <1>0, <2>1, ChainOfTarget
  <2> HIDE DEF r, chain
  <2>3. CASE req[q].at = "getOutbound"
    <3>1. /\ req'[q].at = "outbound" /\ req'[q].reply = FALSE /\ req'[q].body = req[q].body
          /\ inbound = FALSE /\ body = req[q].body /\ req'[q].chain = chain
      BY <2>3, <1>0, <1>2, <1>3 DEF Placed, RequestStates
    <3>2. req[q].body => Left(q, FALSE, req[q].chain)'
      BY <2>1, <2>2, <3>1, <1>2, <1>3 DEF Left, Interceptors
    <3> QED
      BY <3>1, <3>2, <1>1, <2>1 DEF Served
  <2>4. CASE req[q].at = "getInbound"
    <3>1. /\ req'[q].at = "inbound" /\ req'[q].reply = req[q].reply /\ req'[q].body = req[q].body
          /\ inbound = TRUE /\ body = req[q].reply /\ req'[q].chain = chain
      BY <2>4, <1>0, <1>2, <1>3 DEF RequestStates
    <3>2. req[q].reply => Left(q, TRUE, req[q].chain)'
      BY <2>1, <2>2, <3>1, <1>2, <1>3 DEF Left, Interceptors
    <3>3. req[q].body => Left(q, FALSE, {})'
      BY <2>1, <2>4, <1>0, <1>2, <1>3 DEF Left, Served, Interceptors
    <3> QED
      BY <3>1, <3>2, <3>3, <1>1, <2>1 DEF Served
  <2> QED
    BY <2>3, <2>4, <1>0
<1> QED
  BY <1>0, <1>2, <1>4, <1>5, OneRequest DEF dnsVars

\* An interceptor of the chain is called.
LEMMA CallInterceptorInv == ASSUME IInv, NEW q \in Requests, CallInterceptor(q) PROVE IInv'
<1> USE DEF CallInterceptor
<1>0. /\ req[q] \in RequestStates /\ main # "load" /\ Placed(q) /\ Served(q)
      /\ req[q].at \in {"outbound", "inbound"}
      /\ CacheFresh' /\ cache' \in [Hosts -> SUBSET Entries]
  BY InFlightFacts DEF IInv, CacheFresh, Types, dnsVars
<1>1. CASE Fails(q)
  BY <1>0, <1>1, FailsInv
<1>2. ASSUME NEW c \in req[q].chain,
             Becomes(q, [req[q] EXCEPT !.chain = @ \ {c}, !.passed = @ \cup ({c} \cap open)])
      PROVE  IInv'
  <2> DEFINE r == [req[q] EXCEPT !.chain = @ \ {c}, !.passed = @ \cup ({c} \cap open)]
  <2>0. Becomes(q, r)
    BY <1>2
  <2>1. /\ r \in RequestStates /\ r.at = req[q].at
        /\ r.target = req[q].target /\ r.reply = req[q].reply /\ r.body = req[q].body
        /\ r.chain = req[q].chain \ {c} /\ r.age = req[q].age
        /\ r.passed = req[q].passed \cup ({c} \cap open)
    BY <1>0, <1>2 DEF RequestStates
  <2>2. req'[q] = r
    BY <2>0 DEF Becomes, IInv, Types
  <2> HIDE DEF r
  <2>3. Placed(q)'
    BY <1>0, <2>1, <2>2 DEF Placed, mainVars
  <2>4. Served(q)'
    <3> SUFFICES ASSUME undrained = "no" PROVE Served(q)'
      BY DEF Served, mainVars
    <3>1. /\ main \in {"serving", "draining"} /\ kept' = kept /\ main' = main /\ targets' = targets
          /\ undrained' = undrained /\ req[q].chain \subseteq kept
      BY <1>0 DEF Served, mainVars, registryVars
    <3>2. c \in open
      BY <3>1, <1>2 DEF IInv, Registered
    <3>3. \A inbound \in BOOLEAN : Left(q, inbound, req[q].chain) => Left(q, inbound, req[q].chain)'
      BY <3>1, <3>2, <2>1, <2>2 DEF Left, Interceptors
    <3>4. Left(q, FALSE, {}) => Left(q, FALSE, {})'
      BY <3>1, <2>1, <2>2 DEF Left, Interceptors
    <3>5. req'[q].at = req[q].at /\ req'[q].body = req[q].body /\ req'[q].reply = req[q].reply
          /\ req'[q].chain \subseteq kept
      BY <2>1, <2>2, <3>1
    <3> QED
      BY <1>0, <3>1, <3>3, <3>4, <3>5 DEF Served
  <2> QED
    BY <1>0, <2>0, <2>1, <2>3, <2>4, OneRequest DEF dnsVars
<1> QED
  BY <1>1, <1>2

\* A request leaves a chain, or the upstream, with the interceptors behind it.
LEMMA GoesOn ==
    ASSUME IInv, NEW q \in Requests, req[q].at \in {"outbound", "upstream", "inbound"},
           NEW r \in RequestStates, Becomes(q, r),
           r.target = req[q].target, r.body = req[q].body, r.age = req[q].age,
           r.chain = req[q].chain, r.passed = req[q].passed,
           r.at \in {"upstream", "getInbound", "answered"},
           r.at \in {"upstream", "answered"} => r.reply = req[q].reply,
           req[q].at = "inbound" => r.at = "answered",
           req[q].at # "upstream" => req[q].chain = {},
           UNCHANGED <<mainVars, registryVars, dnsVars>>
    PROVE  IInv'
<1>0. /\ main # "load" /\ Placed(q) /\ Served(q)
      /\ CacheFresh' /\ cache' \in [Hosts -> SUBSET Entries]
  BY InFlightFacts DEF IInv, CacheFresh, Types, dnsVars
<1>1. req'[q] = r
  BY DEF Becomes, IInv, Types
<1>2. Placed(q)'
  BY <1>0, <1>1 DEF Placed, mainVars
<1>3. Served(q)'
  <2> SUFFICES ASSUME undrained = "no" PROVE Served(q)'
    BY DEF Served, mainVars
  <2>1. /\ main \in {"serving", "draining"} /\ kept' = kept /\ main' = main /\ targets' = targets
        /\ undrained' = undrained /\ req[q].chain \subseteq kept
    BY <1>0 DEF Served, mainVars, registryVars
  <2>2. \A inbound \in BOOLEAN : Left(q, inbound, {}) => Left(q, inbound, {})'
    BY <2>1, <1>1 DEF Left, Interceptors
  <2>3. req[q].body => Left(q, FALSE, {})
    BY <1>0 DEF Served
  <2>4. req[q].at = "inbound" /\ req[q].reply => Left(q, TRUE, {})
    BY <1>0 DEF Served
  <2>5. req[q].at # "inbound" => req[q].reply = FALSE
    BY <1>0 DEF Placed
  <2> QED
    BY <1>1, <2>1, <2>2, <2>3, <2>4, <2>5 DEF Served
<1> QED
  BY <1>0, <1>2, <1>3, OneRequest DEF dnsVars

\* The end of a chain.
LEMMA ChainEndsInv == ASSUME IInv, NEW q \in Requests, ChainEnds(q) PROVE IInv'
<1> DEFINE r == [req[q] EXCEPT !.at = IF req[q].at = "inbound" THEN "answered" ELSE "upstream"]
<1>1. req[q] \in RequestStates /\ req[q].at \in {"outbound", "inbound"} /\ req[q].chain = {}
      /\ Becomes(q, r) /\ UNCHANGED <<mainVars, registryVars, dnsVars>>
  BY DEF IInv, Types, ChainEnds, Goes
<1>2. /\ r \in RequestStates /\ r.target = req[q].target /\ r.body = req[q].body /\ r.age = req[q].age
      /\ r.chain = req[q].chain /\ r.passed = req[q].passed /\ r.reply = req[q].reply
      /\ r.at = IF req[q].at = "inbound" THEN "answered" ELSE "upstream"
  BY <1>1 DEF RequestStates, Steps
<1> HIDE DEF r
<1> QED
  BY <1>1, <1>2, GoesOn

\* The upstream answers or the request fails.
LEMMA UpstreamInv == ASSUME IInv, NEW q \in Requests, NEW reply \in BOOLEAN, Upstream(q, reply) PROVE IInv'
<1>0. req[q] \in RequestStates /\ req[q].at = "upstream" /\ main # "load"
      /\ UNCHANGED <<mainVars, registryVars, dnsVars>>
  BY InFlightFacts DEF Upstream, Is
<1>1. CASE Fails(q)
  BY <1>0, <1>1, FailsInv
<1>2. ASSUME Goes(q, "answered") PROVE IInv'
  <2> DEFINE r == [req[q] EXCEPT !.at = "answered"]
  <2>1. Becomes(q, r)
    BY <1>2 DEF Goes
  <2>2. /\ r \in RequestStates /\ r.target = req[q].target /\ r.body = req[q].body /\ r.age = req[q].age
        /\ r.chain = req[q].chain /\ r.passed = req[q].passed /\ r.reply = req[q].reply
        /\ r.at = "answered"
    BY <1>0 DEF RequestStates, Steps
  <2> HIDE DEF r
  <2> QED
    BY <1>0, <2>1, <2>2, GoesOn
<1>3. ASSUME Becomes(q, [req[q] EXCEPT !.at = "getInbound", !.reply = reply]) PROVE IInv'
  <2> DEFINE r == [req[q] EXCEPT !.at = "getInbound", !.reply = reply]
  <2>1. Becomes(q, r)
    BY <1>3
  <2>2. /\ r \in RequestStates /\ r.target = req[q].target /\ r.body = req[q].body /\ r.age = req[q].age
        /\ r.chain = req[q].chain /\ r.passed = req[q].passed /\ r.at = "getInbound"
    BY <1>0 DEF RequestStates, Steps
  <2> HIDE DEF r
  <2> QED
    BY <1>0, <2>1, <2>2, GoesOn
<1> QED
  BY <1>1, <1>2, <1>3 DEF Upstream

-----------------------------------------------------------------------------
(* The theorems.                                                           *)

\* Every step of run() preserves the invariant.
LEMMA RunInv == ASSUME IInv, Run PROVE IInv'
BY LoadConfigInv, MakeInterceptorInv, KeepChainsInv, ServersInv, CloseInv DEF Run

\* Every step of a request preserves the invariant.
LEMMA ServeHTTPInv == ASSUME IInv, NEW q \in Requests, ServeHTTP(q) PROVE IInv'
<1>1. CASE \E i \in DOMAIN targets, body \in BOOLEAN : Accept(q, i, body)
  BY <1>1, AcceptInv
<1>2. CASE Resolve(q) \/ Credentials(q) \/ \E addr \in 0..now : LookupAnswers(q, addr)
  BY <1>2, ResolveInv, CredentialsInv, LookupAnswersInv
<1>3. CASE LookupFails(q)
  BY <1>3, InFlightFacts, FailsInv DEF LookupFails, Is
<1>4. CASE GetChains(q) \/ CallInterceptor(q) \/ ChainEnds(q)
  BY <1>4, GetChainsInv, CallInterceptorInv, ChainEndsInv
<1>5. CASE \E reply \in BOOLEAN : Upstream(q, reply)
  BY <1>5, UpstreamInv
<1> QED
  BY <1>1, <1>2, <1>3, <1>4, <1>5 DEF ServeHTTP

\* Every step preserves the invariant.
LEMMA NextInv == IInv /\ [Next]_vars => IInv'
<1>1. ASSUME IInv, Next PROVE IInv'
  BY <1>1, RunInv, TickInv, ServeHTTPInv DEF Next
<1>2. ASSUME IInv, UNCHANGED vars PROVE IInv'
  <2>1. UNCHANGED <<config, main, targets, undrained, current, making, open, kept, chained, now, cache, req>>
    BY <1>2 DEF vars, mainVars, registryVars, dnsVars
  <2>2. Types' /\ FileAccepted' /\ Registered' /\ CacheFresh'
    BY <1>2, <2>1 DEF IInv, Types, FileAccepted, Registered, CacheFresh, Configured, Interceptors
  <2>3. \A q \in Requests : Placed(q)' /\ Served(q)'
    BY <1>2, <2>1 DEF IInv, Placed, Served, Left, Interceptors
  <2> QED
    BY <2>2, <2>3 DEF IInv
<1> QED
  BY <1>1, <1>2

\* The invariant holds in every reachable state.
THEOREM LinkInvariant == Spec => []IInv
BY InitInv, NextInv, PTL DEF Spec

\* The state of the program has its types.
THEOREM LinkTypeCorrect == Spec => []TypeOK
<1>1. IInv => TypeOK
  <2> SUFFICES ASSUME IInv PROVE TypeOK
    OBVIOUS
  <2>1. Len(targets) \in Nat /\ DOMAIN targets = 1..Len(targets) /\ chained \subseteq DOMAIN targets
    BY DEF IInv, Types, Registered, Configured
  <2>2. \A q \in Requests : req[q].age \in Nat
    BY DEF IInv, Types, RequestStates
  <2> QED
    BY <2>1, <2>2 DEF IInv, Types, Registered, TypeOK
<1> QED
  BY <1>1, LinkInvariant, PTL

\* No runtime of an interceptor is lost, wherever loading fails, and the process
\* ends with none open (Registry.Load, Close).
THEOREM LinkRuntimesClosed == Spec => []RuntimesClosed
<1>1. IInv => RuntimesClosed
  <2> SUFFICES ASSUME IInv PROVE RuntimesClosed
    OBVIOUS
  <2>1. main = "ended" => kept = {} /\ making = <<>>
    BY DEF IInv, Registered
  <2>2. making = <<>> => ToSet(making) = {}
    BY DEF ToSet
  <2> QED
    BY <2>1, <2>2 DEF IInv, Registered, RuntimesClosed
<1> QED
  BY <1>1, LinkInvariant, PTL

\* A request answered by a program that drained its servers had every interceptor
\* of its target called on an open runtime (ProcessOutbound, ProcessInbound, Close).
THEOREM LinkIntercepted == Spec => []Intercepted
<1>1. IInv => Intercepted
  <2> SUFFICES ASSUME IInv, NEW q \in Requests, req[q].at = "answered", undrained = "no",
                      NEW n \in DOMAIN Interceptors(req[q].target)
               PROVE  \/ <<req[q].target, n>> \in req[q].passed
                      \/ IsInbound(Interceptors(req[q].target)[n]) /\ ~req[q].reply
                      \/ ~IsInbound(Interceptors(req[q].target)[n]) /\ ~req[q].body
    BY DEF Intercepted
  <2>1. /\ req[q].body => Left(q, FALSE, {})
        /\ req[q].reply => Left(q, TRUE, {})
    BY DEF IInv, Served
  <2>2. IsInbound(Interceptors(req[q].target)[n]) \in BOOLEAN
    BY DEF IsInbound
  <2> QED
    BY <2>1, <2>2 DEF Left
<1> QED
  BY <1>1, LinkInvariant, PTL

\* No request gets an address older than the time to live and one lookup, however
\* lookups overlap and in whatever order they are cached (Resolver.Resolve).
THEOREM LinkFreshAddress == Spec => []FreshAddress
<1>1. IInv => FreshAddress
  BY DEF IInv, Placed, FreshAddress
<1> QED
  BY <1>1, LinkInvariant, PTL

\* Whatever file was accepted, the breaker, the limiter, the retries and the
\* publishers of its targets get what they take for granted (Validate, run).
THEOREM LinkConfigFits == Spec => []ConfigFits
<1>1. IInv => ConfigFits
  <2> SUFFICES ASSUME IInv, NEW n \in Names, NEW t \in Target(targets, n)
               PROVE  /\ \A b \in BreakerOf(targets, t.name) : b.failureThreshold >= 1 /\ b.successThreshold >= 1
                      /\ \A burst \in LimiterOf(targets, t.name) : burst >= 1
                      /\ MaxAttemptsOf(t) >= 1
                      /\ IF t.protocol = "kafka"
                         THEN \E k \in t.kafka : k.cluster \in DOMAIN config.clusters
                                                 /\ ValidCluster(config.clusters[k.cluster])
                         ELSE t.host # ""
    BY DEF ConfigFits
  <2>0. targets \in Seq(Decoded)
    BY DEF IInv, Types
  <2>1. PICK i \in DOMAIN targets : t = targets[i]
    BY DEF Target, LastWith
  <2>2. \A j \in DOMAIN targets : /\ targets[j].breaker.failureThreshold \in Int
                                  /\ targets[j].breaker.successThreshold \in Int
                                  /\ targets[j].retry.maxAttempts \in Int
                                  /\ targets[j].limit.requestsPerSecond \in Int
                                  /\ targets[j].limit.burst \in Int
    BY <2>0, DecodedTarget
  <2>3. \A b \in BreakerOf(targets, t.name) : b.failureThreshold >= 1 /\ b.successThreshold >= 1
    <3>1. \A j \in DOMAIN targets : /\ BreakerConfig(targets[j]).failureThreshold >= 1
                                    /\ BreakerConfig(targets[j]).successThreshold >= 1
      BY <2>2 DEF BreakerConfig
    <3> QED
      BY <3>1 DEF BreakerOf, LastWith
  <2>4. \A burst \in LimiterOf(targets, t.name) : burst >= 1
    <3>1. \A rps \in Int : rps \div 10 \in Int
      OBVIOUS
    <3>2. \A j \in DOMAIN targets : \A burst \in LimiterBurst(targets[j]) : burst >= 1
      BY <2>2, <3>1 DEF LimiterBurst, MaxInt
    <3> QED
      BY <3>2 DEF LimiterOf, LastWith
  <2>5. MaxAttemptsOf(t) >= 1
    BY <2>1, <2>2 DEF MaxAttemptsOf
  <2>6. /\ ValidTarget(t, config.clusters)
        /\ \A k \in DOMAIN config.clusters : ValidCluster(config.clusters[k])
    BY <2>0, <2>1 DEF IInv, FileAccepted
  <2>7. t.protocol = "kafka" =>
          \E k \in t.kafka : k.cluster \in DOMAIN config.clusters
                              /\ ValidCluster(config.clusters[k.cluster])
    BY <2>6 DEF ValidTarget, ValidKafkaTarget
  <2>8. t.protocol # "kafka" => t.host # ""
    BY <2>6 DEF ValidTarget
  <2> QED
    BY <2>3, <2>4, <2>5, <2>7, <2>8
<1> QED
  BY <1>1, LinkInvariant, PTL

-----------------------------------------------------------------------------
(* The operator: resources and their statuses.                             *)

StatusesOf(n) == {Pending} \cup {Verdict(n, spec) : spec \in Specs[KindOf[n]]}
StoredOf(n) == [spec : Specs[KindOf[n]], status : StatusesOf(n), version : Nat]

\* A copy of a resource is from the past, and has the spec that is stored with its
\* version if that version is still stored.
IsCopy(n, s) ==
    /\ s \in StoredOf(n) /\ s.version <= version[n]
    /\ \A new \in store[n] : new.version = s.version => new.spec = s.spec

StoreOK ==
    /\ store = [n \in Resources |-> store[n]]
    /\ version \in [Resources -> Nat]
    /\ \A n \in Resources : \A s \in store[n] :
         /\ s \in StoredOf(n) /\ s.version \in 1..version[n]
         /\ \A o \in store[n] : o = s

InformersOK ==
    /\ informer = [r \in Replicas |-> informer[r]]
    /\ \A r \in Replicas :
         /\ informer[r] = [n \in Resources |-> informer[r][n]]
         /\ \A n \in Resources : \A s \in informer[r][n] :
              IsCopy(n, s) /\ \A o \in informer[r][n] : o = s

WorkOK ==
    /\ work = [r \in Replicas |-> work[r]]
    /\ \A r \in Replicas : \A w \in work[r] :
         /\ w = [name |-> w.name, seen |-> w.seen] /\ w.name \in Resources
         /\ IsCopy(w.name, w.seen)
         /\ \A o \in work[r] : KindOf[o.name] = KindOf[w.name] => o = w

\* The inductive invariant of the resources.
StatusInv ==
    /\ StoreOK
    /\ InformersOK
    /\ WorkOK
    /\ synced \in [Replicas -> SUBSET Kinds]
    /\ queue \in [Replicas -> SUBSET Resources]

\* A resource gets its next version, the first that copies of it may not have.
LEMMA NextVersion ==
    ASSUME StatusInv, NEW n \in Resources, NEW s \in StoredOf(n), s.version = version[n] + 1,
           store' = [store EXCEPT ![n] = {s}], version' = [version EXCEPT ![n] = @ + 1],
           UNCHANGED <<informer, synced>>,
           queue' \in [Replicas -> SUBSET Resources],
           work' = [r \in Replicas |-> work'[r]],
           \A r \in Replicas : work'[r] \subseteq work[r]
    PROVE  StatusInv'
<1> USE DEF StatusInv
<1>1. version[n] \in Nat /\ version'[n] = version[n] + 1 /\ store'[n] = {s}
      /\ \A m \in Resources : m # n => version'[m] = version[m] /\ store'[m] = store[m]
  BY DEF StoreOK
<1>2. StoreOK'
  <2>1. version' \in [Resources -> Nat] /\ store' = [m \in Resources |-> store'[m]]
    <3>1. version' \in [Resources -> Nat]
      BY DEF StoreOK
    <3>2. DOMAIN store = Resources
      BY DEF StoreOK
    <3>3. store' = [m \in Resources |-> store'[m]]
      BY <3>2
    <3> QED
      BY <3>1, <3>3
  <2>2. ASSUME NEW m \in Resources, NEW o \in store'[m]
        PROVE  /\ o \in StoredOf(m) /\ o.version \in 1..version'[m]
               /\ \A x \in store'[m] : x = o
    BY <1>1, <2>2 DEF StoreOK
  <2> QED
    BY <2>1, <2>2 DEF StoreOK, StoredOf, StatusesOf
<1>3. ASSUME NEW m \in Resources, NEW c, IsCopy(m, c)
      PROVE  IsCopy(m, c)'
  <2>1. c.version \in Nat /\ version[m] \in Nat /\ c.version <= version[m]
    BY <1>3 DEF IsCopy, StoredOf, StoreOK
  <2>2. c.version <= version'[m]
    BY <2>1, <1>1
  <2>3. \A new \in store'[m] : new.version = c.version => new.spec = c.spec
    BY <2>1, <1>1, <1>3 DEF IsCopy
  <2> QED
    BY <2>2, <2>3, <1>3 DEF IsCopy, StoredOf, StatusesOf
<1>4. InformersOK'
  BY <1>3 DEF InformersOK
<1>5. WorkOK'
  BY <1>3 DEF WorkOK
<1> QED
  BY <1>2, <1>4, <1>5

\* Nothing new is stored: copies stay copies.
LEMMA NothingStored ==
    ASSUME StatusInv, version' = version, store' = [n \in Resources |-> store'[n]],
           \A n \in Resources : store'[n] \subseteq store[n]
    PROVE  /\ StoreOK'
           /\ \A n \in Resources : \A s : IsCopy(n, s) => IsCopy(n, s)'
<1>1. StoreOK'
  BY DEF StatusInv, StoreOK, StoredOf, StatusesOf
<1>2. \A n \in Resources : \A s : IsCopy(n, s) => IsCopy(n, s)'
  BY DEF IsCopy, StoredOf, StatusesOf
<1> QED
  BY <1>1, <1>2

\* A status update stores the verdict on the spec that is stored, or nothing.
LEMMA StoresInv ==
    ASSUME StatusInv, NEW r \in Replicas, NEW w \in work[r], NEW s \in Current(w),
           Stores(w.name, s, Verdict(w.name, w.seen.spec)),
           UNCHANGED <<informer, synced>>,
           queue' \in [Replicas -> SUBSET Resources],
           work' = [q \in Replicas |-> work'[q]],
           \A q \in Replicas : work'[q] \subseteq work[q]
    PROVE  StatusInv'
<1> USE DEF StatusInv
<1> DEFINE n == w.name
           status == Verdict(n, w.seen.spec)
<1>1. n \in Resources /\ s \in StoredOf(n) /\ w.seen \in StoredOf(n)
  BY DEF WorkOK, Current, StoreOK, IsCopy
<1>2. CASE s.status = status
  <2>1. UNCHANGED <<store, version>>
    BY <1>2 DEF Stores
  <2>2. StoreOK' /\ \A m \in Resources : \A c : IsCopy(m, c) => IsCopy(m, c)'
    BY <2>1, NothingStored DEF StoreOK
  <2>3. InformersOK' /\ WorkOK'
    BY <2>2 DEF InformersOK, WorkOK
  <2> QED
    BY <2>2, <2>3
<1>3. CASE s.status # status
  <2> DEFINE new == [s EXCEPT !.status = status, !.version = version'[n]]
  <2>1. /\ version' = [version EXCEPT ![n] = @ + 1]
        /\ store' = [store EXCEPT ![n] = {new}]
    BY <1>3 DEF Stores
  <2>2. version'[n] = version[n] + 1 /\ version[n] \in Nat
    BY <1>1, <2>1 DEF StoreOK
  <2>3. status \in StatusesOf(n)
    BY <1>1 DEF StatusesOf, StoredOf
  <2>4. new \in StoredOf(n) /\ new.version = version[n] + 1
    <3>1. version'[n] \in Nat
      BY <2>2
    <3> HIDE DEF status, n
    <3>2. new \in StoredOf(n) /\ new.version = version'[n]
      BY <1>1, <3>1, <2>3 DEF StoredOf
    <3> QED
      BY <3>2, <2>2
  <2> HIDE DEF n, new, status
  <2> QED
    BY <1>1, <2>1, <2>4, NextVersion
<1> QED
  BY <1>2, <1>3

\* Users write and delete.
LEMMA UsersInv == ASSUME StatusInv, Users PROVE StatusInv'
<1> USE DEF StatusInv, replicaVars
<1>1. ASSUME NEW n \in Resources, NEW spec \in Specs[KindOf[n]], Write(n, spec) PROVE StatusInv'
  <2> DEFINE s == [spec |-> spec, version |-> version'[n],
                   status |-> IF store[n] = {} THEN Pending ELSE (CHOOSE o \in store[n] : TRUE).status]
  <2>1. version' = [version EXCEPT ![n] = @ + 1] /\ store' = [store EXCEPT ![n] = {s}]
    BY <1>1 DEF Write, StoreOK
  <2>2. version'[n] = version[n] + 1 /\ version[n] \in Nat
    BY <2>1 DEF StoreOK
  <2>3. s.status \in StatusesOf(n)
    <3>1. CASE store[n] = {}
      BY <3>1 DEF StatusesOf
    <3>2. CASE store[n] # {}
      <4>1. (CHOOSE o \in store[n] : TRUE) \in store[n]
        BY <3>2
      <4> QED
        BY <3>2, <4>1 DEF StoreOK, StoredOf
    <3> QED
      BY <3>1, <3>2
  <2>4. s \in StoredOf(n) /\ s.version = version[n] + 1
    BY <2>2, <2>3 DEF StoredOf
  <2>5. /\ UNCHANGED <<informer, synced>> /\ queue' \in [Replicas -> SUBSET Resources]
        /\ work' = [r \in Replicas |-> work'[r]] /\ \A r \in Replicas : work'[r] \subseteq work[r]
    BY <1>1 DEF Write, WorkOK
  <2> HIDE DEF s
  <2> QED
    BY <2>1, <2>4, <2>5, NextVersion
<1>2. ASSUME NEW n \in Resources, Delete(n) PROVE StatusInv'
  <2>1. /\ UNCHANGED <<version, informer, synced, queue, work>>
        /\ store' = [m \in Resources |-> store'[m]]
        /\ \A m \in Resources : store'[m] \subseteq store[m]
    BY <1>2 DEF Delete, StoreOK
  <2>2. StoreOK' /\ \A m \in Resources : \A c : IsCopy(m, c) => IsCopy(m, c)'
    BY <2>1, NothingStored
  <2>3. InformersOK' /\ WorkOK'
    BY <2>1, <2>2 DEF InformersOK, WorkOK
  <2> QED
    BY <2>1, <2>2, <2>3
<1> QED
  BY <1>1, <1>2 DEF Users

\* What is stored is a copy of itself.
LEMMA StoredIsCopy ==
    ASSUME StatusInv, NEW n \in Resources
    PROVE  \A s \in store[n] : IsCopy(n, s) /\ \A o \in store[n] : o = s
BY DEF StatusInv, StoreOK, IsCopy, StoredOf

\* While nothing is stored copies stay copies.
LEMMA SameCopies ==
    ASSUME UNCHANGED <<store, version>>
    PROVE  /\ StoreOK => StoreOK'
           /\ \A n \in Resources : \A s : IsCopy(n, s) => IsCopy(n, s)'
BY DEF StoreOK, IsCopy, StoredOf, StatusesOf

\* A replica forgets everything, reads from its caches or from the API server.
LEMMA ReplicaReadsInv ==
    ASSUME StatusInv, NEW r \in Replicas,
           \/ Crash(r) \/ SyncTimesOut(r)
           \/ \E k \in Kinds : Sync(r, k)
           \/ \E n \in Resources : Observe(r, n) \/ Get(r, n)
    PROVE  StatusInv'
<1> USE DEF StatusInv, resourceVars
<1>0. /\ DOMAIN informer = Replicas /\ \A q \in Replicas : DOMAIN informer[q] = Resources
      /\ DOMAIN work = Replicas
  BY DEF InformersOK, WorkOK
<1>1. ASSUME Restart(r), UNCHANGED <<store, version>> PROVE StatusInv'
  <2>1. StoreOK' /\ \A n \in Resources : \A s : IsCopy(n, s) => IsCopy(n, s)'
    BY <1>1, SameCopies
  <2>2. synced' \in [Replicas -> SUBSET Kinds] /\ queue' \in [Replicas -> SUBSET Resources]
    BY <1>1 DEF Restart
  <2>3. /\ DOMAIN informer' = Replicas /\ informer'[r] = [n \in Resources |-> {}]
        /\ \A q \in Replicas : q # r => informer'[q] = informer[q]
        /\ DOMAIN work' = Replicas /\ work'[r] = {}
        /\ \A q \in Replicas : q # r => work'[q] = work[q]
        /\ informer' = [q \in Replicas |-> informer'[q]] /\ work' = [q \in Replicas |-> work'[q]]
    BY <1>0, <1>1 DEF Restart
  <2>4. InformersOK'
    BY <2>1, <2>3 DEF InformersOK
  <2>5. WorkOK'
    BY <2>1, <2>3 DEF WorkOK
  <2> QED
    BY <2>1, <2>2, <2>4, <2>5
<1>2. ASSUME NEW k \in Kinds, Sync(r, k) PROVE StatusInv'
  <2>1. StoreOK' /\ \A n \in Resources : \A s : IsCopy(n, s) => IsCopy(n, s)'
    BY <1>2, SameCopies DEF Sync
  <2>2. synced' \in [Replicas -> SUBSET Kinds] /\ queue' \in [Replicas -> SUBSET Resources]
    BY <1>2 DEF Sync
  <2>3. /\ informer' = [q \in Replicas |-> informer'[q]]
        /\ informer'[r] = [n \in Resources |-> IF KindOf[n] = k THEN store[n] ELSE informer[r][n]]
        /\ \A q \in Replicas : q # r => informer'[q] = informer[q]
    BY <1>0, <1>2 DEF Sync
  <2>4. InformersOK'
    <3>1. ASSUME NEW q \in Replicas, NEW n \in Resources, NEW s \in informer'[q][n]
          PROVE  IsCopy(n, s) /\ \A o \in informer'[q][n] : o = s
      <4>1. informer'[q][n] \in {store[n], informer[q][n]}
        BY <2>3
      <4> QED
        BY <4>1, <3>1, StoredIsCopy DEF InformersOK
    <3>2. \A q \in Replicas : informer'[q] = [n \in Resources |-> informer'[q][n]]
      BY <2>3 DEF InformersOK
    <3> QED
      BY <3>1, <3>2, <2>1, <2>3 DEF InformersOK
  <2>5. WorkOK'
    BY <1>2, <2>1 DEF WorkOK, Sync
  <2> QED
    BY <2>1, <2>2, <2>4, <2>5
<1>3. ASSUME NEW n \in Resources, Observe(r, n) PROVE StatusInv'
  <2>1. StoreOK' /\ \A m \in Resources : \A s : IsCopy(m, s) => IsCopy(m, s)'
    BY <1>3, SameCopies DEF Observe
  <2>2. synced' \in [Replicas -> SUBSET Kinds] /\ queue' \in [Replicas -> SUBSET Resources]
    BY <1>3 DEF Observe
  <2>3. /\ informer' = [q \in Replicas |-> informer'[q]]
        /\ informer'[r] = [m \in Resources |-> IF m = n THEN store[n] ELSE informer[r][m]]
        /\ \A q \in Replicas : q # r => informer'[q] = informer[q]
    BY <1>0, <1>3 DEF Observe
  <2>4. InformersOK'
    BY <2>1, <2>3, StoredIsCopy DEF InformersOK
  <2>5. WorkOK'
    BY <1>3, <2>1 DEF WorkOK, Observe
  <2> QED
    BY <2>1, <2>2, <2>4, <2>5
<1>4. ASSUME NEW n \in Resources, Get(r, n) PROVE StatusInv'
  <2>1. StoreOK' /\ \A m \in Resources : \A s : IsCopy(m, s) => IsCopy(m, s)'
    BY <1>4, SameCopies DEF Get
  <2>2. synced' \in [Replicas -> SUBSET Kinds] /\ queue' \in [Replicas -> SUBSET Resources]
    BY <1>4 DEF Get
  <2>3. InformersOK'
    BY <1>4, <2>1 DEF InformersOK, Get
  <2>4. /\ work' = [q \in Replicas |-> work'[q]]
        /\ work'[r] = work[r] \cup {[name |-> n, seen |-> s] : s \in informer[r][n]}
        /\ \A q \in Replicas : q # r => work'[q] = work[q]
    BY <1>0, <1>4 DEF Get
  <2>5. ASSUME NEW q \in Replicas, NEW w \in work'[q]
        PROVE  /\ w = [name |-> w.name, seen |-> w.seen] /\ w.name \in Resources
               /\ IsCopy(w.name, w.seen)
               /\ \A o \in work'[q] : KindOf[o.name] = KindOf[w.name] => o = w
    <3>1. CASE q # r
      BY <2>4, <2>5, <3>1 DEF WorkOK
    <3>2. CASE q = r
      <4>1. \A o \in work[r] : KindOf[o.name] # KindOf[n]
        BY <1>4 DEF Get
      <4>2. \A s \in informer[r][n] : IsCopy(n, s) /\ \A o \in informer[r][n] : o = s
        BY DEF InformersOK
      <4>3. w \in work[r] \/ \E s \in informer[r][n] : w = [name |-> n, seen |-> s]
        BY <2>4, <2>5, <3>2
      <4>4. \A o \in work'[q] : o \in work[r] \/ \E s \in informer[r][n] : o = [name |-> n, seen |-> s]
        BY <2>4, <3>2
      <4>5. CASE w \in work[r]
        BY <4>1, <4>4, <4>5 DEF WorkOK
      <4>6. CASE \E s \in informer[r][n] : w = [name |-> n, seen |-> s]
        BY <4>1, <4>2, <4>4, <4>6
      <4> QED
        BY <4>3, <4>5, <4>6
    <3> QED
      BY <3>1, <3>2
  <2>6. WorkOK'
    BY <2>1, <2>4, <2>5 DEF WorkOK
  <2> QED
    BY <2>1, <2>2, <2>3, <2>6
<1> QED
  BY <1>1, <1>2, <1>3, <1>4 DEF Crash, SyncTimesOut

\* A replica updates a status, or fails to.
LEMMA ReplicaWritesInv ==
    ASSUME StatusInv, NEW r \in Replicas, NEW w \in work[r], UpdateStatus(r, w) \/ UpdateFails(r, w)
    PROVE  StatusInv'
<1>1. /\ UNCHANGED <<informer, synced>>
      /\ \/ UNCHANGED <<store, version>>
         \/ \E s \in Current(w) : Stores(w.name, s, Verdict(w.name, w.seen.spec))
      /\ \E error \in BOOLEAN : Returns(r, w, error)
  BY DEF UpdateStatus, UpdateFails
<1>2. /\ queue' \in [Replicas -> SUBSET Resources]
      /\ work' = [q \in Replicas |-> work'[q]]
      /\ \A q \in Replicas : work'[q] \subseteq work[q]
  <2>1. w.name \in Resources /\ DOMAIN work = Replicas
    BY DEF StatusInv, WorkOK
  <2>2. queue' \in [Replicas -> SUBSET Resources]
    BY <1>1, <2>1 DEF Returns, StatusInv
  <2>3. work' = [work EXCEPT ![r] = @ \ {w}]
    BY <1>1 DEF Returns
  <2> QED
    BY <2>1, <2>2, <2>3
<1>3. CASE UNCHANGED <<store, version>>
  <2>1. StoreOK' /\ \A m \in Resources : \A s : IsCopy(m, s) => IsCopy(m, s)'
    BY <1>3, SameCopies DEF StatusInv
  <2>2. InformersOK'
    BY <1>1, <2>1 DEF InformersOK, StatusInv
  <2>3. WorkOK'
    BY <1>2, <2>1 DEF WorkOK, StatusInv
  <2> QED
    BY <1>1, <1>2, <2>1, <2>2, <2>3 DEF StatusInv
<1>4. CASE \E s \in Current(w) : Stores(w.name, s, Verdict(w.name, w.seen.spec))
  BY <1>1, <1>2, <1>4, StoresInv
<1> QED
  BY <1>1, <1>3, <1>4

\* Nothing is stored that was not there, and nothing is known of it.
LEMMA StatusInit == OperatorInit => StatusInv
<1> SUFFICES ASSUME OperatorInit PROVE StatusInv
  OBVIOUS
<1>1. PICK i \in Inputs :
        /\ store = [n \in Resources |->
                      {[spec |-> spec, status |-> Pending, version |-> 1] : spec \in i.stored[n]}]
        /\ version = [n \in Resources |-> Cardinality(i.stored[n])]
  BY DEF OperatorInit
<1>2. \A n \in Resources : i.stored[n] = {} \/ \E spec \in Specs[KindOf[n]] : i.stored[n] = {spec}
  BY OperatorAssumption DEF OperatorAssumption
<1>3. \A n \in Resources : /\ i.stored[n] = {} => Cardinality(i.stored[n]) = 0
                           /\ \A spec : i.stored[n] = {spec} => Cardinality(i.stored[n]) = 1
  BY FS_EmptySet, FS_Singleton
<1>4. StoreOK
  <2>1. version \in [Resources -> Nat]
    <3>1. \A n \in Resources : Cardinality(i.stored[n]) \in {0, 1}
      BY <1>2, <1>3
    <3> QED
      BY <1>1, <3>1
  <2>2. ASSUME NEW n \in Resources, NEW s \in store[n]
        PROVE  /\ s \in StoredOf(n) /\ s.version \in 1..version[n]
               /\ \A o \in store[n] : o = s
    <3>1. PICK spec \in Specs[KindOf[n]] : i.stored[n] = {spec}
      BY <1>1, <1>2, <2>2
    <3>2. store[n] = {[spec |-> spec, status |-> Pending, version |-> 1]} /\ version[n] = 1
      BY <1>1, <1>3, <3>1
    <3> QED
      BY <3>2 DEF StoredOf, StatusesOf
  <2> QED
    BY <1>1, <2>1, <2>2 DEF StoreOK
<1>5. InformersOK /\ WorkOK
  BY DEF OperatorInit, InformersOK, WorkOK
<1> QED
  BY <1>4, <1>5 DEF OperatorInit, StatusInv

\* Every step preserves the invariant of the resources.
LEMMA StatusNext == StatusInv /\ [OperatorNext]_operatorVars => StatusInv'
<1> SUFFICES ASSUME StatusInv, [OperatorNext]_operatorVars PROVE StatusInv'
  OBVIOUS
<1>1. CASE Users
  BY <1>1, UsersInv
<1>2. CASE Admit \/ UNCHANGED operatorVars
  <2>1. UNCHANGED <<store, version, synced, informer, queue, work>>
    BY <1>2 DEF Admit, operatorVars, resourceVars, replicaVars
  <2>2. StoreOK' /\ \A n \in Resources : \A s : IsCopy(n, s) => IsCopy(n, s)'
    BY <2>1, SameCopies DEF StatusInv
  <2> QED
    BY <2>1, <2>2 DEF StatusInv, InformersOK, WorkOK
<1>3. ASSUME NEW r \in Replicas, Replica(r) PROVE StatusInv'
  BY <1>3, ReplicaReadsInv, ReplicaWritesInv DEF Replica
<1> QED
  BY <1>1, <1>2, <1>3 DEF OperatorNext

\* The invariant of the resources holds in every reachable state.
THEOREM OperatorInvariant == OperatorSpec => []StatusInv
BY StatusInit, StatusNext, PTL DEF OperatorSpec

\* Resource versions, caches, queues and calls have their types, and a replica is
\* in one call of a controller at a time.
THEOREM OperatorTypeCorrect == OperatorSpec => []OperatorTypeOK
<1>1. StatusInv => OperatorTypeOK
  <2> SUFFICES ASSUME StatusInv PROVE OperatorTypeOK
    OBVIOUS
  <2>1. ASSUME NEW r \in Replicas PROVE Cardinality(work[r]) <= 2
    <3> DEFINE kind == [w \in work[r] |-> KindOf[w.name]]
    <3>1. kind \in Injection(work[r], Kinds)
      <4>1. \A w \in work[r] : KindOf[w.name] \in Kinds
        BY OperatorAssumption DEF OperatorAssumption, StatusInv, WorkOK
      <4>2. \A w, o \in work[r] : KindOf[o.name] = KindOf[w.name] => o = w
        BY DEF StatusInv, WorkOK
      <4> QED
        BY <4>1, <4>2 DEF Injection, IsInjective
    <3>2. IsFiniteSet({"FlowDefinition"}) /\ Cardinality({"FlowDefinition"}) = 1
      BY FS_Singleton
    <3>3. Kinds = {"FlowDefinition"} \cup {"LinkTarget"} /\ "LinkTarget" \notin {"FlowDefinition"}
      BY DEF Kinds
    <3>4. IsFiniteSet(Kinds) /\ Cardinality(Kinds) = 2
      BY <3>2, <3>3, FS_AddElement
    <3> QED
      BY <3>1, <3>4, FS_Injection
  <2>2. \A n \in Resources : \A s \in store[n] : s.version \in 1..version[n]
    BY DEF StatusInv, StoreOK
  <2>3. \A r \in Replicas : \A w \in work[r] : w.name \in Resources
    BY DEF StatusInv, WorkOK
  <2> QED
    BY <2>1, <2>2, <2>3 DEF StatusInv, StoreOK, OperatorTypeOK
<1> QED
  BY <1>1, OperatorInvariant, PTL

\* A status only ever becomes the verdict on the spec it is stored with, for every
\* number of replicas with caches as stale as can be (Reconcile, both controllers).
THEOREM OperatorVerdictOfItsSpec == OperatorSpec => VerdictOfItsSpec
<1> DEFINE Judged ==
      \A n \in Resources : \A old \in store[n], new \in store'[n] :
         new.status # old.status => new.spec = old.spec /\ new.status = Verdict(n, new.spec)
<1>1. ASSUME StatusInv, OperatorNext PROVE Judged
  <2> SUFFICES ASSUME NEW n \in Resources, NEW old \in store[n], NEW new \in store'[n],
                      new.status # old.status
               PROVE  new.spec = old.spec /\ new.status = Verdict(n, new.spec)
    OBVIOUS
  <2>0. /\ DOMAIN store = Resources /\ version[n] \in Nat
        /\ \A o \in store[n] : o = old /\ o \in StoredOf(n)
    BY <1>1 DEF StatusInv, StoreOK
  <2>1. store'[n] # store[n]
    BY <2>0
  <2>2. CASE Users
    <3>1. ASSUME NEW m \in Resources, NEW spec, Write(m, spec) PROVE FALSE
      <4>1. m = n /\ store'[n] = {[spec |-> spec, version |-> version'[n],
                                   status |-> IF store[n] = {} THEN Pending
                                              ELSE (CHOOSE o \in store[n] : TRUE).status]}
        BY <2>0, <2>1, <3>1 DEF Write
      <4>2. (CHOOSE o \in store[n] : TRUE) = old
        BY <2>0
      <4> QED
        BY <4>1, <4>2
    <3>2. ASSUME NEW m \in Resources, Delete(m) PROVE FALSE
      BY <2>0, <2>1, <3>2 DEF Delete
    <3> QED
      BY <2>2, <3>1, <3>2 DEF Users
  <2>3. CASE Admit
    BY <2>1, <2>3 DEF Admit, resourceVars
  <2>4. ASSUME NEW r \in Replicas, Replica(r) PROVE new.spec = old.spec /\ new.status = Verdict(n, new.spec)
    <3>1. PICK w \in work[r] : \E s \in Current(w) : Stores(w.name, s, Verdict(w.name, w.seen.spec))
      BY <2>1, <2>4 DEF Replica, Crash, SyncTimesOut, Sync, Observe, Get, UpdateStatus, UpdateFails,
                        resourceVars
    <3>2. PICK s \in Current(w) : Stores(w.name, s, Verdict(w.name, w.seen.spec))
      BY <3>1
    <3>3. w.name = n /\ store'[n] = {[s EXCEPT !.status = Verdict(n, w.seen.spec), !.version = version'[n]]}
      BY <2>0, <2>1, <3>2 DEF Stores
    <3>4. s = old /\ s.spec = w.seen.spec
      BY <1>1, <2>0, <3>2, <3>3 DEF Current, StatusInv, WorkOK, IsCopy
    <3>5. old = [spec |-> old.spec, status |-> old.status, version |-> old.version]
      BY <2>0 DEF StoredOf
    <3>6. new = [old EXCEPT !.status = Verdict(n, w.seen.spec), !.version = version'[n]]
      BY <3>3, <3>4
    <3>7. new.spec = old.spec /\ new.status = Verdict(n, w.seen.spec)
      BY <3>5, <3>6
    <3> QED
      BY <3>4, <3>7
  <2> QED
    BY <1>1, <2>2, <2>3, <2>4 DEF OperatorNext
<1>2. StatusInv /\ [OperatorNext]_operatorVars => [Judged]_operatorVars
  BY <1>1
<1> QED
  BY <1>2, OperatorInvariant, PTL DEF OperatorSpec, VerdictOfItsSpec

-----------------------------------------------------------------------------
(* The operator: the pod and its sidecar.                                  *)

\* p is o with one sidecar, which it asked for.
InjectedOnce(p, o) ==
    /\ Annotation(o, "inject") = {"true"}
    /\ p.containers = Append(o.containers, "fiso-link")
    /\ Annotation(p, "inject") = {"true"} /\ Annotation(p, "status") = {"injected"}

\* The inductive invariant of the pod: as it was submitted, or injected for good.
PodInv ==
    /\ \A p, o \in origin : p = o /\ IsPod(p)
    /\ \/ pods = origin
       \/ \A p \in pods, o \in origin : InjectedOnce(p, o)
    /\ \A p \in pods : \E o \in origin : p = o \/ InjectedOnce(p, o)

\* A pod that is patched gets its sidecar and its status.
LEMMA Patched ==
    ASSUME NEW p, IsPod(p), HandleAdmission(p) # <<>>
    PROVE  InjectedOnce(Apply(Apply(p, HandleAdmission(p)[1]), HandleAdmission(p)[2]), p)
<1>1. Annotation(p, "inject") = {"true"} /\ HandleAdmission(p) = BuildPatch(p)
  BY DEF HandleAdmission
<1>2. PICK a \in p.annotations : "inject" \in DOMAIN a /\ a["inject"] = "true"
  BY <1>1 DEF Annotation
<1>3. p.annotations = {a}
  BY DEF IsPod
<1> DEFINE op == BuildPatch(p)[1]
           q == Apply(p, op)
           b == [k \in DOMAIN a \cup {"status"} |-> IF k = "status" THEN "injected" ELSE a[k]]
<1>4. /\ op.path = (IF p.containers = <<>> THEN "/spec/containers" ELSE "/spec/containers/-")
      /\ op.value = "fiso-link"
      /\ BuildPatch(p)[2] = [path |-> "/metadata/annotations/status", value |-> "injected"]
  BY <1>3 DEF BuildPatch
<1>5. q = [p EXCEPT !.containers = Append(p.containers, "fiso-link")]
  <2>1. CASE p.containers = <<>>
    <3>1. Append(<<>>, "fiso-link") = <<"fiso-link">>
      OBVIOUS
    <3> QED
      BY <2>1, <3>1, <1>4 DEF Apply
  <2>2. CASE p.containers # <<>>
    BY <2>2, <1>4 DEF Apply
  <2> QED
    BY <2>1, <2>2
<1>6. q.containers = Append(p.containers, "fiso-link") /\ q.annotations = {a}
      /\ q = [annotations |-> q.annotations, containers |-> q.containers, decodes |-> q.decodes]
  BY <1>3, <1>5 DEF IsPod
<1> HIDE DEF q, op
<1> DEFINE r == Apply(q, [path |-> "/metadata/annotations/status", value |-> "injected"])
<1>7. r = [q EXCEPT !.annotations =
             {[k \in DOMAIN c \cup {"status"} |-> IF k = "status" THEN "injected" ELSE c[k]] : c \in q.annotations}]
  BY DEF Apply
<1>8. r.annotations = {b} /\ r.containers = Append(p.containers, "fiso-link")
  <2>1. {[k \in DOMAIN c \cup {"status"} |-> IF k = "status" THEN "injected" ELSE c[k]] : c \in q.annotations}
          = {b}
    BY <1>6
  <2> HIDE DEF b, r
  <2> QED
    BY <1>6, <1>7, <2>1
<1>9. Annotation(r, "inject") = {"true"} /\ Annotation(r, "status") = {"injected"}
  <2>1. "inject" \in DOMAIN b /\ b["inject"] = "true" /\ "status" \in DOMAIN b /\ b["status"] = "injected"
    BY <1>2
  <2> HIDE DEF b, r
  <2> QED
    BY <1>8, <2>1 DEF Annotation
<1> QED
  BY <1>1, <1>4, <1>8, <1>9 DEF InjectedOnce, q, op

\* However often a pod is admitted, it keeps what it had and gets at most one
\* sidecar, and only when it asked for it (handleAdmission, buildPatch).
THEOREM OperatorSidecarOnce == OperatorSpec => []SidecarOnce
<1>1. OperatorInit => PodInv
  BY OperatorAssumption DEF OperatorAssumption, OperatorInit, PodInv
<1>2. PodInv /\ [OperatorNext]_operatorVars => PodInv'
  <2> SUFFICES ASSUME PodInv, [OperatorNext]_operatorVars PROVE PodInv'
    OBVIOUS
  <2>1. CASE Admit
    <3>1. PICK p \in pods :
            /\ HandleAdmission(p) # <<>>
            /\ pods' = {Apply(Apply(p, HandleAdmission(p)[1]), HandleAdmission(p)[2])}
      BY <2>1 DEF Admit
    <3>2. \A o : ~InjectedOnce(p, o)
      BY <3>1 DEF InjectedOnce, HandleAdmission
    <3>3. p \in origin /\ IsPod(p) /\ \A o \in origin : o = p
      BY <3>1, <3>2 DEF PodInv
    <3>4. \A q \in pods', o \in origin : InjectedOnce(q, o)
      BY <3>1, <3>3, Patched
    <3>5. origin' = origin
      BY <2>1 DEF Admit
    <3>6. (\A q, o \in origin : q = o /\ IsPod(q)) /\ p \in origin
      BY <3>3 DEF PodInv
    <3> QED
      BY <3>4, <3>5, <3>6 DEF PodInv, InjectedOnce, IsPod, Annotation
  <2>2. CASE Users \/ (\E r \in Replicas : Replica(r)) \/ UNCHANGED operatorVars
    <3>1. UNCHANGED <<pods, origin>>
      BY <2>2 DEF Users, Write, Delete, Replica, Crash, SyncTimesOut, Sync, Observe, Get, UpdateStatus,
                  UpdateFails, operatorVars, podVars
    <3> QED
      BY <3>1 DEF PodInv, InjectedOnce, IsPod, Annotation
  <2> QED
    BY <2>1, <2>2 DEF OperatorNext
<1>3. PodInv => SidecarOnce
  BY DEF PodInv, SidecarOnce, InjectedOnce
<1> QED
  BY <1>1, <1>2, <1>3, PTL DEF OperatorSpec
=============================================================================
