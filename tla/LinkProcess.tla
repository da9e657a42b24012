------------------------------ MODULE LinkProcess ------------------------------
(***************************************************************************)
(* The life of a Link program (cmd/fiso-link and cmd/fiso-wasmer-link) and *)
(* what its requests go through before and after the upstream call: the    *)
(* configuration is loaded, interceptors are made one by one and kept in   *)
(* the registry (internal/link/interceptor), the servers start, and on     *)
(* SIGTERM they are drained for ten seconds before the deferred calls      *)
(* close the runtimes; a server that fails ends run() without draining.    *)
(* Meanwhile each request looks its target's host up through the DNS cache *)
(* (internal/link/discovery), gets its credentials, and passes the         *)
(* outbound and the inbound chain of its target.                           *)
(*                                                                         *)
(* Breaker, limiter, retries and the Kafka publishers are LinkProxy and    *)
(* KafkaProxy: here their refusal is one way for a request to fail.        *)
(* DNS answers with an address that was right at some moment of the        *)
(* lookup; the address is that moment.                                     *)
(***************************************************************************)
EXTENDS LinkConfig, SequencesExt

CONSTANTS
    Configs,      \* configurations of the file: targets as written, and clusters
    Requests,     \* requests clients send, one each (model bound)
    TTL,          \* the cache's time to live
    LookupTime,   \* the longest lookup the resolver makes
    MaxTime       \* bound on the clock

\* What the YAML decoder makes of a file: every key of a target's struct, lists,
\* and numbers where it says a value is one.
TargetKeys == {"name", "protocol", "host", "port", "auth", "secret", "breaker", "retry", "limit",
               "kafka", "interceptors"}
IsScalar(raw) == raw.kind \in {"int", "float", "infinite"} => raw.n \in Int
IsTarget(raw) ==
    /\ raw = [key \in TargetKeys |-> raw[key]]
    /\ IsScalar(raw.breaker.failureThreshold) /\ IsScalar(raw.breaker.successThreshold)
    /\ IsScalar(raw.retry.maxAttempts)
    /\ IsScalar(raw.limit.requestsPerSecond) /\ IsScalar(raw.limit.burst)
    /\ raw.interceptors \in Seq(ToSet(raw.interceptors))
IsFile(c) ==
    /\ c = [targets |-> c.targets, clusters |-> c.clusters]
    /\ c.targets \in Seq(ToSet(c.targets))
    /\ \A raw \in ToSet(c.targets) : IsTarget(raw)

ASSUME LinkProcessAssumption ==
    /\ TTL \in Nat /\ LookupTime \in Nat /\ MaxTime \in Nat
    /\ \A c \in Configs : IsFile(c)

VARIABLES
    config,     \* the file
    \* run()
    main,       \* "load", "targets", "serving", "draining", "closing", "locked",
                \* "closed", "ended"
    targets,    \* the targets of the accepted file
    undrained,  \* "no", or why the servers were not drained: "cut" or "failed"
    \* the interceptor registry; a runtime is <<target, interceptor>>
    current,    \* the target Load is at
    making,     \* runtimes made for it so far, in order
    open,       \* runtimes that hold their resources
    kept,       \* Registry.runtimes
    chained,    \* the targets whose chains are in Registry.chains
    \* the DNS resolver
    now,        \* the clock
    cache,      \* cache[h]: {} or {[addr, expiresAt]}
    \* the requests
    req         \* req[q]: how far it is, see New

mainVars == <<config, main, targets, undrained>>
registryVars == <<current, making, open, kept, chained>>
dnsVars == <<now, cache>>
vars == <<mainVars, registryVars, dnsVars, req>>

\* A request: the target it got, whether it and its answer have a body, when its
\* lookup began, the age of the address it was given, the runtimes of its chain
\* still to call, and those that were called for it.
New == [at |-> "new", target |-> 0, body |-> FALSE, reply |-> FALSE, since |-> 0, age |-> 0,
        chain |-> {}, passed |-> {}]
Failed == [New EXCEPT !.at = "failed"]

Hosts == {t.host : t \in UNION {ToSet(c.targets) : c \in Configs}}
Names == {t.name : t \in UNION {ToSet(c.targets) : c \in Configs}}
InFlight == {q \in Requests : req[q].at \notin {"new", "answered", "failed"}}
Alive == main # "ended"
Interceptors(i) == targets[i].interceptors
Configured == {i \in DOMAIN targets : Interceptors(i) # <<>>}

Init ==
    /\ config \in Configs
    /\ main = "load" /\ targets = <<>> /\ undrained = "no"
    /\ current = 1 /\ making = <<>> /\ open = {} /\ kept = {} /\ chained = {}
    /\ now = 0 /\ cache = [h \in Hosts |-> {}]
    /\ req = [q \in Requests |-> New]

-----------------------------------------------------------------------------
(* run(): the configuration, the applications, the interceptors.           *)

\* run() returns, and its deferred calls run.  The requests in flight go on
\* meanwhile.
Return == main' = "closing"

\* The file is read and accepted; or it is not, or an application of
\* fiso-wasmer-link does not start, and run() returns with nothing to close.
LoadConfig ==
    /\ main = "load"
    /\ LET decoded == [config EXCEPT !.targets = [i \in DOMAIN config.targets |-> Decode(config.targets[i])]]
       IN  \/ ValidLinkConfig(decoded) /\ targets' = decoded.targets /\ main' = "targets"
           \/ main' = "ended" /\ UNCHANGED targets
    /\ UNCHANGED <<config, undrained, registryVars, dnsVars, req>>

\* Mutant: the runtimes made for the target that fails stay open.
MakeInterceptor_Leaks ==
    /\ main = "targets"
    /\ current <= Len(targets) /\ Len(making) < Len(Interceptors(current))
    /\ LET n == Len(making) + 1 IN
         IF CreateInterceptor(Interceptors(current)[n]) # {}
         THEN /\ making' = Append(making, <<current, n>>)
              /\ open' = open \cup {<<current, n>>}
              /\ UNCHANGED main
         ELSE making' = <<>> /\ Return /\ UNCHANGED open
    /\ UNCHANGED <<config, targets, undrained, current, kept, chained, dnsVars, req>>

\* The next interceptor of the current target: its runtime is made, or those of
\* the target are closed and Load fails.
MakeInterceptor ==
    /\ main = "targets"
    /\ current <= Len(targets) /\ Len(making) < Len(Interceptors(current))
    /\ LET n == Len(making) + 1 IN
         IF CreateInterceptor(Interceptors(current)[n]) # {}
         THEN /\ making' = Append(making, <<current, n>>)
              /\ open' = open \cup {<<current, n>>}
              /\ UNCHANGED main
         ELSE /\ open' = open \ ToSet(making)
              /\ making' = <<>>
              /\ Return
    /\ UNCHANGED <<config, targets, undrained, current, kept, chained, dnsVars, req>>

\* The chains of a target are complete.
KeepChains ==
    /\ main = "targets"
    /\ current <= Len(targets) /\ Len(making) = Len(Interceptors(current))
    /\ kept' = kept \cup ToSet(making)
    /\ chained' = IF making = <<>> THEN chained ELSE chained \cup {current}
    /\ making' = <<>>
    /\ current' = current + 1
    /\ UNCHANGED <<mainVars, open, dnsVars, req>>

\* Everything is made: the servers start.
Serve ==
    /\ main = "targets"
    /\ current > Len(targets)
    /\ main' = "serving"
    /\ UNCHANGED <<config, targets, undrained, registryVars, dnsVars, req>>

-----------------------------------------------------------------------------
(* run(), from the signal or the error of a server to its end.             *)

\* SIGINT or SIGTERM: Shutdown accepts no request more.
Signal ==
    /\ main = "serving"
    /\ main' = "draining"
    /\ UNCHANGED <<config, targets, undrained, registryVars, dnsVars, req>>

\* The metrics server or the proxy's fails.
ServerFails ==
    /\ main = "serving"
    /\ undrained' = "failed"
    /\ Return
    /\ UNCHANGED <<config, targets, registryVars, dnsVars, req>>

\* Mutant: Shutdown does not wait.
Drained_AtOnce ==
    /\ main = "draining"
    /\ Return
    /\ UNCHANGED <<config, targets, undrained, registryVars, dnsVars, req>>

\* Shutdown returns when no request is left.
Drained ==
    /\ main = "draining"
    /\ InFlight = {}
    /\ Return
    /\ UNCHANGED <<config, targets, undrained, registryVars, dnsVars, req>>

\* Ten seconds are over.
DrainCut ==
    /\ main = "draining"
    /\ InFlight # {}
    /\ undrained' = "cut"
    /\ Return
    /\ UNCHANGED <<config, targets, registryVars, dnsVars, req>>

\* The deferred call has come to Registry.Close, which takes its lock.
LockRegistry ==
    /\ main = "closing"
    /\ main' = "locked"
    /\ UNCHANGED <<config, targets, undrained, registryVars, dnsVars, req>>

\* Registry.Close, under its lock: one runtime after the other, errors or not.
CloseRuntime(r) ==
    /\ main = "locked"
    /\ r \in kept
    /\ open' = open \ {r}
    /\ kept' = kept \ {r}
    /\ UNCHANGED <<mainVars, current, making, chained, dnsVars, req>>

\* Registry.Close forgets the chains and releases its lock.
ForgetChains ==
    /\ main = "locked"
    /\ kept = {}
    /\ chained' = {}
    /\ main' = "closed"
    /\ UNCHANGED <<config, targets, undrained, current, making, open, kept, dnsVars, req>>

End ==
    /\ main = "closed"
    /\ main' = "ended"
    /\ UNCHANGED <<config, targets, undrained, registryVars, dnsVars, req>>

-----------------------------------------------------------------------------
(* A request, up to the upstream call.                                     *)

Is(q, step) == req[q].at = step /\ Alive
Becomes(q, r) == req' = [req EXCEPT ![q] = r]
Goes(q, step) == Becomes(q, [req[q] EXCEPT !.at = step])
Fails(q) == Becomes(q, Failed)
TargetOf(q) == targets[req[q].target]

\* The proxy's server accepts until Shutdown; nobody shuts it down when a
\* server has failed.
Accepting == main = "serving" \/ (main \in {"closing", "locked", "closed"} /\ undrained = "failed")

\* The target is found, and the breaker, the limiter and the path let the request
\* pass; or one of them does not.
Accept(q, i, body) ==
    /\ Is(q, "new")
    /\ Accepting
    /\ i \in LastWith(targets, targets[i].name, DOMAIN targets)
    /\ \/ Becomes(q, [New EXCEPT !.target = i, !.body = body,
                                 !.at = IF targets[i].protocol = "kafka" THEN "getOutbound" ELSE "resolve"])
       \/ Fails(q)
    /\ UNCHANGED <<mainVars, registryVars, dnsVars>>

\* The request takes an entry of the cache, or begins a lookup without one.
UseEntry(q, entries) ==
    \/ \E e \in entries : Becomes(q, [req[q] EXCEPT !.at = "credentials", !.age = now - e.addr])
    \/ entries = {} /\ Becomes(q, [req[q] EXCEPT !.at = "lookup", !.since = now])

\* Mutant: an entry of the cache does not expire.
Resolve_NoExpiry(q) ==
    /\ Is(q, "resolve")
    /\ UseEntry(q, cache[TargetOf(q).host])
    /\ UNCHANGED <<mainVars, registryVars, dnsVars>>

\* The cache is read under its lock; a lookup starts outside it.
Resolve(q) ==
    /\ Is(q, "resolve")
    /\ UseEntry(q, {e \in cache[TargetOf(q).host] : now < e.expiresAt})
    /\ UNCHANGED <<mainVars, registryVars, dnsVars>>

\* The answer is cached, over that of a lookup which began later perhaps.
LookupAnswers(q, addr) ==
    /\ Is(q, "lookup")
    /\ addr \in req[q].since..now
    /\ cache' = [cache EXCEPT ![TargetOf(q).host] = {[addr |-> addr, expiresAt |-> now + TTL]}]
    /\ Becomes(q, [req[q] EXCEPT !.at = "credentials", !.since = 0, !.age = now - addr])
    /\ UNCHANGED <<mainVars, registryVars, now>>

LookupFails(q) ==
    /\ Is(q, "lookup")
    /\ Fails(q)
    /\ UNCHANGED <<mainVars, registryVars, dnsVars>>

\* Time passes; no lookup takes longer than LookupTime.
Tick ==
    /\ main \in {"serving", "draining", "closing", "locked", "closed"}
    /\ now < MaxTime
    /\ \A q \in Requests : req[q].at = "lookup" => now - req[q].since < LookupTime
    /\ now' = now + 1
    /\ UNCHANGED <<mainVars, registryVars, cache, req>>

\* The credentials and the body are read.
Credentials(q) ==
    /\ Is(q, "credentials")
    /\ \/ /\ GetCredentials(targets, TargetOf(q).name) # {}
          /\ Becomes(q, [req[q] EXCEPT !.at = "getOutbound", !.age = 0])
       \/ Fails(q)
    /\ UNCHANGED <<mainVars, registryVars, dnsVars>>

-----------------------------------------------------------------------------
(* A request in the chains of its target.                                  *)

\* The runtimes of one phase in the chains that a name has.
Chain(name, inbound) ==
    UNION {{<<i, n>> : n \in {m \in DOMAIN Interceptors(i) : IsInbound(Interceptors(i)[m]) = inbound}} :
             i \in LastWith(targets, name, Configured) \cap chained}

\* GetChains waits while Close holds the lock; without a body no chain runs.
GetChains(q) ==
    LET inbound == req[q].at = "getInbound"
        body == IF inbound THEN req[q].reply ELSE req[q].body
    IN  /\ req[q].at \in {"getOutbound", "getInbound"} /\ Alive
        /\ main # "locked"
        /\ Becomes(q, [req[q] EXCEPT !.at = IF inbound THEN "inbound" ELSE "outbound",
                                     !.chain = IF body THEN Chain(TargetOf(q).name, inbound) ELSE {}])
        /\ UNCHANGED <<mainVars, registryVars, dnsVars>>

\* Chain.Process calls the next interceptor.  It fails when its runtime is
\* closed, or for a reason of its own; with failOpen the chain goes on.
CallInterceptor(q) ==
    /\ req[q].at \in {"outbound", "inbound"} /\ Alive
    /\ \E r \in req[q].chain :
         /\ \A other \in req[q].chain : r[2] <= other[2]
         /\ \/ /\ r \in open \/ Interceptors(r[1])[r[2]].failOpen
               /\ Becomes(q, [req[q] EXCEPT !.chain = @ \ {r}, !.passed = @ \cup ({r} \cap open)])
            \/ ~Interceptors(r[1])[r[2]].failOpen /\ Fails(q)
    /\ UNCHANGED <<mainVars, registryVars, dnsVars>>

ChainEnds(q) ==
    /\ req[q].at \in {"outbound", "inbound"} /\ Alive
    /\ req[q].chain = {}
    /\ Goes(q, IF req[q].at = "inbound" THEN "answered" ELSE "upstream")
    /\ UNCHANGED <<mainVars, registryVars, dnsVars>>

\* The upstream answers, with a body or not, or the retries give up, or its error
\* is forwarded as it is; a Kafka target publishes and answers.
Upstream(q, reply) ==
    /\ Is(q, "upstream")
    /\ \/ TargetOf(q).protocol = "kafka" /\ Goes(q, "answered")
       \/ TargetOf(q).protocol # "kafka" /\ Becomes(q, [req[q] EXCEPT !.at = "getInbound", !.reply = reply])
       \/ Fails(q)
    /\ UNCHANGED <<mainVars, registryVars, dnsVars>>

Run ==
    \/ LoadConfig \/ MakeInterceptor \/ KeepChains \/ Serve
    \/ Signal \/ ServerFails \/ Drained \/ DrainCut \/ LockRegistry \/ ForgetChains \/ End
    \/ \E r \in kept : CloseRuntime(r)

ServeHTTP(q) ==
    \/ \E i \in DOMAIN targets, body \in BOOLEAN : Accept(q, i, body)
    \/ Resolve(q) \/ LookupFails(q) \/ Credentials(q)
    \/ \E addr \in 0..now : LookupAnswers(q, addr)
    \/ GetChains(q) \/ CallInterceptor(q) \/ ChainEnds(q)
    \/ \E reply \in BOOLEAN : Upstream(q, reply)

Next == Run \/ Tick \/ \E q \in Requests : ServeHTTP(q)

Spec == Init /\ [][Next]_vars

-----------------------------------------------------------------------------
(* Correctness.                                                            *)

TypeOK ==
    /\ main \in {"load", "targets", "serving", "draining", "closing", "locked", "closed", "ended"}
    /\ undrained \in {"no", "cut", "failed"}
    /\ current \in 1..Len(targets) + 1
    /\ chained \subseteq 1..Len(targets)
    /\ now \in 0..MaxTime
    /\ \A q \in Requests : req[q].age \in Nat

\* A configuration that was accepted gives every target it serves what the
\* breaker, the proxies and the publisher pool take for granted: thresholds,
\* attempts and a burst of one at least, a host or a cluster that can be used,
\* whatever number or text the file held and whichever target the name took each
\* from (LoadConfig, Validate, run).  CircuitBreaker, LinkProxy and KafkaProxy
\* assume it of their constants.
ConfigFits ==
    \A t \in UNION {Target(targets, n) : n \in Names} :
        /\ \A b \in BreakerOf(targets, t.name) : b.failureThreshold >= 1 /\ b.successThreshold >= 1
        /\ \A burst \in LimiterOf(targets, t.name) : burst >= 1
        /\ MaxAttemptsOf(t) >= 1
        /\ IF t.protocol = "kafka"
           THEN \E k \in t.kafka : k.cluster \in DOMAIN config.clusters /\ ValidCluster(config.clusters[k.cluster])
           ELSE t.host # ""

\* A request that went well in a program that drained its servers has had
\* every interceptor of its target called, each on a runtime that was open: one
\* for its own body, the others for the answer's (Registry.ProcessOutbound,
\* ProcessInbound, Close).
Intercepted ==
    \A q \in Requests : req[q].at = "answered" /\ undrained = "no" =>
        \A n \in DOMAIN Interceptors(req[q].target) :
            \/ <<req[q].target, n>> \in req[q].passed
            \/ IsInbound(Interceptors(req[q].target)[n]) /\ ~req[q].reply
            \/ ~IsInbound(Interceptors(req[q].target)[n]) /\ ~req[q].body

\* No runtime is lost: what is open is in the registry or belongs to the target
\* that is being loaded, and when the process ends nothing is open, however
\* loading failed (Registry.Load, Close).
RuntimesClosed ==
    /\ open = kept \cup ToSet(making)
    /\ main = "ended" => open = {}

\* An address is never older than the time to live and one lookup together,
\* though lookups overlap and an older one may be cached last (Resolve).
FreshAddress == \A q \in Requests : req[q].age <= TTL + LookupTime
=============================================================================
