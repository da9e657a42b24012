------------------------------ MODULE KafkaProxy ------------------------------
(***************************************************************************)
(* The Kafka targets of fiso-link: concurrent requests of                  *)
(* internal/link/proxy/kafka.go ServeHTTP, the publisher pool they share   *)
(* (internal/kafka/pool.go), which makes a cluster's client when it is     *)
(* first asked for, and the process that drains the requests and closes    *)
(* the pool (cmd/fiso-link run).                                           *)
(*                                                                         *)
(* A request slot belongs to a target, and is used again by the target's   *)
(* next request.  The slots in Callers belong to the one target whose      *)
(* circuit breaker is modelled; the others' targets have none.  A client   *)
(* is known by its number among those made for its cluster.  ProduceSync   *)
(* and net/http are modelled from how the source uses them: a publish that *)
(* failed may have written its record, one on a closed client fails.       *)
(***************************************************************************)
EXTENDS CircuitBreaker

CONSTANTS
    Requests,       \* request slots, Callers among them
    Clusters,       \* clusters of the registry
    ClusterOf,      \* ClusterOf[r]: the cluster of the slot's target
    MaxRetries      \* attempts: retry.maxAttempts, or 3

ASSUME KafkaProxyAssumption ==
    /\ Callers \subseteq Requests
    /\ ClusterOf \in [Requests -> Clusters]
    /\ MaxRetries \in Nat \ {0}

VARIABLES
    \* the publisher pool
    clients,    \* clients[c]: the cluster's client in the pool, 0 for none
    made,       \* made[c]: clients made for the cluster so far
    closed,     \* clients that are closed
    \* the requests
    pc,         \* pc[r]: the request's next step
    client,     \* client[r]: the client of its publisher
    attempt,    \* attempt[r]: attempts made
    copies,     \* copies[r]: times its record was written to the topic
    answer,     \* answer[r]: what the client of the proxy got
    \* the process
    main,       \* run(): "serving", "draining", "closing", "closed", "exited"
    accepting,  \* the proxy server accepts requests
    forced      \* the pool is closed without waiting for the requests

poolVars == <<clients, made, closed>>
requestVars == <<pc, client, attempt, copies, answer>>
processVars == <<main, accepting, forced>>
vars == <<breakerVars, poolVars, requestVars, processVars>>

Early == {"rejected", "503", "unprepared", "500"}   \* answers before anything is published

KafkaInit ==
    /\ Init
    /\ clients = [c \in Clusters |-> 0]
    /\ made = [c \in Clusters |-> 0]
    /\ closed = {}
    /\ pc = [r \in Requests |-> "idle"]
    /\ client = [r \in Requests |-> 0]
    /\ attempt = [r \in Requests |-> 0]
    /\ copies = [r \in Requests |-> 0]
    /\ answer = [r \in Requests |-> "none"]
    /\ main = "serving"
    /\ accepting = TRUE
    /\ forced = FALSE

Alive == main # "exited"

\* The request is at step from and goes to step to.
Goes(r, from, to) == Alive /\ pc[r] = from /\ pc' = [pc EXCEPT ![r] = to]

Say(r, a) == answer' = [answer EXCEPT ![r] = a]

\* A step of the target's breaker, if the target has one.
Tells(r, step) == IF r \in Callers THEN step ELSE UNCHANGED breakerVars

Active == {r \in Requests : pc[r] \notin {"idle", "answered"}}

-----------------------------------------------------------------------------
(* ServeHTTP up to the publisher.                                          *)

\* The server accepts a request for the slot's target.
Accept(r) ==
    /\ Alive /\ accepting
    /\ pc[r] \in {"idle", "answered"}
    /\ pc' = [pc EXCEPT ![r] = "allow"]
    /\ attempt' = [attempt EXCEPT ![r] = 0]
    /\ copies' = [copies EXCEPT ![r] = 0]
    /\ client' = [client EXCEPT ![r] = 0]
    /\ Say(r, "none")
    /\ UNCHANGED <<breakerVars, poolVars, processVars>>

\* No POST, or a path that names no Kafka target.
Reject(r) ==
    /\ Goes(r, "allow", "answered")
    /\ Say(r, "rejected")
    /\ UNCHANGED <<breakerVars, poolVars, client, attempt, copies, processVars>>

\* The circuit is open.
Refuse(r) ==
    /\ Goes(r, "allow", "answered")
    /\ r \in Callers /\ Refuses
    /\ Say(r, "503")
    /\ UNCHANGED <<breakerVars, poolVars, client, attempt, copies, processVars>>

\* The breaker admits the request, or there is none.
Admit(r) ==
    /\ Goes(r, "allow", "prepare")
    /\ Tells(r, Allow(r))
    /\ UNCHANGED <<poolVars, client, attempt, copies, answer, processVars>>

\* Rate limit, body, outbound interceptors and key: all fine, or an answer that the
\* breaker hears nothing of.
Prepare(r) ==
    /\ \/ Goes(r, "prepare", "get") /\ UNCHANGED <<breakerVars, answer>>
       \/ Goes(r, "prepare", "answered") /\ Say(r, "unprepared") /\ Tells(r, Abandon(r))
    /\ UNCHANGED <<poolVars, client, attempt, copies, processVars>>

-----------------------------------------------------------------------------
(* PublisherPool.Get.                                                      *)

\* The fast path: the client is there, under the read lock, or it is not.
GetFast(r) ==
    /\ IF clients[ClusterOf[r]] # 0
       THEN /\ Goes(r, "get", "publish")
            /\ client' = [client EXCEPT ![r] = clients[ClusterOf[r]]]
       ELSE Goes(r, "get", "create") /\ UNCHANGED client
    /\ UNCHANGED <<breakerVars, poolVars, attempt, copies, answer, processVars>>

\* A client is made and put into the pool.
MakeClient(r) ==
    LET c == ClusterOf[r] IN
    /\ made' = [made EXCEPT ![c] = @ + 1]
    /\ clients' = [clients EXCEPT ![c] = made[c] + 1]
    /\ client' = [client EXCEPT ![r] = made[c] + 1]
    /\ UNCHANGED closed

\* Mutant: the slow path does not look again.
GetSlow_NoDoubleCheck(r) ==
    /\ Goes(r, "create", "publish")
    /\ MakeClient(r)
    /\ UNCHANGED <<breakerVars, attempt, copies, answer, processVars>>

\* The slow path, under the write lock: another request may have made the client
\* meanwhile; or the cluster is unknown, or its options or its client fail.
GetSlow(r) ==
    /\ \/ /\ Goes(r, "create", "publish")
          /\ IF clients[ClusterOf[r]] # 0
             THEN client' = [client EXCEPT ![r] = clients[ClusterOf[r]]] /\ UNCHANGED poolVars
             ELSE MakeClient(r)
          /\ UNCHANGED <<breakerVars, answer>>
       \/ /\ Goes(r, "create", "answered")
          /\ clients[ClusterOf[r]] = 0
          /\ Say(r, "500")
          /\ Tells(r, Abandon(r))
          /\ UNCHANGED <<poolVars, client>>
    /\ UNCHANGED <<attempt, copies, processVars>>

-----------------------------------------------------------------------------
(* The publish loop.                                                       *)

Usable(r) == <<ClusterOf[r], client[r]>> \notin closed

Written(r) == Usable(r) /\ copies' = [copies EXCEPT ![r] = @ + 1]

\* Publish returns nil.
PublishOk(r) ==
    /\ Goes(r, "publish", "published")
    /\ Written(r)
    /\ attempt' = [attempt EXCEPT ![r] = @ + 1]
    /\ UNCHANGED <<breakerVars, poolVars, client, answer, processVars>>

\* Mutant: a failed attempt does not count.
PublishError_NoCount(r) ==
    /\ IF attempt[r] + 1 < MaxRetries
       THEN Goes(r, "publish", "publish")
       ELSE Goes(r, "publish", "failed")
    /\ UNCHANGED <<breakerVars, poolVars, client, attempt, copies, answer, processVars>>

\* Publish returns an error, with the record written or not.  The next attempt
\* follows at once: the select between the attempts finds the attempt's context
\* cancelled, and its break leaves the select only.
PublishError(r) ==
    /\ IF attempt[r] + 1 < MaxRetries
       THEN Goes(r, "publish", "publish")
       ELSE Goes(r, "publish", "failed")
    /\ Written(r) \/ UNCHANGED copies
    /\ attempt' = [attempt EXCEPT ![r] = @ + 1]
    /\ UNCHANGED <<breakerVars, poolVars, client, answer, processVars>>

\* Mutant: the answer does not depend on the last attempt's error.
Report_Always200(r) ==
    /\ \/ Goes(r, "published", "answered") /\ Tells(r, RecordSuccess(r))
       \/ Goes(r, "failed", "answered") /\ Tells(r, RecordFailure(r))
    /\ Say(r, "200")
    /\ UNCHANGED <<poolVars, client, attempt, copies, processVars>>

\* The breaker hears of the outcome, then the request is answered.
Report(r) ==
    /\ \/ Goes(r, "published", "answered") /\ Tells(r, RecordSuccess(r)) /\ Say(r, "200")
       \/ Goes(r, "failed", "answered") /\ Tells(r, RecordFailure(r)) /\ Say(r, "502")
    /\ UNCHANGED <<poolVars, client, attempt, copies, processVars>>

-----------------------------------------------------------------------------
(* run(): serve, drain, and the deferred Close of the pool.                *)

\* SIGINT or SIGTERM: proxyServer.Shutdown stops accepting.
Signal ==
    /\ main = "serving"
    /\ main' = "draining"
    /\ accepting' = FALSE
    /\ UNCHANGED <<breakerVars, poolVars, requestVars, forced>>

\* The proxy or the metrics server failed: run returns without a shutdown.
ServerFails ==
    /\ main = "serving"
    /\ main' = "closing"
    /\ accepting' \in BOOLEAN
    /\ forced' = TRUE
    /\ UNCHANGED <<breakerVars, poolVars, requestVars>>

\* Mutant: run does not wait for Shutdown.
Drain_NoWait ==
    /\ main = "draining"
    /\ main' = "closing"
    /\ UNCHANGED <<breakerVars, poolVars, requestVars, accepting, forced>>

\* Shutdown returns: every request is answered, or ten seconds are over.
Drain ==
    /\ main = "draining"
    /\ main' = "closing"
    /\ \/ Active = {} /\ UNCHANGED forced
       \/ forced' = TRUE
    /\ UNCHANGED <<breakerVars, poolVars, requestVars, accepting>>

\* PublisherPool.Close, deferred.
ClosePool ==
    /\ main = "closing"
    /\ main' = "closed"
    /\ closed' = closed \cup {<<c, clients[c]>> : c \in {d \in Clusters : clients[d] # 0}}
    /\ clients' = [c \in Clusters |-> 0]
    /\ UNCHANGED <<breakerVars, made, requestVars, accepting, forced>>

\* run returns; its requests' goroutines end with the process.
Exit ==
    /\ main = "closed"
    /\ main' = "exited"
    /\ UNCHANGED <<breakerVars, poolVars, requestVars, accepting, forced>>

Time == Alive /\ Tick /\ UNCHANGED <<poolVars, requestVars, processVars>>

-----------------------------------------------------------------------------
Serve(r) ==
    \/ Reject(r) \/ Refuse(r) \/ Admit(r) \/ Prepare(r) \/ GetFast(r) \/ GetSlow(r)
    \/ PublishOk(r) \/ PublishError(r) \/ Report(r)

Shutdown == Drain \/ ClosePool \/ Exit

KafkaNext ==
    \/ \E r \in Requests : Accept(r) \/ Serve(r)
    \/ Signal \/ ServerFails \/ Shutdown \/ Time

KafkaSpec == KafkaInit /\ [][KafkaNext]_vars

(***************************************************************************)
(* A request's goroutine is scheduled, and its publish returns within its  *)
(* timeout.  Clients, signals and failures owe nothing.                    *)
(***************************************************************************)
KafkaFairSpec == KafkaSpec /\ \A r \in Requests : WF_vars(Serve(r))

-----------------------------------------------------------------------------
(* Properties.                                                             *)

\* The types of the pool's, the requests' and the process's state.
KafkaTypeOK ==
    /\ BreakerTypeOK
    /\ clients \in [Clusters -> Nat]
    /\ made \in [Clusters -> Nat]
    /\ closed \subseteq Clusters \X Nat
    /\ pc \in [Requests -> {"idle", "allow", "prepare", "get", "create", "publish",
                            "published", "failed", "answered"}]
    /\ client \in [Requests -> Nat]
    /\ attempt \in [Requests -> 0..MaxRetries]
    /\ copies \in [Requests -> Nat]
    /\ answer \in [Requests -> {"none", "200", "502"} \cup Early]
    /\ main \in {"serving", "draining", "closing", "closed", "exited"}
    /\ accepting \in BOOLEAN
    /\ forced \in BOOLEAN

\* Every client ever made is the one in the pool or closed, and before the pool is
\* closed a cluster has one at most, however many requests ask for it at once.
NoClientLost ==
    \A c \in Clusters :
        /\ \A n \in 1..made[c] : n = clients[c] \/ <<c, n>> \in closed
        /\ main \in {"serving", "draining", "closing"} => made[c] <= 1

\* A request's client is closed under it only when the drain was cut short.
ClosedAfterUse ==
    \A r \in Requests : pc[r] = "publish" /\ ~Usable(r) => forced

\* The answer tells what happened: 200 means the record is in the topic, an early
\* answer that it is not, and no record is there more often than it was tried.
AnswerTruthful ==
    \A r \in Requests :
        /\ answer[r] = "200" => copies[r] > 0
        /\ answer[r] \in Early => copies[r] = 0
        /\ copies[r] <= attempt[r]

\* The breaker's callers are the requests of its target between admission and
\* report, on every path through ServeHTTP.
KafkaCallersAccounted ==
    inflight = {r \in Callers : pc[r] \in {"prepare", "get", "create", "publish",
                                           "published", "failed"}}

\* Every accepted request is answered, unless the process ends first.
KafkaRequestsAnswered ==
    \A r \in Requests : pc[r] = "allow" ~> (pc[r] = "answered" \/ main = "exited")
=============================================================================
