-------------------------- MODULE KafkaProxy_proofs --------------------------
(***************************************************************************)
(* The Kafka targets of fiso-link for every set of requests and clusters,  *)
(* every number of attempts and every threshold: a cluster has one client, *)
(* which is closed after its use unless the drain is cut short, answers    *)
(* are true, and the breaker's callers are accounted for.                  *)
(***************************************************************************)
EXTENDS KafkaProxy, TLAPS

\* The pool has not been closed.
Open == main \in {"serving", "draining", "closing"}

\* The pool holds the latest client made for a cluster, or none; the others are
\* closed, and while the pool is open there are none.
PoolClients ==
    \A c \in Clusters :
        /\ clients[c] \in {0, made[c]}
        /\ \A n \in 1..made[c] : n = clients[c] \/ <<c, n>> \in closed
        /\ Open => clients[c] = made[c] /\ made[c] <= 1

\* Nothing is closed before the pool is, and a pool that is closed without force
\* has no requests left, nor will it have any.
Drained ==
    /\ Open => closed = {}
    /\ accepting => main = "serving" \/ forced
    /\ main \in {"closing", "closed", "exited"} /\ ~forced => Active = {}

\* What a request has done so far.
Progress ==
    \A r \in Requests :
        /\ pc[r] \in {"allow", "prepare", "get", "create"} => attempt[r] = 0 /\ copies[r] = 0
        /\ pc[r] = "published" => copies[r] > 0
        /\ pc[r] = "publish" => attempt[r] < MaxRetries
        /\ pc[r] # "answered" => answer[r] = "none"

\* A closed breaker has counted fewer failures than its threshold.
BreakerBound == state = "Closed" => failures < FailureThreshold

\* The inductive invariant.
IInv ==
    /\ KafkaTypeOK
    /\ BreakerBound
    /\ PoolClients
    /\ Drained
    /\ Progress
    /\ AnswerTruthful
    /\ KafkaCallersAccounted

-----------------------------------------------------------------------------
\* The initial states satisfy the invariant.
LEMMA InitInv == ASSUME KafkaInit PROVE IInv
<1> USE CircuitBreakerAssumption, KafkaProxyAssumption
    DEF CircuitBreakerAssumption, KafkaProxyAssumption, KafkaInit, Init
<1>1. KafkaTypeOK /\ BreakerBound
  <2>1. BreakerTypeOK /\ BreakerBound
    BY DEF BreakerTypeOK, BreakerBound
  <2>2. /\ clients \in [Clusters -> Nat] /\ made \in [Clusters -> Nat]
        /\ closed \subseteq Clusters \X Nat
    OBVIOUS
  <2>3. /\ client \in [Requests -> Nat] /\ attempt \in [Requests -> 0..MaxRetries]
        /\ copies \in [Requests -> Nat]
    OBVIOUS
  <2> QED
    BY <2>1, <2>2, <2>3 DEF KafkaTypeOK
<1>2. PoolClients /\ Drained
  BY DEF PoolClients, Drained, Open
<1>3. Progress /\ AnswerTruthful /\ KafkaCallersAccounted
  BY DEF Progress, AnswerTruthful, KafkaCallersAccounted, Early
<1> QED
  BY <1>1, <1>2, <1>3 DEF IInv

-----------------------------------------------------------------------------
(* The breaker.                                                            *)

\* The breaker's own steps.
BreakerStep(r) == Allow(r) \/ Abandon(r) \/ RecordSuccess(r) \/ RecordFailure(r)

\* The breaker's steps keep its types and its count of failures in bounds.
LEMMA BreakerTypes ==
    ASSUME BreakerTypeOK, BreakerBound,
           (\E r \in Callers : BreakerStep(r)) \/ Tick \/ UNCHANGED breakerVars
    PROVE  BreakerTypeOK' /\ BreakerBound'
<1> USE CircuitBreakerAssumption
    DEF CircuitBreakerAssumption, BreakerTypeOK, BreakerBound, counters, breakerVars
<1> DEFINE Goal == BreakerTypeOK' /\ BreakerBound'
<1>1. ASSUME NEW r \in Callers, Allow(r) PROVE Goal
  BY <1>1 DEF Allow, MayProbe
<1>2. ASSUME NEW r \in Callers, Abandon(r) PROVE Goal
  BY <1>2 DEF Abandon, Leaves
<1>3. ASSUME NEW r \in Callers, RecordSuccess(r) PROVE Goal
  BY <1>3 DEF RecordSuccess, Leaves
<1>4. ASSUME NEW r \in Callers, RecordFailure(r) PROVE Goal
  BY <1>4 DEF RecordFailure, Leaves, Trip
<1>5. CASE Tick
  BY <1>5 DEF Tick
<1>6. CASE UNCHANGED breakerVars
  BY <1>6
<1> QED
  BY <1>1, <1>2, <1>3, <1>4, <1>5, <1>6 DEF BreakerStep

\* What each step does to the breaker.
LEMMA BreakerSees ==
    ASSUME KafkaNext
    PROVE  (\E r \in Callers : BreakerStep(r)) \/ Tick \/ UNCHANGED breakerVars
<1>1. ASSUME NEW r \in Requests, Serve(r)
      PROVE  (r \in Callers /\ BreakerStep(r)) \/ UNCHANGED breakerVars
  <2>1. CASE Reject(r) \/ Refuse(r) \/ GetFast(r) \/ PublishOk(r) \/ PublishError(r)
    BY <2>1 DEF Reject, Refuse, GetFast, PublishOk, PublishError
  <2>2. CASE Admit(r) \/ Prepare(r) \/ GetSlow(r) \/ Report(r)
    BY <2>2 DEF Admit, Prepare, GetSlow, Report, Tells, BreakerStep
  <2> QED
    BY <1>1, <2>1, <2>2 DEF Serve
<1>2. ASSUME NEW r \in Requests, Accept(r) PROVE UNCHANGED breakerVars
  BY <1>2 DEF Accept
<1>3. CASE Signal \/ ServerFails \/ Shutdown
  BY <1>3 DEF Signal, ServerFails, Shutdown, Drain, ClosePool, Exit
<1>4. CASE Time
  BY <1>4 DEF Time
<1> QED
  BY <1>1, <1>2, <1>3, <1>4 DEF KafkaNext

-----------------------------------------------------------------------------
(* Types.                                                                  *)

\* The types are preserved.
LEMMA NextType == ASSUME IInv, KafkaNext PROVE KafkaTypeOK'
<1> USE KafkaProxyAssumption
    DEF KafkaProxyAssumption, KafkaTypeOK, Goes, Say, poolVars, requestVars, processVars, Early
<1>0. BreakerTypeOK'
  BY BreakerSees, BreakerTypes DEF IInv
<1>1. ASSUME NEW r \in Requests, Accept(r) PROVE KafkaTypeOK'
  BY <1>0, <1>1 DEF IInv, Accept
<1>2. ASSUME NEW r \in Requests, Reject(r) \/ Refuse(r) \/ Admit(r) PROVE KafkaTypeOK'
  BY <1>0, <1>2 DEF IInv, Reject, Refuse, Admit
<1>3. ASSUME NEW r \in Requests, Prepare(r) PROVE KafkaTypeOK'
  BY <1>0, <1>3 DEF IInv, Prepare
<1>4. ASSUME NEW r \in Requests, GetFast(r) PROVE KafkaTypeOK'
  BY <1>0, <1>4 DEF IInv, GetFast
<1>5. ASSUME NEW r \in Requests, GetSlow(r) PROVE KafkaTypeOK'
  <2>1. /\ UNCHANGED <<attempt, copies, main, accepting, forced, closed>>
        /\ \E to \in {"publish", "answered"} : pc' = [pc EXCEPT ![r] = to]
        /\ answer' = answer \/ answer' = [answer EXCEPT ![r] = "500"]
    BY <1>5 DEF GetSlow, MakeClient
  <2>2. /\ clients' \in [Clusters -> Nat] /\ made' \in [Clusters -> Nat]
        /\ client' \in [Requests -> Nat]
    <3>1. CASE MakeClient(r)
      BY <3>1 DEF IInv, MakeClient
    <3>2. CASE UNCHANGED <<clients, made>> /\ client' = [client EXCEPT ![r] = clients[ClusterOf[r]]]
      BY <3>2 DEF IInv
    <3>3. CASE UNCHANGED <<clients, made, client>>
      BY <3>3 DEF IInv
    <3> QED
      BY <1>5, <3>1, <3>2, <3>3 DEF GetSlow
  <2>3. pc' \in [Requests -> {"idle", "allow", "prepare", "get", "create", "publish",
                              "published", "failed", "answered"}]
    BY <2>1 DEF IInv
  <2>4. answer' \in [Requests -> {"none", "200", "502"} \cup Early]
    BY <2>1 DEF IInv
  <2> QED
    BY <1>0, <2>1, <2>2, <2>3, <2>4 DEF IInv
<1>6. ASSUME NEW r \in Requests, PublishOk(r) PROVE KafkaTypeOK'
  BY <1>0, <1>6 DEF IInv, Progress, PublishOk, Written
<1>7. ASSUME NEW r \in Requests, PublishError(r) PROVE KafkaTypeOK'
  <2>1. /\ pc[r] = "publish"
        /\ \E to \in {"publish", "failed"} : pc' = [pc EXCEPT ![r] = to]
        /\ copies' = copies \/ copies' = [copies EXCEPT ![r] = @ + 1]
        /\ attempt' = [attempt EXCEPT ![r] = @ + 1]
        /\ UNCHANGED <<clients, made, closed, client, answer, main, accepting, forced>>
    BY <1>7 DEF PublishError, Written
  <2>2. attempt' \in [Requests -> 0..MaxRetries]
    BY <2>1 DEF IInv, Progress
  <2>3. copies' \in [Requests -> Nat]
    BY <2>1 DEF IInv
  <2>4. pc' \in [Requests -> {"idle", "allow", "prepare", "get", "create", "publish",
                              "published", "failed", "answered"}]
    BY <2>1 DEF IInv
  <2> QED
    BY <1>0, <2>1, <2>2, <2>3, <2>4 DEF IInv
<1>8. ASSUME NEW r \in Requests, Report(r) PROVE KafkaTypeOK'
  BY <1>0, <1>8 DEF IInv, Report
<1>9. CASE Signal \/ ServerFails \/ Drain \/ Exit \/ Time
  BY <1>0, <1>9 DEF IInv, Signal, ServerFails, Drain, Exit, Time
<1>10. CASE ClosePool
  <2>1. closed' \subseteq Clusters \X Nat
    BY <1>10 DEF IInv, ClosePool
  <2> QED
    BY <1>0, <1>10, <2>1 DEF IInv, ClosePool
<1> QED
  BY <1>1, <1>2, <1>3, <1>4, <1>5, <1>6, <1>7, <1>8, <1>9, <1>10
  DEF KafkaNext, Serve, Shutdown

-----------------------------------------------------------------------------
(* The pool.                                                               *)

\* A cluster's client is made once, and lost to the pool only when it is closed.
LEMMA NextPoolClients == ASSUME IInv, KafkaNext PROVE PoolClients'
<1> USE KafkaProxyAssumption DEF KafkaProxyAssumption, IInv, Open, poolVars, requestVars
<1>1. ASSUME UNCHANGED poolVars, Open' => Open PROVE PoolClients'
  BY <1>1 DEF PoolClients
<1>2. ASSUME NEW r \in Requests, Accept(r) PROVE PoolClients'
  BY <1>1, <1>2 DEF Accept, processVars
<1>3. ASSUME NEW r \in Requests,
             Reject(r) \/ Refuse(r) \/ Admit(r) \/ Prepare(r) \/ GetFast(r)
      PROVE  PoolClients'
  BY <1>1, <1>3 DEF Reject, Refuse, Admit, Prepare, GetFast, processVars
<1>4. ASSUME NEW r \in Requests, GetSlow(r) PROVE PoolClients'
  <2>1. CASE UNCHANGED poolVars
    BY <1>1, <1>4, <2>1 DEF GetSlow, processVars
  <2>2. CASE MakeClient(r) /\ clients[ClusterOf[r]] = 0
    <3> DEFINE c == ClusterOf[r]
    <3>1. /\ c \in Clusters /\ clients[c] = 0 /\ made[c] \in Nat
          /\ made' = [made EXCEPT ![c] = @ + 1]
          /\ clients' = [clients EXCEPT ![c] = made[c] + 1]
          /\ UNCHANGED <<closed, main>>
      BY <1>4, <2>2 DEF MakeClient, GetSlow, processVars, KafkaTypeOK
    <3>2. /\ made'[c] = made[c] + 1 /\ clients'[c] = made[c] + 1
          /\ \A d \in Clusters : d # c => made'[d] = made[d] /\ clients'[d] = clients[d]
      BY <3>1 DEF KafkaTypeOK
    <3>3. \A n \in 1..made'[c] : n = clients'[c] \/ <<c, n>> \in closed
      BY <3>1, <3>2 DEF PoolClients
    <3>4. Open => made[c] = 0
      BY <3>1 DEF PoolClients
    <3>5. ASSUME NEW d \in Clusters
          PROVE  /\ clients'[d] \in {0, made'[d]}
                 /\ \A n \in 1..made'[d] : n = clients'[d] \/ <<d, n>> \in closed'
                 /\ Open' => clients'[d] = made'[d] /\ made'[d] <= 1
      <4>1. CASE d = c
        BY <4>1, <3>1, <3>2, <3>3, <3>4
      <4>2. CASE d # c
        BY <4>2, <3>1, <3>2 DEF PoolClients
      <4> QED
        BY <4>1, <4>2
    <3> QED
      BY <3>5 DEF PoolClients
  <2> QED
    BY <1>4, <2>1, <2>2 DEF GetSlow
<1>5. ASSUME NEW r \in Requests, PublishOk(r) \/ PublishError(r) \/ Report(r) PROVE PoolClients'
  BY <1>1, <1>5 DEF PublishOk, PublishError, Report, processVars
<1>6. CASE Signal \/ ServerFails \/ Drain \/ Exit \/ Time
  BY <1>1, <1>6 DEF Signal, ServerFails, Drain, Exit, Time, processVars
<1>7. CASE ClosePool
  <2>1. /\ ~Open' /\ made' = made
        /\ clients' = [c \in Clusters |-> 0]
        /\ \A c \in Clusters : clients[c] # 0 => <<c, clients[c]>> \in closed'
        /\ closed \subseteq closed'
    BY <1>7 DEF ClosePool
  <2> QED
    BY <2>1 DEF PoolClients
<1> QED
  BY <1>2, <1>3, <1>4, <1>5, <1>6, <1>7 DEF KafkaNext, Serve, Shutdown

\* The server takes no requests once it is drained.
LEMMA NextDrained == ASSUME IInv, KafkaNext PROVE Drained'
<1> USE DEF IInv, Open, Drained, Goes, Alive, poolVars, requestVars, processVars
<1>1. ASSUME NEW r \in Requests, Accept(r) PROVE Drained'
  BY <1>1 DEF Accept
<1>2. ASSUME NEW r \in Requests, pc[r] \notin {"idle", "answered"},
             UNCHANGED <<main, accepting, forced, closed>>
      PROVE  Drained'
  <2>1. r \in Active
    BY <1>2 DEF Active
  <2> QED
    BY <1>2, <2>1
<1>3. ASSUME NEW r \in Requests,
             Reject(r) \/ Refuse(r) \/ Admit(r) \/ Prepare(r) \/ GetFast(r)
      PROVE  Drained'
  BY <1>2, <1>3 DEF Reject, Refuse, Admit, Prepare, GetFast
<1>4. ASSUME NEW r \in Requests, GetSlow(r) PROVE Drained'
  BY <1>2, <1>4 DEF GetSlow, MakeClient
<1>5. ASSUME NEW r \in Requests, PublishOk(r) \/ PublishError(r) \/ Report(r) PROVE Drained'
  BY <1>2, <1>5 DEF PublishOk, PublishError, Report
<1>6. CASE Signal \/ ServerFails
  BY <1>6 DEF Signal, ServerFails
<1>7. CASE Drain
  BY <1>7 DEF Drain, Active
<1>8. CASE ClosePool \/ Exit
  BY <1>8 DEF ClosePool, Exit, Active
<1>9. CASE Time
  BY <1>9 DEF Time, Active
<1> QED
  BY <1>1, <1>3, <1>4, <1>5, <1>6, <1>7, <1>8, <1>9 DEF KafkaNext, Serve, Shutdown

-----------------------------------------------------------------------------
(* The requests.                                                           *)

\* What the invariant says of one request.
RequestOK(r) ==
    /\ pc[r] \in {"allow", "prepare", "get", "create"} => attempt[r] = 0 /\ copies[r] = 0
    /\ pc[r] = "published" => copies[r] > 0
    /\ pc[r] = "publish" => attempt[r] < MaxRetries
    /\ pc[r] # "answered" => answer[r] = "none"
    /\ answer[r] = "200" => copies[r] > 0
    /\ answer[r] \in Early => copies[r] = 0
    /\ copies[r] <= attempt[r]

\* A step touches one request.
LEMMA OneRequest ==
    ASSUME IInv, NEW r \in Requests, RequestOK(r)',
           \A q \in Requests : q # r => /\ pc'[q] = pc[q] /\ copies'[q] = copies[q]
                                       /\ attempt'[q] = attempt[q] /\ answer'[q] = answer[q]
    PROVE  Progress' /\ AnswerTruthful'
<1>1. ASSUME NEW q \in Requests PROVE RequestOK(q)'
  BY DEF IInv, Progress, AnswerTruthful, RequestOK
<1> QED
  BY <1>1 DEF RequestOK, Progress, AnswerTruthful

\* Requests make progress, and their answers stay true.
LEMMA NextRequests == ASSUME IInv, KafkaNext PROVE Progress' /\ AnswerTruthful'
<1> USE KafkaProxyAssumption DEF KafkaProxyAssumption, IInv, Goes, Say, poolVars, processVars
<1> DEFINE Same(q) == /\ pc'[q] = pc[q] /\ copies'[q] = copies[q]
                      /\ attempt'[q] = attempt[q] /\ answer'[q] = answer[q]
           Goal == Progress' /\ AnswerTruthful'
<1>1. ASSUME NEW r \in Requests, Accept(r) PROVE Goal
  <2>1. /\ pc'[r] = "allow" /\ copies'[r] = 0 /\ attempt'[r] = 0 /\ answer'[r] = "none"
        /\ \A q \in Requests : q # r => Same(q)
    BY <1>1 DEF Accept, KafkaTypeOK
  <2> QED
    BY <2>1, OneRequest DEF RequestOK, Early
<1>2. ASSUME NEW r \in Requests, Reject(r) \/ Refuse(r) PROVE Goal
  <2>1. /\ pc'[r] = "answered" /\ copies[r] = 0 /\ copies' = copies /\ attempt' = attempt
        /\ answer'[r] # "200"
        /\ \A q \in Requests : q # r => Same(q)
    BY <1>2 DEF Reject, Refuse, KafkaTypeOK, Progress
  <2> QED
    BY <2>1, OneRequest DEF RequestOK, AnswerTruthful
<1>3. ASSUME NEW r \in Requests, Admit(r) PROVE Goal
  <2>1. /\ pc'[r] = "prepare" /\ pc[r] = "allow" /\ UNCHANGED <<copies, attempt, answer>>
        /\ \A q \in Requests : q # r => Same(q)
    BY <1>3 DEF Admit, KafkaTypeOK
  <2> QED
    BY <2>1, OneRequest DEF RequestOK, Progress, AnswerTruthful
<1>4. ASSUME NEW r \in Requests, Prepare(r) PROVE Goal
  <2>1. /\ pc[r] = "prepare" /\ UNCHANGED <<copies, attempt>>
        /\ \/ pc'[r] = "get" /\ answer' = answer
           \/ pc'[r] = "answered" /\ answer'[r] = "unprepared"
        /\ \A q \in Requests : q # r => Same(q)
    BY <1>4 DEF Prepare, KafkaTypeOK
  <2> QED
    BY <2>1, OneRequest DEF RequestOK, Progress, AnswerTruthful
<1>5. ASSUME NEW r \in Requests, GetFast(r) PROVE Goal
  <2>1. /\ pc'[r] \in {"create", "publish"} /\ pc[r] = "get"
        /\ UNCHANGED <<copies, attempt, answer>>
        /\ \A q \in Requests : q # r => Same(q)
    BY <1>5 DEF GetFast, KafkaTypeOK
  <2> QED
    BY <2>1, OneRequest DEF RequestOK, Progress, AnswerTruthful
<1>6. ASSUME NEW r \in Requests, GetSlow(r) PROVE Goal
  <2>1. /\ pc[r] = "create" /\ UNCHANGED <<copies, attempt>>
        /\ \/ pc'[r] = "publish" /\ answer' = answer
           \/ pc'[r] = "answered" /\ answer'[r] = "500"
        /\ \A q \in Requests : q # r => Same(q)
    BY <1>6 DEF GetSlow, KafkaTypeOK
  <2> QED
    BY <2>1, OneRequest DEF RequestOK, Progress, AnswerTruthful
<1>7. ASSUME NEW r \in Requests, PublishOk(r) PROVE Goal
  <2>1. /\ pc[r] = "publish" /\ pc'[r] = "published" /\ answer' = answer
        /\ copies'[r] = copies[r] + 1 /\ attempt'[r] = attempt[r] + 1
        /\ copies[r] \in Nat /\ attempt[r] \in Nat
        /\ \A q \in Requests : q # r => Same(q)
    BY <1>7 DEF PublishOk, Written, KafkaTypeOK
  <2> QED
    BY <2>1, OneRequest DEF RequestOK, Progress, AnswerTruthful, Early
<1>8. ASSUME NEW r \in Requests, PublishError(r) PROVE Goal
  <2>1. /\ pc[r] = "publish" /\ answer' = answer
        /\ \/ pc'[r] = "publish" /\ attempt[r] + 1 < MaxRetries
           \/ pc'[r] = "failed"
        /\ attempt'[r] = attempt[r] + 1
        /\ copies[r] \in Nat /\ attempt[r] \in Nat
    BY <1>8 DEF PublishError, KafkaTypeOK
  <2>2. /\ copies'[r] \in {copies[r], copies[r] + 1}
        /\ \A q \in Requests : q # r => Same(q)
    BY <1>8 DEF PublishError, Written, KafkaTypeOK
  <2> QED
    BY <2>1, <2>2, OneRequest DEF RequestOK, Progress, AnswerTruthful, Early
<1>9. ASSUME NEW r \in Requests, Report(r) PROVE Goal
  <2>1. /\ pc'[r] = "answered" /\ UNCHANGED <<copies, attempt>>
        /\ \/ pc[r] = "published" /\ answer'[r] = "200"
           \/ pc[r] = "failed" /\ answer'[r] = "502"
        /\ \A q \in Requests : q # r => Same(q)
    BY <1>9 DEF Report, KafkaTypeOK
  <2> QED
    BY <2>1, OneRequest DEF RequestOK, Progress, AnswerTruthful, Early
<1>10. CASE Signal \/ ServerFails \/ Shutdown \/ Time
  <2>1. UNCHANGED <<pc, copies, attempt, answer>>
    BY <1>10 DEF Signal, ServerFails, Shutdown, Drain, ClosePool, Exit, Time, requestVars
  <2> QED
    BY <2>1 DEF Progress, AnswerTruthful
<1> QED
  BY <1>1, <1>2, <1>3, <1>4, <1>5, <1>6, <1>7, <1>8, <1>9, <1>10 DEF KafkaNext, Serve

-----------------------------------------------------------------------------
(* The breaker's callers.                                                  *)

\* The steps of a request between admission and report.
Admitted == {"prepare", "get", "create", "publish", "published", "failed"}

\* A request that stays on its side of admission leaves the breaker's callers alone.
LEMMA SameSide ==
    ASSUME IInv, NEW r \in Requests, NEW to,
           pc' = [pc EXCEPT ![r] = to], pc[r] \in Admitted <=> to \in Admitted,
           inflight' = inflight
    PROVE  KafkaCallersAccounted'
BY KafkaProxyAssumption
DEF KafkaProxyAssumption, IInv, KafkaTypeOK, KafkaCallersAccounted, Admitted

\* A request of another target is none of the breaker's callers.
LEMMA OtherTarget ==
    ASSUME IInv, NEW r \in Requests, r \notin Callers, NEW to,
           pc' = [pc EXCEPT ![r] = to], inflight' = inflight
    PROVE  KafkaCallersAccounted'
BY KafkaProxyAssumption
DEF KafkaProxyAssumption, IInv, KafkaTypeOK, KafkaCallersAccounted

\* A request that is answered leaves the breaker's callers.
LEMMA LeavesBoth ==
    ASSUME IInv, NEW r \in Requests, pc[r] \in Admitted,
           pc' = [pc EXCEPT ![r] = "answered"],
           IF r \in Callers THEN Leaves(r) ELSE inflight' = inflight
    PROVE  KafkaCallersAccounted'
<1>1. CASE r \in Callers
  BY <1>1, KafkaProxyAssumption
  DEF KafkaProxyAssumption, IInv, KafkaTypeOK, KafkaCallersAccounted, Admitted, Leaves
<1>2. CASE r \notin Callers
  BY <1>2, OtherTarget
<1> QED
  BY <1>1, <1>2

\* The breaker's callers stay the requests between admission and report.
LEMMA NextCallers == ASSUME IInv, KafkaNext PROVE KafkaCallersAccounted'
<1> USE DEF Goes, breakerVars
<1>1. ASSUME NEW r \in Requests, Accept(r) PROVE KafkaCallersAccounted'
  BY <1>1, SameSide DEF Accept, Admitted
<1>2. ASSUME NEW r \in Requests, Reject(r) \/ Refuse(r) PROVE KafkaCallersAccounted'
  BY <1>2, SameSide DEF Reject, Refuse, Admitted
<1>3. ASSUME NEW r \in Requests, Admit(r) PROVE KafkaCallersAccounted'
  <2>1. CASE r \in Callers
    <3>1. inflight' = inflight \cup {r} /\ pc' = [pc EXCEPT ![r] = "prepare"]
      BY <1>3, <2>1 DEF Admit, Tells, Allow
    <3> QED
      BY <2>1, <3>1, KafkaProxyAssumption
      DEF KafkaProxyAssumption, IInv, KafkaTypeOK, KafkaCallersAccounted
  <2>2. CASE r \notin Callers
    BY <1>3, <2>2, OtherTarget DEF Admit, Tells
  <2> QED
    BY <2>1, <2>2
<1>4. ASSUME NEW r \in Requests, Prepare(r) PROVE KafkaCallersAccounted'
  <2>1. CASE Goes(r, "prepare", "get") /\ UNCHANGED breakerVars
    BY <2>1, SameSide DEF Admitted
  <2>2. CASE Goes(r, "prepare", "answered") /\ Tells(r, Abandon(r))
    BY <2>2, LeavesBoth DEF Admitted, Tells, Abandon
  <2> QED
    BY <1>4, <2>1, <2>2 DEF Prepare
<1>5. ASSUME NEW r \in Requests, GetFast(r) PROVE KafkaCallersAccounted'
  BY <1>5, SameSide DEF GetFast, Admitted
<1>6. ASSUME NEW r \in Requests, GetSlow(r) PROVE KafkaCallersAccounted'
  <2>1. CASE Goes(r, "create", "publish") /\ UNCHANGED breakerVars
    BY <2>1, SameSide DEF Admitted
  <2>2. CASE Goes(r, "create", "answered") /\ Tells(r, Abandon(r))
    BY <2>2, LeavesBoth DEF Admitted, Tells, Abandon
  <2> QED
    BY <1>6, <2>1, <2>2 DEF GetSlow
<1>7. ASSUME NEW r \in Requests, PublishOk(r) \/ PublishError(r) PROVE KafkaCallersAccounted'
  BY <1>7, SameSide DEF PublishOk, PublishError, Admitted
<1>8. ASSUME NEW r \in Requests, Report(r) PROVE KafkaCallersAccounted'
  <2>1. /\ pc[r] \in Admitted /\ pc' = [pc EXCEPT ![r] = "answered"]
        /\ IF r \in Callers THEN Leaves(r) ELSE inflight' = inflight
    BY <1>8 DEF Report, Tells, RecordSuccess, RecordFailure, Admitted
  <2> QED
    BY <2>1, LeavesBoth
<1>9. CASE Signal \/ ServerFails \/ Shutdown \/ Time
  <2>1. UNCHANGED <<pc, inflight>>
    BY <1>9 DEF Signal, ServerFails, Shutdown, Drain, ClosePool, Exit, Time, Tick, requestVars
  <2> QED
    BY <2>1 DEF IInv, KafkaCallersAccounted
<1> QED
  BY <1>1, <1>2, <1>3, <1>4, <1>5, <1>6, <1>7, <1>8, <1>9 DEF KafkaNext, Serve

-----------------------------------------------------------------------------
\* The invariant does not depend on anything but the variables.
LEMMA StutterInv == ASSUME IInv, UNCHANGED vars PROVE IInv'
<1> USE DEF vars, breakerVars, counters, poolVars, requestVars, processVars, IInv
<1>1. KafkaTypeOK' /\ BreakerBound'
  BY DEF KafkaTypeOK, BreakerTypeOK, BreakerBound, Early
<1>2. PoolClients' /\ Drained'
  BY DEF PoolClients, Drained, Open, Active
<1>3. Progress' /\ AnswerTruthful' /\ KafkaCallersAccounted'
  BY DEF Progress, AnswerTruthful, KafkaCallersAccounted, Early
<1> QED
  BY <1>1, <1>2, <1>3

\* The invariant holds in every reachable state.
THEOREM KafkaProxyInvariant == KafkaSpec => []IInv
<1>1. KafkaInit => IInv
  BY InitInv
<1>2. ASSUME IInv, KafkaNext PROVE IInv'
  <2>1. BreakerBound'
    BY <1>2, BreakerSees, BreakerTypes DEF IInv, KafkaTypeOK
  <2> QED
    BY <1>2, <2>1, NextType, NextPoolClients, NextDrained, NextRequests, NextCallers DEF IInv
<1>3. IInv /\ [KafkaNext]_vars => IInv'
  BY <1>2, StutterInv
<1> QED
  BY <1>1, <1>3, PTL DEF KafkaSpec

\* The types of the state: in particular a request makes no more attempts than it
\* may, and the breaker's counters stay in bounds.
THEOREM KafkaProxyTypeCorrect == KafkaSpec => []KafkaTypeOK
<1>1. IInv => KafkaTypeOK
  BY DEF IInv
<1> QED
  BY <1>1, KafkaProxyInvariant, PTL

\* Requests that ask for a cluster's client at once get one client, and none that
\* was made is left open when the pool is closed.
THEOREM KafkaNoClientLost == KafkaSpec => []NoClientLost
<1>1. IInv => NoClientLost
  BY DEF IInv, PoolClients, NoClientLost, Open
<1> QED
  BY <1>1, KafkaProxyInvariant, PTL

\* No request finds its client closed while it publishes, unless the drain was cut
\* short.
THEOREM KafkaClosedAfterUse == KafkaSpec => []ClosedAfterUse
<1>1. ASSUME IInv, NEW r \in Requests, pc[r] = "publish", ~Usable(r) PROVE forced
  <2>1. r \in Active /\ closed # {}
    BY <1>1 DEF Active, Usable
  <2> QED
    BY <1>1, <2>1 DEF IInv, KafkaTypeOK, Drained, Open
<1>2. IInv => ClosedAfterUse
  BY <1>1 DEF ClosedAfterUse
<1> QED
  BY <1>2, KafkaProxyInvariant, PTL

\* The answer to a request is true of its record.
THEOREM KafkaAnswerTruthful == KafkaSpec => []AnswerTruthful
<1>1. IInv => AnswerTruthful
  BY DEF IInv
<1> QED
  BY <1>1, KafkaProxyInvariant, PTL

\* The breaker's callers are the requests of its target between admission and
\* report, on every path through ServeHTTP.
THEOREM KafkaProxyCallers == KafkaSpec => []KafkaCallersAccounted
<1>1. IInv => KafkaCallersAccounted
  BY DEF IInv
<1> QED
  BY <1>1, KafkaProxyInvariant, PTL
=============================================================================
