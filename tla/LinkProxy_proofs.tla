--------------------------- MODULE LinkProxy_proofs ---------------------------
(***************************************************************************)
(* The circuit breaker of a target for every set of callers and every      *)
(* thresholds, and the forward proxy of fiso-link, which implements it,    *)
(* for every set of request slots and every number of attempts.            *)
(*                                                                         *)
(* The breaker's invariant ties its two counters to the outcomes it has    *)
(* recorded: half-open, recent is as many successes as it counts; closed,  *)
(* the latest outcomes are exactly as many failures as it counts, fewer    *)
(* than the threshold.  The proxy's: the attempts stay in their bounds,    *)
(* and the breaker's callers are exactly the requests between admission    *)
(* and report, on every path through ServeHTTP.                            *)
(***************************************************************************)
EXTENDS LinkProxy, TLAPS

Outcomes == {"success", "failure"}

\* s ends with n failures and no more.
EndsWith(s, n) ==
    /\ FailuresAtEnd(s, n)
    /\ Len(s) > n => s[Len(s) - n] = "success"

CountsSuccesses ==
    state = "HalfOpen" => Len(recent) = successes /\ \A i \in 1..successes : recent[i] = "success"

CountsFailures ==
    state = "Closed" =>
        /\ failures < FailureThreshold
        /\ EndsWith(recent, failures)
        /\ Len(recent) <= Window

\* The inductive invariant.
HInv ==
    /\ TypeOK
    /\ OpenAdmitsNobody
    /\ CountsSuccesses
    /\ CountsFailures

-----------------------------------------------------------------------------
(* The window of latest outcomes.                                          *)

\* The window holds what either threshold looks at.
LEMMA WindowBounds ==
    Window \in Nat /\ Window >= FailureThreshold /\ Window >= SuccessThreshold
BY CircuitBreakerAssumption DEF CircuitBreakerAssumption, Window

\* Latest drops the first outcome or none.
LEMMA LatestSeq ==
    ASSUME NEW s \in Seq(Outcomes), NEW x \in Outcomes
    PROVE  /\ Latest(Append(s, x)) \in Seq(Outcomes)
           /\ Len(s) < Window => Latest(Append(s, x)) = Append(s, x)
BY WindowBounds DEF Latest

\* After a success the latest outcomes end with no failure.
LEMMA SuccessEnds ==
    ASSUME NEW s \in Seq(Outcomes), Len(s) <= Window
    PROVE  /\ EndsWith(Latest(Append(s, "success")), 0)
           /\ Len(Latest(Append(s, "success"))) <= Window
<1> DEFINE t == Append(s, "success")
<1>0. "success" \in Outcomes
  BY DEF Outcomes
<1>1. t \in Seq(Outcomes) /\ Len(t) = Len(s) + 1 /\ t[Len(t)] = "success"
  BY <1>0
<1>2. Latest(t) \in Seq(Outcomes) /\ Len(Latest(t)) > 0 =>
         Latest(t)[Len(Latest(t))] = "success"
  BY <1>1, WindowBounds DEF Latest
<1>3. Latest(t) \in Seq(Outcomes) /\ Len(Latest(t)) <= Window
  BY <1>1, WindowBounds DEF Latest
<1> QED
  BY <1>2, <1>3 DEF EndsWith, FailuresAtEnd

\* One more failure below the threshold, with the window not cutting into them.
LEMMA FailureEnds ==
    ASSUME NEW s \in Seq(Outcomes), Len(s) <= Window,
           NEW n \in Nat, n + 1 < FailureThreshold, EndsWith(s, n)
    PROVE  /\ EndsWith(Latest(Append(s, "failure")), n + 1)
           /\ Len(Latest(Append(s, "failure"))) <= Window
<1> DEFINE t == Append(s, "failure")
<1>0. "failure" \in Outcomes
  BY DEF Outcomes
<1>1. /\ t \in Seq(Outcomes) /\ Len(t) = Len(s) + 1 /\ t[Len(t)] = "failure"
      /\ \A i \in 1..Len(s) : t[i] = s[i]
  BY <1>0
<1>2. EndsWith(t, n + 1)
  <2>1. Len(s) \in Nat /\ Len(s) >= n
    BY DEF EndsWith, FailuresAtEnd
  <2>2. Len(t) >= n + 1
    BY <1>1, <2>1
  <2>3. ASSUME NEW i \in (Len(t) - (n + 1) + 1)..Len(t) PROVE t[i] = "failure"
    <3>1. i = Len(t) \/ i \in (Len(s) - n + 1)..Len(s)
      BY <1>1, <2>1
    <3>2. CASE i \in (Len(s) - n + 1)..Len(s)
      <4>1. s[i] = "failure" /\ i \in 1..Len(s)
        BY <3>2, <2>1 DEF EndsWith, FailuresAtEnd
      <4> QED
        BY <4>1, <1>1
    <3> QED
      BY <3>1, <3>2, <1>1
  <2>4. ASSUME Len(t) > n + 1 PROVE t[Len(t) - (n + 1)] = "success"
    <3>1. Len(t) - (n + 1) = Len(s) - n /\ Len(s) - n \in 1..Len(s)
      BY <2>4, <2>1, <1>1
    <3> QED
      BY <3>1, <2>1, <1>1 DEF EndsWith
  <2> QED
    BY <2>2, <2>3, <2>4 DEF EndsWith, FailuresAtEnd
<1>3. CASE Len(t) <= Window
  BY <1>2, <1>3, WindowBounds, <1>1 DEF Latest
<1>4. CASE Len(t) > Window
  <2>1. Latest(t) = Tail(t) /\ Len(Tail(t)) = Len(s) /\ Len(s) = Window
    BY <1>1, <1>4, WindowBounds DEF Latest
  <2>2. \A i \in 1..Len(s) : Tail(t)[i] = t[i + 1]
    BY <1>1
  <2>3. FailureThreshold \in Nat /\ Len(s) > n + 1
    BY <2>1, WindowBounds, CircuitBreakerAssumption DEF CircuitBreakerAssumption
  <2>5. FailuresAtEnd(Tail(t), n + 1)
    <3>1. ASSUME NEW i \in (Len(s) - (n + 1) + 1)..Len(s) PROVE Tail(t)[i] = "failure"
      <4>1. i \in 1..Len(s) /\ i + 1 \in (Len(t) - (n + 1) + 1)..Len(t)
        BY <1>1, <2>3
      <4> QED
        BY <4>1, <1>2, <2>2 DEF EndsWith, FailuresAtEnd
    <3> QED
      BY <3>1, <2>1, <2>3 DEF FailuresAtEnd
  <2>6. Tail(t)[Len(s) - (n + 1)] = t[Len(t) - (n + 1)]
    BY <1>1, <2>2, <2>3
  <2>7. t[Len(t) - (n + 1)] = "success"
    BY <1>1, <1>2, <2>3 DEF EndsWith
  <2> QED
    BY <2>1, <2>3, <2>5, <2>6, <2>7 DEF EndsWith
<1> QED
  BY <1>1, <1>3, <1>4, WindowBounds

-----------------------------------------------------------------------------
\* The initial state satisfies the invariant.
LEMMA HInitInv == HInit => HInv
<1> SUFFICES ASSUME HInit PROVE HInv
  OBVIOUS
<1> USE CircuitBreakerAssumption DEF CircuitBreakerAssumption, HInit, Init
<1>1. TypeOK
  BY DEF TypeOK, BreakerTypeOK
<1>2. OpenAdmitsNobody /\ CountsSuccesses
  BY DEF OpenAdmitsNobody, CountsSuccesses
<1>3. CountsFailures
  BY WindowBounds DEF CountsFailures, EndsWith, FailuresAtEnd
<1> QED
  BY <1>1, <1>2, <1>3 DEF HInv

\* Allow preserves the invariant: an open breaker becomes half-open with nothing
\* counted, the others stay as they are.
LEMMA AdmittedInv == ASSUME HInv, NEW c \in Callers, Admitted(c) PROVE HInv'
<1> USE CircuitBreakerAssumption DEF CircuitBreakerAssumption, HInv, Admitted, Allow, MayProbe
<1>1. TypeOK'
  BY DEF TypeOK, BreakerTypeOK
<1>2. OpenAdmitsNobody'
  BY DEF OpenAdmitsNobody
<1>3. CountsSuccesses'
  BY DEF CountsSuccesses
<1>4. CountsFailures'
  BY DEF CountsFailures
<1> QED
  BY <1>1, <1>2, <1>3, <1>4

\* RecordSuccess preserves the invariant.
LEMMA SucceededInv == ASSUME HInv, NEW c \in Callers, Succeeded(c) PROVE HInv'
<1> USE CircuitBreakerAssumption DEF CircuitBreakerAssumption, HInv, Succeeded, RecordSuccess, Leaves,
        Recorded
<1>0. recent \in Seq(Outcomes) /\ successes \in 0..(SuccessThreshold - 1)
      /\ state \in {"Closed", "Open", "HalfOpen"}
  BY DEF TypeOK, BreakerTypeOK, Outcomes
<1>1. recent' \in Seq(Outcomes)
  BY <1>0, LatestSeq DEF Outcomes
<1>2. TypeOK'
  BY <1>0, <1>1 DEF TypeOK, BreakerTypeOK, history, Outcomes
<1>3. OpenAdmitsNobody'
  BY <1>0 DEF OpenAdmitsNobody
<1>4. CountsSuccesses'
  <2> SUFFICES ASSUME state' = "HalfOpen"
               PROVE  /\ Len(recent') = successes'
                      /\ \A i \in 1..successes' : recent'[i] = "success"
    BY DEF CountsSuccesses
  <2>1. /\ state = "HalfOpen" /\ successes' = successes + 1 /\ successes + 1 < SuccessThreshold
        /\ Len(recent) = successes /\ \A i \in 1..successes : recent[i] = "success"
        /\ recent' = Latest(Append(recent, "success"))
    BY <1>0 DEF CountsSuccesses
  <2>2. "success" \in Outcomes /\ Len(recent) < Window
    BY <2>1, <1>0, WindowBounds DEF Outcomes
  <2>3. recent' = Append(recent, "success")
    BY <2>1, <2>2, <1>0, LatestSeq
  <2> QED
    BY <2>1, <2>2, <2>3, <1>0
<1>5. CountsFailures'
  <2> SUFFICES ASSUME state' = "Closed"
               PROVE  /\ failures' = 0
                      /\ EndsWith(recent', 0)
                      /\ Len(recent') <= Window
    BY DEF CountsFailures
  <2>1. CASE state = "Closed"
    BY <2>1, <1>0, SuccessEnds DEF CountsFailures
  <2>2. CASE state # "Closed"
    <3>1. failures' = 0 /\ recent' = <<>>
      BY <2>2, <1>0
    <3> QED
      BY <3>1, WindowBounds DEF EndsWith, FailuresAtEnd
  <2> QED
    BY <2>1, <2>2
<1> QED
  BY <1>2, <1>3, <1>4, <1>5

\* RecordFailure preserves the invariant.
LEMMA FailedInv == ASSUME HInv, NEW c \in Callers, Failed(c) PROVE HInv'
<1> USE CircuitBreakerAssumption DEF CircuitBreakerAssumption, HInv, Failed, RecordFailure, Leaves,
        Recorded, Trip
<1>0. /\ recent \in Seq(Outcomes) /\ failures \in 0..FailureThreshold
      /\ successes \in 0..(SuccessThreshold - 1) /\ elapsed \in 0..ResetTimeout
      /\ state \in {"Closed", "Open", "HalfOpen"}
  BY DEF TypeOK, BreakerTypeOK, Outcomes
<1>1. recent' \in Seq(Outcomes)
  BY <1>0, LatestSeq DEF Outcomes
<1>2. TypeOK'
  <2>1. failures' \in 0..FailureThreshold
    BY <1>0 DEF CountsFailures, counters
  <2>2. /\ state' \in {"Closed", "Open", "HalfOpen"} /\ successes' \in 0..(SuccessThreshold - 1)
        /\ elapsed' \in 0..ResetTimeout
    BY <1>0 DEF counters
  <2>3. inflight' \subseteq Callers /\ before' \subseteq Callers
    BY DEF TypeOK, BreakerTypeOK
  <2> QED
    BY <1>1, <2>1, <2>2, <2>3 DEF TypeOK, BreakerTypeOK, Outcomes
<1>3. OpenAdmitsNobody'
  BY <1>0 DEF OpenAdmitsNobody
<1>4. CountsSuccesses'
  BY <1>0 DEF CountsSuccesses
<1>5. CountsFailures'
  <2> SUFFICES ASSUME state' = "Closed"
               PROVE  /\ failures' < FailureThreshold
                      /\ EndsWith(recent', failures')
                      /\ Len(recent') <= Window
    BY DEF CountsFailures
  <2>1. /\ state = "Closed" /\ failures' = failures + 1 /\ failures + 1 < FailureThreshold
        /\ recent' = Latest(Append(recent, "failure"))
    BY <1>0
  <2> QED
    BY <2>1, <1>0, FailureEnds DEF CountsFailures
<1> QED
  BY <1>2, <1>3, <1>4, <1>5

\* The invariant holds in every reachable state.
THEOREM BreakerInvariant == Spec => []HInv
<1>1. HInit => HInv
  BY HInitInv
<1>2. HInv /\ [Next]_vars => HInv'
  <2> SUFFICES ASSUME HInv, [Next]_vars PROVE HInv'
    OBVIOUS
  <2>1. ASSUME NEW c \in Callers, Admitted(c) PROVE HInv'
    BY <2>1, AdmittedInv
  <2>2. ASSUME NEW c \in Callers, Succeeded(c) PROVE HInv'
    BY <2>2, SucceededInv
  <2>3. ASSUME NEW c \in Callers, Failed(c) PROVE HInv'
    BY <2>3, FailedInv
  <2>4. ASSUME NEW c \in Callers, GaveUp(c) PROVE HInv'
    BY <2>4 DEF HInv, TypeOK, BreakerTypeOK, OpenAdmitsNobody, CountsSuccesses, CountsFailures,
                GaveUp, Abandon, Leaves, counters, history
  <2>5. CASE Time
    BY <2>5, CircuitBreakerAssumption
       DEF CircuitBreakerAssumption, HInv, TypeOK, BreakerTypeOK, OpenAdmitsNobody, CountsSuccesses,
           CountsFailures, Time, Tick, history
  <2>6. CASE UNCHANGED vars
    BY <2>6 DEF HInv, TypeOK, BreakerTypeOK, OpenAdmitsNobody, CountsSuccesses, CountsFailures,
                vars, breakerVars, counters, history
  <2> QED
    BY <2>1, <2>2, <2>3, <2>4, <2>5, <2>6 DEF Next
<1> QED
  BY <1>1, <1>2, PTL DEF Spec

\* The breaker's counters stay in their ranges and its state has its types.
THEOREM BreakerTypeCorrect == Spec => []TypeOK
BY BreakerInvariant, PTL DEF HInv

\* While the breaker is open only callers from before it opened are in flight.
THEOREM BreakerOpenAdmitsNobody == Spec => []OpenAdmitsNobody
BY BreakerInvariant, PTL DEF HInv

-----------------------------------------------------------------------------
\* Appending to a sequence that ends with n failures and no more makes a run of
\* FailureThreshold failures exactly when n was one short of it.
LEMMA RunCompletes ==
    ASSUME NEW s \in Seq(Outcomes), NEW n \in Nat, n < FailureThreshold, EndsWith(s, n)
    PROVE  FailuresAtEnd(Append(s, "failure"), FailureThreshold) <=> n + 1 >= FailureThreshold
<1> DEFINE t == Append(s, "failure")
<1>0. "failure" \in Outcomes /\ FailureThreshold \in Nat
  BY CircuitBreakerAssumption DEF Outcomes, CircuitBreakerAssumption
<1>1. /\ t \in Seq(Outcomes) /\ Len(t) = Len(s) + 1 /\ t[Len(t)] = "failure"
      /\ \A i \in 1..Len(s) : t[i] = s[i]
  BY <1>0
<1>2. Len(s) \in Nat /\ Len(s) >= n /\ \A i \in (Len(s) - n + 1)..Len(s) : s[i] = "failure"
  BY DEF EndsWith, FailuresAtEnd
<1>3. ASSUME n + 1 >= FailureThreshold PROVE FailuresAtEnd(t, FailureThreshold)
  <2>1. FailureThreshold = n + 1
    BY <1>3, <1>0
  <2>2. ASSUME NEW i \in (Len(t) - FailureThreshold + 1)..Len(t) PROVE t[i] = "failure"
    <3>1. i = Len(t) \/ (i \in (Len(s) - n + 1)..Len(s) /\ i \in 1..Len(s))
      BY <1>1, <1>2, <2>1
    <3> QED
      BY <3>1, <1>1, <1>2
  <2> QED
    BY <2>1, <2>2, <1>1, <1>2 DEF FailuresAtEnd
<1>4. ASSUME n + 1 < FailureThreshold, FailuresAtEnd(t, FailureThreshold) PROVE FALSE
  <2>1. Len(s) > n /\ Len(s) - n \in 1..Len(s)
    BY <1>0, <1>1, <1>2, <1>4 DEF FailuresAtEnd
  <2>2. t[Len(s) - n] = "success"
    BY <2>1, <1>1 DEF EndsWith
  <2>3. Len(s) - n \in (Len(t) - FailureThreshold + 1)..Len(t)
    BY <2>1, <1>0, <1>1, <1>2, <1>4
  <2> QED
    BY <2>2, <2>3, <1>4 DEF FailuresAtEnd
<1> QED
  BY <1>0, <1>3, <1>4

\* A closed breaker trips on exactly FailureThreshold consecutive recorded
\* failures, for every number of callers and every overlap of theirs.
THEOREM BreakerTripsOnConsecutive == Spec => TripsOnConsecutive
<1>1. ASSUME HInv, NEW c \in Callers, state = "Closed", RecordFailure(c)
      PROVE  state' = "Open" <=> FailuresAtEnd(Append(recent, "failure"), FailureThreshold)
  <2>1. recent \in Seq(Outcomes) /\ failures \in Nat /\ failures < FailureThreshold
        /\ EndsWith(recent, failures)
    BY <1>1 DEF HInv, TypeOK, BreakerTypeOK, CountsFailures, Outcomes
  <2>2. state' = "Open" <=> failures + 1 >= FailureThreshold
    BY <1>1, <2>1 DEF RecordFailure, Trip
  <2> QED
    BY <2>1, <2>2, RunCompletes
<1>2. HInv /\ [Next]_vars =>
        [\A c \in Callers :
           state = "Closed" /\ RecordFailure(c) =>
             (state' = "Open" <=> FailuresAtEnd(Append(recent, "failure"), FailureThreshold))]_vars
  BY <1>1
<1> QED
  BY <1>2, BreakerInvariant, PTL DEF Spec, TripsOnConsecutive

\* A half-open breaker closes after SuccessThreshold recorded successes and opens
\* at the first failure.
THEOREM BreakerHalfOpenDecides == Spec => HalfOpenDecides
<1> DEFINE Decides ==
      state = "HalfOpen" =>
         /\ state' = "Closed" => recent = [i \in 1..(SuccessThreshold - 1) |-> "success"]
         /\ state' = "HalfOpen" => \A i \in 1..Len(recent') : recent'[i] = "success"
<1>1. ASSUME HInv, HInv', Next PROVE Decides
  <2> SUFFICES ASSUME state = "HalfOpen" PROVE Decides
    OBVIOUS
  <2>0. /\ recent \in Seq(Outcomes) /\ successes \in 0..(SuccessThreshold - 1)
        /\ Len(recent) = successes /\ \A i \in 1..successes : recent[i] = "success"
    BY <1>1 DEF HInv, TypeOK, BreakerTypeOK, CountsSuccesses, Outcomes
  <2>1. ASSUME state' = "HalfOpen" PROVE \A i \in 1..Len(recent') : recent'[i] = "success"
    BY <1>1, <2>1 DEF HInv, CountsSuccesses
  <2>2. ASSUME state' = "Closed" PROVE successes = SuccessThreshold - 1
    <3>1. PICK c \in Callers : RecordSuccess(c)
      BY <1>1, <2>2 DEF Next, Admitted, Allow, MayProbe, Succeeded, Failed, RecordFailure, Trip,
                        GaveUp, Abandon, Time, Tick
    <3> QED
      BY <3>1, <2>0, <2>2, CircuitBreakerAssumption DEF RecordSuccess, CircuitBreakerAssumption
  <2>3. ASSUME state' = "Closed"
        PROVE  recent = [i \in 1..(SuccessThreshold - 1) |-> "success"]
    BY <2>0, <2>2, <2>3
  <2> QED
    BY <2>1, <2>3
<1>2. HInv /\ HInv' /\ [Next]_vars => [Decides]_vars
  BY <1>1
<1> QED
  BY <1>2, BreakerInvariant, PTL DEF Spec, HalfOpenDecides

-----------------------------------------------------------------------------
(* The proxy.                                                              *)

\* A request backs off only before another attempt.
Bounds == \A r \in Requests : pc[r] = "backoff" => attempt[r] < MaxAttempts

\* The inductive invariant.
IInv ==
    /\ ProxyTypeOK
    /\ Bounds
    /\ CallersAccounted

InBreaker == {"limit", "prepare", "call", "backoff", "record"}

-----------------------------------------------------------------------------
\* The initial states satisfy the invariant.
LEMMA InitInv == ASSUME ProxyInit PROVE IInv
<1>1. ProxyTypeOK
  BY HInitInv, LinkProxyAssumption
  DEF LinkProxyAssumption, ProxyInit, HInv, ProxyTypeOK, Responses, Answers
<1>2. Bounds /\ CallersAccounted
  BY DEF ProxyInit, HInit, Init, Bounds, CallersAccounted
<1> QED
  BY <1>1, <1>2 DEF IInv

-----------------------------------------------------------------------------
(* The proxy implements the breaker.                                       *)

\* Every step of the proxy is a step of its breaker or leaves it alone.
LEMMA BreakerSees == ASSUME [ProxyNext]_linkVars PROVE [Next]_vars
<1>1. ASSUME NEW r \in Requests, Serve(r) PROVE [Next]_vars
  <2>1. CASE Admit(r)
    BY <2>1 DEF Admit, Next, Requests
  <2>2. CASE RateLimited(r)
    BY <2>2 DEF RateLimited, Next, Requests
  <2>3. CASE Prepare(r)
    BY <2>3 DEF Prepare, Next, Requests
  <2>4. CASE Record(r)
    BY <2>4 DEF Record, Next, Requests
  <2>5. CASE Reject(r) \/ Refuse(r) \/ Limit(r) \/ CallOk(r) \/ CallTransient(r)
             \/ CallPermanent(r) \/ Backoff(r) \/ Reply(r)
    BY <2>5 DEF Reject, Refuse, Limit, CallOk, CallTransient, CallPermanent, Backoff, Reply
  <2> QED
    BY <1>1, <2>1, <2>2, <2>3, <2>4, <2>5 DEF Serve
<1>2. ASSUME NEW r \in Requests, Again(r) \/ Disconnect(r) PROVE [Next]_vars
  BY <1>2 DEF Again, Disconnect
<1>3. CASE Refill \/ Upstream
  BY <1>3 DEF Refill, Upstream
<1>4. CASE Passes
  BY <1>4 DEF Passes, Next
<1>5. CASE UNCHANGED linkVars
  BY <1>5 DEF linkVars
<1> QED
  BY <1>1, <1>2, <1>3, <1>4, <1>5 DEF ProxyNext

\* The proxy of a target implements the circuit breaker: what holds of the breaker
\* and its callers holds of the requests, whatever path they take.
THEOREM ProxyImplementsBreaker == ProxySpec => Spec
<1>1. ProxyInit => HInit
  BY DEF ProxyInit
<1>2. [ProxyNext]_linkVars => [Next]_vars
  BY BreakerSees
<1> QED
  BY <1>1, <1>2, PTL DEF ProxySpec, Spec

-----------------------------------------------------------------------------
\* A step of one request that leaves the breaker's callers alone stays on one side
\* of the admission.
LEMMA SameSide ==
    ASSUME IInv, NEW r \in Requests, inflight' = inflight,
           \A q \in Requests : q # r => pc'[q] = pc[q],
           pc'[r] \in InBreaker <=> pc[r] \in InBreaker
    PROVE  CallersAccounted'
BY DEF IInv, CallersAccounted, InBreaker

\* A request leaves the breaker's callers with its admission.
LEMMA LeavesBoth ==
    ASSUME IInv, NEW r \in Requests, Leaves(r),
           \A q \in Requests : q # r => pc'[q] = pc[q],
           pc'[r] \notin InBreaker
    PROVE  CallersAccounted'
BY DEF IInv, CallersAccounted, InBreaker, Leaves

\* Every step of a request keeps the callers accounted for, its types and bounds.
LEMMA ServeInv ==
    ASSUME IInv, NEW r \in Requests, Serve(r), TypeOK'
    PROVE  IInv'
<1> USE LinkProxyAssumption
    DEF LinkProxyAssumption, IInv, ProxyTypeOK, Bounds, Goes, Say, callVars, outside, vars, breakerVars
<1>0. "2xx" \in Responses /\ "4xx" \in Responses /\ "5xx" \in Responses
      /\ {"early", "2xx", "gateway error", "upstream error",
          "upstream error without its body"} \subseteq Answers
  BY DEF Responses, Answers
<1>1. CASE Reject(r) \/ Refuse(r)
  <2>1. /\ UNCHANGED <<attempt, resp, body, err, gone, tokens, healthy>>
        /\ pc' = [pc EXCEPT ![r] = "answered"]
        /\ \E a \in Answers : answer' = [answer EXCEPT ![r] = a]
    BY <1>0, <1>1 DEF Reject, Refuse
  <2>3. ProxyTypeOK' /\ Bounds'
    BY <2>1
  <2>2. CallersAccounted'
    BY <1>1, SameSide DEF Reject, Refuse, InBreaker
  <2> QED
    BY <2>2, <2>3
<1>2. CASE Admit(r)
  <2>1. ProxyTypeOK' /\ Bounds'
    BY <1>2 DEF Admit
  <2>2. CallersAccounted'
    BY <1>2 DEF Admit, Admitted, Allow, CallersAccounted
  <2> QED
    BY <2>1, <2>2
<1>3. CASE Limit(r)
  <2>1. ProxyTypeOK' /\ Bounds'
    BY <1>3 DEF Limit
  <2>2. CallersAccounted'
    BY <1>3, SameSide DEF Limit, InBreaker
  <2> QED
    BY <2>1, <2>2
<1>4. CASE RateLimited(r)
  <2>1. ProxyTypeOK' /\ Bounds'
    BY <1>0, <1>4 DEF RateLimited
  <2>2. CallersAccounted'
    BY <1>4, LeavesBoth DEF RateLimited, GaveUp, Abandon, InBreaker
  <2> QED
    BY <2>1, <2>2
<1>5. CASE Prepare(r)
  <2>1. UNCHANGED <<resp, body, err, gone, tokens, healthy>> /\ pc[r] = "prepare"
    BY <1>5 DEF Prepare
  <2>2. CASE /\ pc' = [pc EXCEPT ![r] = "call"]
             /\ attempt' = [attempt EXCEPT ![r] = 1]
             /\ inflight' = inflight /\ answer' = answer
    <3>1. ProxyTypeOK' /\ Bounds'
      BY <2>1, <2>2
    <3>2. CallersAccounted'
      BY <2>1, <2>2, SameSide DEF InBreaker
    <3> QED
      BY <3>1, <3>2
  <2>3. CASE /\ pc' = [pc EXCEPT ![r] = "answered"]
             /\ answer' = [answer EXCEPT ![r] = "early"]
             /\ attempt' = attempt /\ Leaves(r)
    <3>1. ProxyTypeOK' /\ Bounds'
      BY <1>0, <2>1, <2>3
    <3>2. CallersAccounted'
      BY <2>3, LeavesBoth DEF InBreaker
    <3> QED
      BY <3>1, <3>2
  <2> QED
    BY <1>5, <2>2, <2>3 DEF Prepare, GaveUp, Abandon
<1>6. CASE CallOk(r)
  <2>1. ProxyTypeOK' /\ Bounds'
    BY <1>0, <1>6 DEF CallOk
  <2>2. CallersAccounted'
    BY <1>6, SameSide DEF CallOk, InBreaker
  <2> QED
    BY <2>1, <2>2
<1>7. CASE CallTransient(r)
  <2>1. ProxyTypeOK'
    BY <1>0, <1>7 DEF CallTransient
  <2>2. Bounds'
    BY <1>7 DEF CallTransient
  <2>3. CallersAccounted'
    BY <1>7, SameSide DEF CallTransient, InBreaker
  <2> QED
    BY <2>1, <2>2, <2>3
<1>8. CASE CallPermanent(r)
  <2>1. ProxyTypeOK' /\ Bounds'
    BY <1>0, <1>8 DEF CallPermanent
  <2>2. CallersAccounted'
    BY <1>8, SameSide DEF CallPermanent, InBreaker
  <2> QED
    BY <2>1, <2>2
<1>9. CASE Backoff(r)
  <2>1. UNCHANGED <<resp, body, answer, gone, tokens, healthy>> /\ attempt[r] < MaxAttempts
    BY <1>9 DEF Backoff
  <2>2. ASSUME /\ pc' = [pc EXCEPT ![r] = "record"]
               /\ err' = [err EXCEPT ![r] = TRUE] /\ attempt' = attempt
        PROVE  ProxyTypeOK' /\ Bounds'
    BY <2>1, <2>2
  <2>3. ASSUME /\ pc' = [pc EXCEPT ![r] = "call"]
               /\ attempt' = [attempt EXCEPT ![r] = @ + 1] /\ err' = err
        PROVE  ProxyTypeOK' /\ Bounds'
    BY <2>1, <2>3
  <2>4. ProxyTypeOK' /\ Bounds'
    BY <1>9, <2>2, <2>3 DEF Backoff
  <2>5. CallersAccounted'
    BY <1>9, SameSide DEF Backoff, InBreaker
  <2> QED
    BY <2>4, <2>5
<1>10. CASE Record(r)
  <2>1. ProxyTypeOK' /\ Bounds'
    BY <1>10 DEF Record
  <2>2. Leaves(r)
    BY <1>10 DEF Record, Succeeded, Failed, RecordSuccess, RecordFailure
  <2>3. CallersAccounted'
    BY <1>10, <2>2, LeavesBoth DEF Record, InBreaker
  <2> QED
    BY <2>1, <2>3
<1>11. CASE Reply(r)
  <2>1. /\ pc' = [pc EXCEPT ![r] = "answered"]
        /\ \E a \in Answers : answer' = [answer EXCEPT ![r] = a]
    BY <1>0, <1>11 DEF Reply
  <2>3. /\ attempt' = [attempt EXCEPT ![r] = 0] /\ resp' = [resp EXCEPT ![r] = "none"]
        /\ body' = [body EXCEPT ![r] = FALSE] /\ err' = [err EXCEPT ![r] = FALSE]
        /\ gone' = gone \ {r} /\ tokens' = tokens /\ healthy' = healthy
    BY <1>11 DEF Reply
  <2>4. ProxyTypeOK' /\ Bounds'
    BY <2>1, <2>3
  <2>2. CallersAccounted'
    BY <1>11, SameSide DEF Reply, InBreaker
  <2> QED
    BY <2>2, <2>4
<1> QED
  BY <1>1, <1>2, <1>3, <1>4, <1>5, <1>6, <1>7, <1>8, <1>9, <1>10, <1>11 DEF Serve

\* Every step preserves the invariant.
LEMMA NextInv == ASSUME IInv, TypeOK', ProxyNext PROVE IInv'
<1>1. TypeOK'
  OBVIOUS
<1>2. ASSUME NEW r \in Requests, Serve(r) PROVE IInv'
  BY <1>1, <1>2, ServeInv
<1>3. ASSUME NEW r \in Requests, Again(r) PROVE IInv'
  <2>1. ProxyTypeOK' /\ Bounds'
    BY <1>1, <1>3 DEF Again, IInv, ProxyTypeOK, Bounds, Goes, Say, callVars, outside, Answers
  <2>2. CallersAccounted'
    BY <1>3, SameSide DEF Again, IInv, ProxyTypeOK, Goes, vars, breakerVars, InBreaker
  <2> QED
    BY <2>1, <2>2 DEF IInv
<1>4. ASSUME UNCHANGED requestVars, inflight' = inflight,
             gone' \subseteq Requests, tokens' \in 0..Burst, healthy' \in BOOLEAN
      PROVE  IInv'
  <2>1. ProxyTypeOK' /\ Bounds'
    BY <1>1, <1>4 DEF IInv, ProxyTypeOK, Bounds, requestVars, Answers, Responses
  <2>2. CallersAccounted'
    BY <1>4 DEF IInv, CallersAccounted, requestVars
  <2> QED
    BY <2>1, <2>2 DEF IInv
<1>5. ASSUME NEW r \in Requests, Disconnect(r) PROVE IInv'
  BY <1>4, <1>5 DEF Disconnect, vars, breakerVars, IInv, ProxyTypeOK
<1>6. CASE Refill
  BY <1>4, <1>6, LinkProxyAssumption
  DEF LinkProxyAssumption, Refill, vars, breakerVars, IInv, ProxyTypeOK
<1>7. CASE Upstream
  BY <1>4, <1>7 DEF Upstream, vars, breakerVars, IInv, ProxyTypeOK
<1>8. CASE Passes
  BY <1>4, <1>8 DEF Passes, Time, Tick, proxyVars, IInv, ProxyTypeOK
<1> QED
  BY <1>2, <1>3, <1>5, <1>6, <1>7, <1>8 DEF ProxyNext

\* The invariant does not depend on anything but the variables.
LEMMA StutterInv == ASSUME IInv, TypeOK', UNCHANGED linkVars PROVE IInv'
BY DEF linkVars, vars, breakerVars, proxyVars, requestVars, IInv, ProxyTypeOK, Bounds,
       CallersAccounted, Answers, Responses

-----------------------------------------------------------------------------
\* The invariant holds in every reachable state.
THEOREM ProxyInvariant == ProxySpec => []IInv
<1>1. IInv /\ TypeOK' /\ [ProxyNext]_linkVars => IInv'
  BY NextInv, StutterInv
<1>2. ProxyInit => IInv
  BY InitInv
<1>3. ProxySpec => []TypeOK
  BY ProxyImplementsBreaker, BreakerTypeCorrect, PTL
<1> QED
  BY <1>1, <1>2, <1>3, PTL DEF ProxySpec

\* The types of the requests' state: in particular the attempts of a request never
\* exceed the configured number, and the breaker's counters stay in bounds.
THEOREM ProxyTypeCorrect == ProxySpec => []ProxyTypeOK
<1>1. IInv => ProxyTypeOK
  BY DEF IInv
<1> QED
  BY <1>1, ProxyInvariant, PTL

\* The breaker's callers are the requests between admission and report, on every
\* path through ServeHTTP.
THEOREM ProxyCallersAccounted == ProxySpec => []CallersAccounted
<1>1. IInv => CallersAccounted
  BY DEF IInv
<1> QED
  BY <1>1, ProxyInvariant, PTL

\* While a target's circuit is open its upstream sees only requests that were
\* admitted before.
THEOREM ProxyOpenAdmitsNobody == ProxySpec => []OpenAdmitsNobody
BY ProxyImplementsBreaker, BreakerOpenAdmitsNobody, PTL

\* The circuit of a target opens on exactly FailureThreshold consecutive failed
\* requests, whatever the others answer early.
THEOREM ProxyTripsOnConsecutive == ProxySpec => TripsOnConsecutive
BY ProxyImplementsBreaker, BreakerTripsOnConsecutive

\* It closes after SuccessThreshold successful requests and opens at a failed one.
THEOREM ProxyHalfOpenDecides == ProxySpec => HalfOpenDecides
BY ProxyImplementsBreaker, BreakerHalfOpenDecides
=============================================================================
