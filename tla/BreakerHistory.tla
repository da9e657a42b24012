---------------------------- MODULE BreakerHistory ----------------------------
(***************************************************************************)
(* A circuit breaker with its callers, and the history its correctness is  *)
(* about: who was already in flight when the breaker opened, and the       *)
(* outcomes it recorded in the state it is in.                             *)
(***************************************************************************)
EXTENDS CircuitBreaker, Sequences

VARIABLES
    before,     \* while it is open, the callers that were in flight when it opened
    recent      \* outcomes recorded since the state was entered, the latest ones

history == <<before, recent>>
vars == <<breakerVars, history>>

HInit ==
    /\ Init
    /\ before = {}
    /\ recent = <<>>

\* How many of the latest outcomes the history keeps.
Window == IF FailureThreshold > SuccessThreshold THEN FailureThreshold ELSE SuccessThreshold

Latest(s) == IF Len(s) > Window THEN Tail(s) ELSE s

\* The history of a report: a new state starts a new one, an open breaker
\* records nothing.
Recorded(outcome) ==
    /\ recent' = IF state' # state THEN <<>>
                 ELSE IF state = "Open" THEN recent
                 ELSE Latest(Append(recent, outcome))
    /\ before' = IF state # "Open" /\ state' = "Open" THEN inflight' ELSE before

Admitted(c) ==
    /\ Allow(c)
    /\ recent' = IF state' # state THEN <<>> ELSE recent
    /\ before' = {}

Succeeded(c) == RecordSuccess(c) /\ Recorded("success")

Failed(c) == RecordFailure(c) /\ Recorded("failure")

GaveUp(c) == Abandon(c) /\ UNCHANGED history

Time == Tick /\ UNCHANGED history

Next ==
    \/ \E c \in Callers : Admitted(c) \/ Succeeded(c) \/ Failed(c) \/ GaveUp(c)
    \/ Time

Spec == HInit /\ [][Next]_vars

-----------------------------------------------------------------------------
(* Properties.                                                             *)

\* The types of the breaker and of its history.
TypeOK ==
    /\ BreakerTypeOK
    /\ before \subseteq Callers
    /\ recent \in Seq({"success", "failure"})

\* While the breaker is open the upstream sees only callers that were in flight
\* when it opened, whatever they report meanwhile and in whatever order.
OpenAdmitsNobody == state = "Open" => inflight \subseteq before

\* The last n outcomes of s are failures.
FailuresAtEnd(s, n) ==
    Len(s) >= n /\ \A i \in (Len(s) - n + 1)..Len(s) : s[i] = "failure"

\* A closed breaker trips exactly when the latest FailureThreshold outcomes it
\* recorded since it closed were all failures, however the callers overlap.
TripsOnConsecutive ==
    [][\A c \in Callers :
         state = "Closed" /\ RecordFailure(c) =>
            (state' = "Open" <=> FailuresAtEnd(Append(recent, "failure"), FailureThreshold))]_vars

\* A half-open breaker closes after SuccessThreshold successes with no failure
\* among them, and opens at the first failure.
HalfOpenDecides ==
    [][state = "HalfOpen" =>
         /\ state' = "Closed" => recent = [i \in 1..(SuccessThreshold - 1) |-> "success"]
         /\ state' = "HalfOpen" => \A i \in 1..Len(recent') : recent'[i] = "success"]_vars
=============================================================================
