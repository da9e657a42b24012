---------------------------- MODULE CircuitBreaker ----------------------------
(***************************************************************************)
(* The circuit breaker of one fiso-link target (internal/link/            *)
(* circuitbreaker/breaker.go) and its concurrent callers: each asks Allow, *)
(* and when it was admitted reports one outcome later, or none at all if   *)
(* it gives up before it calls the upstream.  Every method runs under the  *)
(* breaker's mutex, so each is one step; between a caller's two steps      *)
(* anything may happen.                                                    *)
(*                                                                         *)
(* Time is the number of ticks since lastFailure, which is all the breaker *)
(* looks at; it stops counting at the reset timeout.                       *)
(***************************************************************************)
EXTENDS Integers

CONSTANTS
    Callers,            \* concurrent requests for the target
    FailureThreshold,   \* circuitBreaker.failureThreshold
    SuccessThreshold,   \* circuitBreaker.successThreshold
    ResetTimeout        \* circuitBreaker.resetTimeout, in ticks

ASSUME CircuitBreakerAssumption ==
    /\ FailureThreshold \in Nat \ {0}
    /\ SuccessThreshold \in Nat \ {0}
    /\ ResetTimeout \in Nat

VARIABLES
    state,      \* "Closed", "Open" or "HalfOpen"
    failures,
    successes,
    elapsed,    \* ticks since lastFailure, up to ResetTimeout
    inflight    \* callers admitted that have not reported yet

counters == <<failures, successes, elapsed>>
breakerVars == <<state, counters, inflight>>

Init ==
    /\ state = "Closed"
    /\ failures = 0
    /\ successes = 0
    /\ elapsed = ResetTimeout
    /\ inflight = {}

-----------------------------------------------------------------------------
\* An open breaker lets a caller through when the reset timeout has elapsed.
MayProbe == state = "Open" /\ elapsed >= ResetTimeout

\* Mutant: every admission restarts the count of successes.
Allow_ResetsCount(c) ==
    /\ c \notin inflight
    /\ inflight' = inflight \cup {c}
    /\ successes' = 0
    /\ \/ MayProbe /\ state' = "HalfOpen"
       \/ state # "Open" /\ UNCHANGED state
    /\ UNCHANGED <<failures, elapsed>>

\* Allow returns nil.
Allow(c) ==
    /\ c \notin inflight
    /\ inflight' = inflight \cup {c}
    /\ \/ MayProbe /\ state' = "HalfOpen" /\ successes' = 0
       \/ state # "Open" /\ UNCHANGED <<state, successes>>
    /\ UNCHANGED <<failures, elapsed>>

\* Allow returns ErrCircuitOpen.
Refuses == state = "Open" /\ ~MayProbe

\* A caller that was admitted reports, or gives up.
Leaves(c) == c \in inflight /\ inflight' = inflight \ {c}

\* Mutant: a success closes the breaker in whatever state it is.
RecordSuccess_AnyState(c) ==
    /\ Leaves(c)
    /\ state' = "Closed"
    /\ failures' = 0
    /\ successes' = 0
    /\ UNCHANGED elapsed

\* Mutant: a success does not clear the count of failures.
RecordSuccess_KeepsFailures(c) ==
    /\ Leaves(c)
    /\ IF state = "HalfOpen" /\ successes + 1 >= SuccessThreshold
       THEN state' = "Closed" /\ failures' = 0 /\ successes' = 0
       ELSE /\ successes' = IF state = "HalfOpen" THEN successes + 1 ELSE successes
            /\ UNCHANGED <<state, failures>>
    /\ UNCHANGED elapsed

\* RecordSuccess: counted while half-open, a fresh start while closed, ignored
\* while open.
RecordSuccess(c) ==
    /\ Leaves(c)
    /\ \/ /\ state = "HalfOpen"
          /\ successes + 1 >= SuccessThreshold
          /\ state' = "Closed"
          /\ failures' = 0
          /\ successes' = 0
       \/ /\ state = "HalfOpen"
          /\ successes + 1 < SuccessThreshold
          /\ successes' = successes + 1
          /\ UNCHANGED <<state, failures>>
       \/ state = "Closed" /\ failures' = 0 /\ UNCHANGED <<state, successes>>
       \/ state = "Open" /\ UNCHANGED <<state, failures, successes>>
    /\ UNCHANGED elapsed

\* The breaker opens: lastFailure is now.
Trip == state' = "Open" /\ elapsed' = 0

\* RecordFailure: counted while closed, trips a half-open breaker, ignored
\* while open.
RecordFailure(c) ==
    /\ Leaves(c)
    /\ \/ /\ state = "Closed"
          /\ failures' = failures + 1
          /\ IF failures + 1 >= FailureThreshold THEN Trip ELSE UNCHANGED <<state, elapsed>>
          /\ UNCHANGED successes
       \/ state = "HalfOpen" /\ Trip /\ successes' = 0 /\ UNCHANGED failures
       \/ state = "Open" /\ UNCHANGED <<state, counters>>

\* A caller that was admitted gives up without an outcome.
Abandon(c) == Leaves(c) /\ UNCHANGED <<state, counters>>

Tick ==
    /\ elapsed < ResetTimeout
    /\ elapsed' = elapsed + 1
    /\ UNCHANGED <<state, failures, successes, inflight>>

-----------------------------------------------------------------------------
\* The types, with the counters below their thresholds where they count.
BreakerTypeOK ==
    /\ state \in {"Closed", "Open", "HalfOpen"}
    /\ failures \in 0..FailureThreshold
    /\ successes \in 0..(SuccessThreshold - 1)
    /\ elapsed \in 0..ResetTimeout
    /\ inflight \subseteq Callers
=============================================================================
