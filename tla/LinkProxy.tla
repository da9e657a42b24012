------------------------------ MODULE LinkProxy ------------------------------
(***************************************************************************)
(* The HTTP forward proxy of fiso-link for one target                      *)
(* (internal/link/proxy/http.go ServeHTTP): concurrent requests pass the   *)
(* path check, the circuit breaker, the rate limiter, the resolver, the    *)
(* credentials and the outbound interceptors, call the upstream with       *)
(* retries (internal/link/retry), report to the breaker and answer.  The   *)
(* breaker is BreakerHistory, its callers are the requests.                *)
(*                                                                         *)
(* The upstream, the clients, the resolver, the credentials and the        *)
(* interceptors are modelled by their outcomes; the limiter's token bucket *)
(* (golang.org/x/time/rate) by its tokens.  A request's slot is used again *)
(* by the next request, so requests never run out.                         *)
(***************************************************************************)
EXTENDS BreakerHistory

CONSTANTS
    MaxAttempts,    \* retry.maxAttempts after buildRetryConfig
    Burst           \* rateLimit.burst after Limiter.Set

ASSUME LinkProxyAssumption ==
    /\ MaxAttempts \in Nat \ {0}
    /\ Burst \in Nat \ {0}

VARIABLES
    pc,         \* pc[r]: the request's next step
    attempt,    \* attempt[r]: the attempt it is at
    resp,       \* resp[r]: the latest upstream response, "none" after an error
    body,       \* body[r]: the response's body is unread
    err,        \* err[r]: retry.Do returned an error
    answer,     \* answer[r]: what the client got
    gone,       \* clients that went away: their request's context is done
    tokens,     \* tokens of the target's bucket
    healthy     \* the upstream answers 2xx

requestVars == <<pc, attempt, resp, body, err, answer>>
proxyVars == <<requestVars, gone, tokens, healthy>>
linkVars == <<vars, proxyVars>>

Requests == Callers

Responses == {"2xx", "4xx", "5xx"}
Answers == {"none", "early", "2xx", "gateway error", "upstream error",
            "upstream error without its body"}

ProxyInit ==
    /\ HInit
    /\ pc = [r \in Requests |-> "new"]
    /\ attempt = [r \in Requests |-> 0]
    /\ resp = [r \in Requests |-> "none"]
    /\ body = [r \in Requests |-> FALSE]
    /\ err = [r \in Requests |-> FALSE]
    /\ answer = [r \in Requests |-> "none"]
    /\ gone = {}
    /\ tokens = Burst
    /\ healthy \in BOOLEAN

\* The request is at step from and goes to step to.
Goes(r, from, to) == pc[r] = from /\ pc' = [pc EXCEPT ![r] = to]

Say(r, a) == answer' = [answer EXCEPT ![r] = a]

\* What a request keeps of its upstream call.
callVars == <<attempt, resp, body, err>>
outside == <<gone, tokens, healthy>>

-----------------------------------------------------------------------------
(* Before the upstream is called.                                          *)

\* No such route or target, or a path that is not allowed.
Reject(r) ==
    /\ Goes(r, "new", "answered")
    /\ Say(r, "early")
    /\ UNCHANGED <<vars, callVars, outside>>

\* The circuit is open.
Refuse(r) ==
    /\ Goes(r, "new", "answered")
    /\ Refuses
    /\ Say(r, "early")
    /\ UNCHANGED <<vars, callVars, outside>>

\* The breaker admits the request.
Admit(r) ==
    /\ Goes(r, "new", "limit")
    /\ Admitted(r)
    /\ UNCHANGED <<callVars, answer, outside>>

\* A token is taken.
Limit(r) ==
    /\ Goes(r, "limit", "prepare")
    /\ tokens > 0
    /\ tokens' = tokens - 1
    /\ UNCHANGED <<vars, callVars, answer, gone, healthy>>

\* No token: the request is answered, and the breaker hears nothing.
RateLimited(r) ==
    /\ Goes(r, "limit", "answered")
    /\ tokens = 0
    /\ Say(r, "early")
    /\ GaveUp(r)
    /\ UNCHANGED <<callVars, outside>>

\* Host, credentials, body and outbound interceptors: all there, or an answer
\* the breaker hears nothing of.
Prepare(r) ==
    /\ \/ /\ Goes(r, "prepare", "call")
          /\ attempt' = [attempt EXCEPT ![r] = 1]
          /\ UNCHANGED <<vars, answer>>
       \/ /\ Goes(r, "prepare", "answered")
          /\ Say(r, "early")
          /\ GaveUp(r)
          /\ UNCHANGED attempt
    /\ UNCHANGED <<resp, body, err, outside>>

-----------------------------------------------------------------------------
(* retry.Do around one upstream call.                                      *)

\* fn returned nil: a response below 400.
CallOk(r) ==
    /\ Goes(r, "call", "record")
    /\ r \notin gone
    /\ resp' = [resp EXCEPT ![r] = "2xx"]
    /\ body' = [body EXCEPT ![r] = TRUE]
    /\ UNCHANGED <<vars, attempt, err, answer, outside>>

\* fn returned a transient error: the call failed, or 5xx or 429, whose body fn
\* has drained and closed.  It is tried again while attempts are left.
CallTransient(r) ==
    /\ pc[r] = "call"
    /\ ~healthy \/ r \in gone
    /\ \/ resp' = [resp EXCEPT ![r] = "none"]
       \/ r \notin gone /\ resp' = [resp EXCEPT ![r] = "5xx"]
    /\ body' = [body EXCEPT ![r] = FALSE]
    /\ IF attempt[r] < MaxAttempts
       THEN pc' = [pc EXCEPT ![r] = "backoff"] /\ UNCHANGED err
       ELSE pc' = [pc EXCEPT ![r] = "record"] /\ err' = [err EXCEPT ![r] = TRUE]
    /\ UNCHANGED <<vars, attempt, answer, outside>>

\* Mutant: a permanent error returns before the breaker is told.
CallPermanent_Unreported(r) ==
    /\ Goes(r, "call", "reply")
    /\ ~healthy /\ r \notin gone
    /\ resp' = [resp EXCEPT ![r] = "4xx"]
    /\ body' = [body EXCEPT ![r] = TRUE]
    /\ err' = [err EXCEPT ![r] = TRUE]
    /\ UNCHANGED <<vars, attempt, answer, outside>>

\* fn returned a permanent error: another 4xx, its body untouched; or no request
\* can be built for the target's URL.
CallPermanent(r) ==
    /\ Goes(r, "call", "record")
    /\ ~healthy
    /\ \/ /\ r \notin gone
          /\ resp' = [resp EXCEPT ![r] = "4xx"]
          /\ body' = [body EXCEPT ![r] = TRUE]
       \/ attempt[r] = 1 /\ UNCHANGED <<resp, body>>
    /\ err' = [err EXCEPT ![r] = TRUE]
    /\ UNCHANGED <<vars, attempt, answer, outside>>

\* Mutant: the backoff does not advance the attempt.
Backoff_NoCount(r) ==
    /\ \/ r \in gone /\ Goes(r, "backoff", "record") /\ err' = [err EXCEPT ![r] = TRUE]
       \/ Goes(r, "backoff", "call") /\ UNCHANGED err
    /\ UNCHANGED <<vars, attempt, resp, body, answer, outside>>

\* The backoff's select: the timer fires, or the request's context is done; when
\* both are true it takes either.
Backoff(r) ==
    /\ \/ /\ r \in gone
          /\ Goes(r, "backoff", "record")
          /\ err' = [err EXCEPT ![r] = TRUE]
          /\ UNCHANGED attempt
       \/ /\ Goes(r, "backoff", "call")
          /\ attempt' = [attempt EXCEPT ![r] = @ + 1]
          /\ UNCHANGED err
    /\ UNCHANGED <<vars, resp, body, answer, outside>>

-----------------------------------------------------------------------------
(* After the upstream was called.                                          *)

\* The outcome of all attempts together is one outcome for the breaker.
Record(r) ==
    /\ Goes(r, "record", "reply")
    /\ IF err[r] THEN Failed(r) ELSE Succeeded(r)
    /\ UNCHANGED <<callVars, answer, outside>>

\* An error response is forwarded, no response is 502; a good response passes
\* the inbound interceptors or becomes 500.
Reply(r) ==
    /\ Goes(r, "reply", "answered")
    /\ \/ err[r] /\ resp[r] = "none" /\ Say(r, "gateway error")
       \/ /\ err[r] /\ resp[r] # "none"
          /\ Say(r, IF body[r] THEN "upstream error" ELSE "upstream error without its body")
       \/ ~err[r] /\ \E a \in {"2xx", "gateway error"} : Say(r, a)
    /\ attempt' = [attempt EXCEPT ![r] = 0]
    /\ resp' = [resp EXCEPT ![r] = "none"]
    /\ body' = [body EXCEPT ![r] = FALSE]
    /\ err' = [err EXCEPT ![r] = FALSE]
    /\ gone' = gone \ {r}
    /\ UNCHANGED <<vars, tokens, healthy>>

\* The next request takes the slot.
Again(r) ==
    /\ Goes(r, "answered", "new")
    /\ Say(r, "none")
    /\ UNCHANGED <<vars, callVars, outside>>

-----------------------------------------------------------------------------
(* The outside.                                                            *)

\* A client goes away; the handler notices from the upstream call on.
Disconnect(r) ==
    /\ pc[r] \in {"call", "backoff"}
    /\ r \notin gone
    /\ gone' = gone \cup {r}
    /\ UNCHANGED <<vars, requestVars, tokens, healthy>>

Refill ==
    /\ tokens < Burst
    /\ tokens' = tokens + 1
    /\ UNCHANGED <<vars, requestVars, gone, healthy>>

\* The upstream breaks or recovers.
Upstream ==
    /\ healthy' = ~healthy
    /\ UNCHANGED <<vars, requestVars, gone, tokens>>

Passes == Time /\ UNCHANGED proxyVars

Serve(r) ==
    \/ Reject(r) \/ Refuse(r) \/ Admit(r) \/ Limit(r) \/ RateLimited(r) \/ Prepare(r)
    \/ CallOk(r) \/ CallTransient(r) \/ CallPermanent(r) \/ Backoff(r)
    \/ Record(r) \/ Reply(r)

ProxyNext ==
    \/ \E r \in Requests : Serve(r) \/ Again(r) \/ Disconnect(r)
    \/ Refill \/ Upstream \/ Passes

ProxySpec == ProxyInit /\ [][ProxyNext]_linkVars

\* The goroutine of a request that was accepted is scheduled.
Scheduled == \A r \in Requests : WF_linkVars(pc[r] # "new" /\ Serve(r))

ProxyServesSpec == ProxySpec /\ Scheduled

(***************************************************************************)
(* Moreover clients send requests again and again, time passes and the     *)
(* bucket refills; a request that gets that far again and again gets a     *)
(* token (Limit), and its host and credentials (Prepare to "call"), now    *)
(* and then.                                                               *)
(***************************************************************************)
ProxyFairness ==
    /\ Scheduled
    /\ WF_linkVars(Passes)
    /\ WF_linkVars(Refill)
    /\ \A r \in Requests :
          /\ WF_linkVars(Again(r))
          /\ SF_linkVars(Admit(r))
          /\ SF_linkVars(Limit(r))
          /\ SF_linkVars(Prepare(r) /\ pc'[r] = "call")

ProxyFairSpec == ProxySpec /\ ProxyFairness

-----------------------------------------------------------------------------
(* Properties.                                                             *)

\* The types of the requests' state.
ProxyTypeOK ==
    /\ TypeOK
    /\ pc \in [Requests -> {"new", "limit", "prepare", "call", "backoff", "record",
                            "reply", "answered"}]
    /\ attempt \in [Requests -> 0..MaxAttempts]
    /\ resp \in [Requests -> Responses \cup {"none"}]
    /\ body \in [Requests -> BOOLEAN]
    /\ err \in [Requests -> BOOLEAN]
    /\ answer \in [Requests -> Answers]
    /\ gone \subseteq Requests
    /\ tokens \in 0..Burst
    /\ healthy \in BOOLEAN

\* The breaker's callers are the requests between admission and report: a request
\* that called the upstream has reported its outcome before it answers, on every
\* path, and the ones that return early have not.
CallersAccounted ==
    inflight = {r \in Requests : pc[r] \in {"limit", "prepare", "call", "backoff", "record"}}

\* Every admitted request is answered, even when the upstream never recovers.
RequestsAnswered == \A r \in Requests : pc[r] = "limit" ~> pc[r] = "answered"

\* When the upstream has recovered and clients stay, the breaker closes for good:
\* rate limits, failed preparations and late failures do not keep it from it.
BreakerRecovers == <>[](healthy /\ gone = {}) => <>[](state = "Closed")
=============================================================================
