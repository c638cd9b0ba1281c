------------------------------ MODULE Upstream -------------------------------
(***************************************************************************)
(* The resilient client of internal/platform/httpx/client.go: requests     *)
(* that share one Upstream, each running the loop of resilience.Retry      *)
(* (retry.go) around Breaker.Do around one HTTP attempt.                   *)
(*                                                                         *)
(* Module Breaker is composed, not repeated: every step of a request that  *)
(* enters or leaves the breaker is an action of Breaker conjoined with     *)
(* what the loop does.                                                     *)
(***************************************************************************)
EXTENDS Integers, FiniteSets

CONSTANTS
    Callers, MinimumRequests, RatioNum, RatioDen, OpenTimeout,
    HalfOpenMaxCalls, HalfOpenSuccesses, Window, MaxCallTime, MaxWindowCalls,
    MalformedURLs,         \* are there paths that make no URL? (module Gateway)
    MaxAttempts,           \* RetryConfig.MaxAttempts
    BaseDelay, MaxDelay,   \* RetryConfig.BaseDelay and MaxDelay, in ticks
    JitterNum, JitterDen,  \* RetryConfig.JitterFraction = JitterNum / JitterDen
    Deadlines              \* time the request's context may have left at do()

VARIABLES
    b, inflight, age, trials, healthy,  \* as in Breaker
    r                                   \* each caller's activation of do()

B == INSTANCE Breaker

breakerVars == <<b, inflight, age, trials, healthy>>
vars == <<b, inflight, age, trials, healthy, r>>

\* What RetryConfig.withDefaults leaves.
RetryConfigOK ==
    /\ MaxAttempts \in Nat \ {0}
    /\ BaseDelay \in Nat \ {0} /\ MaxDelay \in Nat \ {0}
    /\ JitterNum \in Nat /\ JitterDen \in Nat \ {0} /\ JitterNum <= JitterDen

\* Deadlines are those the Timeout middleware puts on every request's context.
ASSUME UpstreamAssumption ==
    /\ RetryConfigOK
    /\ B!ConfigOK
    /\ IsFiniteSet(Callers)
    /\ Deadlines \subseteq Nat
    /\ MaxCallTime \in Nat /\ MaxWindowCalls \in Nat /\ MalformedURLs \in BOOLEAN

Outcomes == {"none", "success", "client_error", "error", "breaker_open"}

\* left is the time to the context's deadline, 0 once it is over or the client
\* went away; result is lastErr while the loop runs and what do() returned after
\* it; malformed says that baseURL and path make no URL; spent is history: the
\* time this do() has passed in calls and sleeps.
Activations ==
    [phase : {"idle", "ready", "calling", "sleeping"}, malformed : BOOLEAN,
     attempt : 1 .. MaxAttempts, left : Nat, wait : Nat,
     result : Outcomes, spent : Nat]

-----------------------------------------------------------------------------
(* The retry policy.                                                       *)

\* Seeded fault: the exponential growth is not capped.
Fault_backoffUncapped(attempt) == BaseDelay * 2^(attempt - 1)

\* The nominal backoff after an attempt: doubled each time, then capped.
backoff(attempt) ==
    LET raw == BaseDelay * 2^(attempt - 1)
    IN  IF raw > MaxDelay THEN MaxDelay ELSE raw

\* The delays that symmetric jitter can make of the backoff; it is applied
\* after the cap, so a delay may be longer than MaxDelay.
delayFor(attempt) ==
    LET nominal == backoff(attempt)
    IN  {d \in 0 .. 2 * nominal :
            /\ (d - nominal) * JitterDen <= nominal * JitterNum
            /\ (nominal - d) * JitterDen <= nominal * JitterNum}

Idle == [phase |-> "idle", malformed |-> FALSE, attempt |-> 1, left |-> 0, wait |-> 0,
         result |-> "none", spent |-> 0]

\* do() returns; its outcome is also the label of the request metric.
finish(outcome) == [Idle EXCEPT !.result = outcome]

\* Seeded fault: the caller's deadline is not compared with the delay.
Fault_backOffPastDeadline(q, err, d) ==
    [q EXCEPT !.phase = "sleeping", !.wait = d, !.result = err]

\* The backoff of d after an error, unless the deadline would pass during it.
backOff(q, err, d) ==
    IF q.left <= d
    THEN finish(err)
    ELSE [q EXCEPT !.phase = "sleeping", !.wait = d, !.result = err]

\* Seeded fault: one attempt too many.
Fault_afterErrorOneMore(q, err, permanent) ==
    IF permanent \/ q.attempt > MaxAttempts \/ q.left = 0
    THEN {finish(err)}
    ELSE {backOff(q, err, d) : d \in delayFor(q.attempt)}

\* The loop body of Retry after fn returned err: the next values of the
\* activation, one per delay that jitter may pick.
afterError(q, err, permanent) ==
    IF permanent \/ q.attempt = MaxAttempts \/ q.left = 0
    THEN {finish(err)}
    ELSE {backOff(q, err, d) : d \in delayFor(q.attempt)}

-----------------------------------------------------------------------------
(* The actions.                                                            *)

Init == B!Init /\ r = [c \in Callers |-> Idle]

\* Get or Post: a handler calls do() with some of its request's time left.
Begin(c) ==
    /\ r[c].phase = "idle"
    /\ \E t \in Deadlines, bad \in {FALSE, MalformedURLs} :
         r' = [r EXCEPT ![c] = [Idle EXCEPT !.phase = "ready", !.left = t, !.malformed = bad]]
    /\ UNCHANGED breakerVars

\* Retry, top of the loop: the context has ended.
GiveUp(c) ==
    /\ r[c].phase = "ready" /\ r[c].left = 0
    /\ r' = [r EXCEPT ![c] =
               finish(IF @.result = "none" THEN "error" ELSE @.result)]
    /\ UNCHANGED breakerVars

\* The breaker admits the attempt and the request goes out.
Attempt(c) ==
    /\ r[c].phase = "ready" /\ r[c].left > 0
    /\ B!Admit(c)
    /\ r' = [r EXCEPT ![c].phase = "calling"]

\* The breaker rejects the attempt.  ErrBreakerOpen is not Permanent.
Rejected(c) ==
    /\ r[c].phase = "ready" /\ r[c].left > 0
    /\ B!Reject(c)
    /\ \E q \in afterError(r[c], "breaker_open", FALSE) : r' = [r EXCEPT ![c] = q]

\* attempt: a response below 500 other than 429 is a result, a 4xx included.
Answer(c) ==
    /\ r[c].phase = "calling" /\ ~r[c].malformed
    /\ B!Succeed(c)
    /\ \E outcome \in {"success", "client_error"} :
         r' = [r EXCEPT ![c] = finish(outcome)]

\* attempt: 5xx, 429, a transport error or the client's timeout.
AttemptFails(c) ==
    /\ r[c].phase = "calling" /\ ~r[c].malformed /\ ~healthy
    /\ B!Fail(c)
    /\ \E q \in afterError(r[c], "error", FALSE) : r' = [r EXCEPT ![c] = q]

\* attempt: http.NewRequestWithContext refuses the URL at once, and the error is
\* Permanent.  To the breaker it is one like any other.
Malformed(c) ==
    /\ r[c].phase = "calling" /\ r[c].malformed
    /\ B!Fail(c)
    /\ \E q \in afterError(r[c], "error", TRUE) : r' = [r EXCEPT ![c] = q]

\* attempt: the context ended first and the HTTP client reports that.
AttemptCancelled(c) ==
    /\ r[c].phase = "calling" /\ ~r[c].malformed /\ r[c].left = 0
    /\ B!Cancel(c)
    /\ \E q \in afterError(r[c], "error", FALSE) : r' = [r EXCEPT ![c] = q]

\* sleepCtx: the timer fires, and the loop starts its next attempt; or the
\* context ends first, and Retry returns the last error.
Wake(c) ==
    /\ r[c].phase = "sleeping"
    /\ \/ /\ r[c].wait = 0
          /\ r' = [r EXCEPT ![c].phase = "ready", ![c].attempt = @ + 1]
       \/ /\ r[c].left = 0
          /\ r' = [r EXCEPT ![c] = finish(@.result)]
    /\ UNCHANGED breakerVars

\* BreakerState: the gateway's readiness and dependency reports.
BreakerState == B!State /\ UNCHANGED r

\* Environment: the client goes away, which ends the request's context.
Disconnect(c) ==
    /\ r[c].phase # "idle" /\ r[c].left > 0
    /\ r' = [r EXCEPT ![c].left = 0]
    /\ UNCHANGED breakerVars

Running(c) == r[c].phase \in {"calling", "sleeping"}

\* The clock.  Timers fire on time and the HTTP client obeys its context, so
\* time waits for whoever is due.
Tick ==
    /\ \A c \in Callers :
         /\ Running(c) => r[c].left > 0
         /\ r[c].phase = "sleeping" => r[c].wait > 0
         /\ r[c].phase = "calling" => ~r[c].malformed
    /\ B!Tick
    /\ r' = [c \in Callers |->
               [r[c] EXCEPT !.left = IF @ > 0 THEN @ - 1 ELSE 0,
                            !.wait = IF @ > 0 THEN @ - 1 ELSE 0,
                            !.spent = IF Running(c) THEN @ + 1 ELSE @]]

Flip == B!Flip /\ UNCHANGED r

Next ==
    \/ \E c \in Callers :
         \/ Begin(c) \/ GiveUp(c) \/ Attempt(c) \/ Rejected(c) \/ Answer(c)
         \/ AttemptFails(c) \/ Malformed(c) \/ AttemptCancelled(c) \/ Wake(c) \/ Disconnect(c)
    \/ BreakerState
    \/ Tick
    \/ Flip

Spec == Init /\ [][Next]_vars

-----------------------------------------------------------------------------
(* Properties.                                                             *)

\* Type invariant: in particular no request makes more than MaxAttempts
\* attempts.
TypeOK ==
    /\ B!TypeOK
    /\ r \in [Callers -> Activations]

\* The longest delay jitter makes of a capped backoff.
WorstDelay == MaxDelay + (MaxDelay * JitterNum) \div JitterDen

\* The time one dependency can take from its caller is bounded by the
\* configuration alone, whatever breaker, dependency and other requests do:
\* this is what lets ScoreReading give up on the catalog and still have time
\* for the scorer within one request's deadline.
WithinBudget ==
    \A c \in Callers :
        r[c].spent <= MaxAttempts * MaxCallTime + (MaxAttempts - 1) * WorstDelay

\* "if the caller's deadline would elapse during a backoff, Retry returns
\* rather than sleeping past it": a sleeper whose context has not been ended
\* wakes up with time left for the attempt it slept for.
BackoffFitsDeadline ==
    \A c \in Callers :
        r[c].phase = "sleeping" /\ r[c].left > 0 => r[c].wait < r[c].left

Opens == b.state # B!StateOpen /\ b'.state = B!StateOpen

\* "counting it would let client timeouts trip the circuit" (Breaker.Do): clients
\* that hang up, deadlines that pass under a call or a backoff, and answers that
\* arrive in whatever state of the breaker never open it while the dependency is
\* healthy.  Only an attempt whose URL was refused does.
OnlyFailuresTrip ==
    [][Opens => ~healthy \/ \E c \in inflight \ inflight' : r[c].malformed]_vars

\* "a client sending bad requests says nothing about the dependency's health"
\* (Upstream.attempt, of the answers it keeps from the breaker): whatever the
\* clients send, only an unhealthy dependency opens its breaker.
BadRequestsDoNotTrip == [][Opens => ~healthy]_vars

\* As the gateway uses it only the trials decide how the half-open state ends,
\* although retries of requests from before the outage compete for the slots:
\* the client's timeout ends every attempt before the open period is over, so
\* none from before the outage is still running when the trials begin.
TrialsDecide == B!TrialsDecide
==============================================================================
