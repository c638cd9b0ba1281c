------------------------------- MODULE Breaker -------------------------------
(***************************************************************************)
(* The circuit breaker of internal/platform/resilience/breaker.go, driven  *)
(* by concurrent callers.                                                  *)
(*                                                                         *)
(* A caller runs Breaker.Do: allow() under the mutex, then fn (the call to *)
(* the dependency) with the mutex free, then record() or release() under   *)
(* the mutex.  Each critical section is one action; everything that can    *)
(* happen while fn runs is an interleaving of the actions of others.       *)
(*                                                                         *)
(* The fields of the Go struct are the fields of the record b.  Its two    *)
(* time stamps are kept as the time elapsed since them, windowAge for      *)
(* Now() - windowStart and openAge for Now() - openedAt: the code only     *)
(* ever compares those differences with Window and OpenTimeout, so they    *)
(* saturate there, and the clock needs no bound.                           *)
(***************************************************************************)
EXTENDS Integers, FiniteSets

CONSTANTS
    Callers,             \* goroutines that share the breaker
    MinimumRequests,     \* BreakerConfig.MinimumRequests
    RatioNum, RatioDen,  \* BreakerConfig.FailureRatio = RatioNum / RatioDen
    OpenTimeout,         \* BreakerConfig.OpenTimeout, in clock ticks
    HalfOpenMaxCalls,    \* BreakerConfig.HalfOpenMaxCalls
    HalfOpenSuccesses,   \* BreakerConfig.HalfOpenSuccesses
    Window,              \* BreakerConfig.Window, in clock ticks
    MaxCallTime,         \* longest time fn takes (the client's Timeout)
    MalformedURLs,       \* does fn also fail before it has asked the dependency?
    MaxWindowCalls       \* bound of the model: calls counted in one window

\* What withDefaults leaves in the configuration, whatever the caller set.
ConfigOK ==
    /\ MinimumRequests \in Nat \ {0} /\ OpenTimeout \in Nat \ {0}
    /\ HalfOpenMaxCalls \in Nat \ {0} /\ HalfOpenSuccesses \in Nat \ {0}
    /\ Window \in Nat \ {0}
    /\ RatioNum \in Nat \ {0} /\ RatioDen \in Nat \ {0}
    /\ RatioNum <= RatioDen

ASSUME BreakerAssumption ==
    /\ ConfigOK
    /\ IsFiniteSet(Callers)
    /\ MaxCallTime \in Nat /\ MalformedURLs \in BOOLEAN
    /\ MaxWindowCalls \in Nat

VARIABLES
    b,         \* the Breaker struct
    inflight,  \* callers between allow() and record() or release()
    age,       \* how long each of them has been there (0 for the others)
    trials,    \* history: in-flight calls admitted in this half-open period
    healthy    \* environment: does the dependency answer?

vars == <<b, inflight, age, trials, healthy>>

StateClosed   == "closed"
StateOpen     == "open"
StateHalfOpen == "half_open"

Breakers ==
    [state : {StateClosed, StateOpen, StateHalfOpen},
     successes : Nat, failures : Nat,
     halfOpenActive : 0 .. HalfOpenMaxCalls,
     halfOpenOK : 0 .. HalfOpenSuccesses - 1,
     windowAge : 0 .. Window, openAge : 0 .. OpenTimeout]

-----------------------------------------------------------------------------
(* The methods that run with the mutex held, as functions of the struct.   *)

resetCountsLocked(br) ==
    [br EXCEPT !.successes = 0, !.failures = 0,
               !.halfOpenActive = 0, !.halfOpenOK = 0, !.windowAge = 0]

openLocked(br) ==
    resetCountsLocked([br EXCEPT !.state = StateOpen, !.openAge = 0])

\* Seeded fault: half-open as soon as anyone asks, OpenTimeout ignored.
Fault_maybeHalfOpenEager(br) ==
    IF br.state = StateOpen
    THEN [br EXCEPT !.state = StateHalfOpen,
                    !.halfOpenActive = 0, !.halfOpenOK = 0]
    ELSE br

maybeHalfOpenLocked(br) ==
    IF br.state = StateOpen /\ br.openAge >= OpenTimeout
    THEN [br EXCEPT !.state = StateHalfOpen,
                    !.halfOpenActive = 0, !.halfOpenOK = 0]
    ELSE br

rollWindowLocked(br) ==
    IF br.windowAge >= Window
    THEN [br EXCEPT !.windowAge = 0, !.successes = 0, !.failures = 0]
    ELSE br

\* Seeded fault: the ratio must be exceeded, not reached.
Fault_TrippingAbove(br) ==
    LET total == br.successes + br.failures
    IN  total >= MinimumRequests /\ br.failures * RatioDen > RatioNum * total

\* The test of record() on a failed call in the closed state.
Tripping(br) ==
    LET total == br.successes + br.failures
    IN  total >= MinimumRequests /\ br.failures * RatioDen >= RatioNum * total

\* Seeded fault: one trial too many.
Fault_admitsOneMore(br) ==
    \/ br.state = StateClosed
    \/ br.state = StateHalfOpen /\ br.halfOpenActive <= HalfOpenMaxCalls

\* Seeded fault: an open breaker lets calls through.
Fault_admitsWhenOpen(br) ==
    \/ br.state # StateHalfOpen
    \/ br.halfOpenActive < HalfOpenMaxCalls

\* Does allow() admit a call, once a pending transition has been applied?
admits(br) ==
    \/ br.state = StateClosed
    \/ br.state = StateHalfOpen /\ br.halfOpenActive < HalfOpenMaxCalls

\* What allow() does to the struct when it admits the call.
allow(br) ==
    IF br.state = StateHalfOpen
    THEN [br EXCEPT !.halfOpenActive = @ + 1]
    ELSE rollWindowLocked(br)

\* Seeded fault: an abandoned trial keeps its slot.
Fault_releaseNothing(br) == br

release(br) ==
    IF br.state = StateHalfOpen /\ br.halfOpenActive > 0
    THEN [br EXCEPT !.halfOpenActive = @ - 1]
    ELSE br

\* record() in the half-open state: the freed slot, then the verdict.
recordHalfOpen(br, ok) ==
    LET freed == release(br)
    IN  IF ~ok THEN openLocked(freed)
        ELSE IF br.halfOpenOK + 1 >= HalfOpenSuccesses
        THEN resetCountsLocked([freed EXCEPT !.state = StateClosed])
        ELSE [freed EXCEPT !.halfOpenOK = @ + 1]

\* record() in the closed state: only a failure looks at the ratio.
recordClosed(br, ok) ==
    LET rolled  == rollWindowLocked(br)
        counted == IF ok THEN [rolled EXCEPT !.successes = @ + 1]
                         ELSE [rolled EXCEPT !.failures = @ + 1]
    IN  IF ~ok /\ Tripping(counted) THEN openLocked(counted) ELSE counted

record(br, ok) ==
    CASE br.state = StateHalfOpen -> recordHalfOpen(br, ok)
      [] br.state = StateClosed   -> recordClosed(br, ok)
      [] br.state = StateOpen     -> br

-----------------------------------------------------------------------------
(* The actions.                                                            *)

NewBreaker ==
    [state |-> StateClosed, successes |-> 0, failures |-> 0,
     halfOpenActive |-> 0, halfOpenOK |-> 0, windowAge |-> 0,
     openAge |-> 0]

Init ==
    /\ b = NewBreaker
    /\ inflight = {}
    /\ age = [c \in Callers |-> 0]
    /\ trials = {}
    /\ healthy \in BOOLEAN

\* Keeps the counts finite: no new call once the window is full, unless the
\* call would start the next window.
WithinBound(br) ==
    \/ br.windowAge >= Window
    \/ br.successes + br.failures + Cardinality(inflight) < MaxWindowCalls

\* Do, up to the call of fn: allow() reserves capacity.
Admit(c) ==
    LET m == maybeHalfOpenLocked(b)
    IN  /\ c \notin inflight
        /\ WithinBound(m)
        /\ admits(m)
        /\ b' = allow(m)
        /\ inflight' = inflight \cup {c}
        /\ trials' = IF m.state = StateHalfOpen THEN trials \cup {c} ELSE {}
        /\ UNCHANGED <<age, healthy>>

\* Do, when allow() returns ErrBreakerOpen: fn is not called.
Reject(c) ==
    LET m == maybeHalfOpenLocked(b)
    IN  /\ c \notin inflight
        /\ ~admits(m)
        /\ b' = m
        /\ UNCHANGED <<inflight, age, trials, healthy>>

\* The end of fn for caller c, with the new value of the struct.
Leave(c, br) ==
    /\ c \in inflight
    /\ b' = br
    /\ inflight' = inflight \ {c}
    /\ age' = [age EXCEPT ![c] = 0]
    /\ trials' = IF br.state = StateHalfOpen THEN trials \ {c} ELSE {}
    /\ UNCHANGED healthy

\* Do, when fn returned nil.
Succeed(c) == Leave(c, record(b, TRUE))

\* Do, when fn returned an error that is not the caller's own cancellation: the
\* dependency's, or its own about a request that cannot be made.
Fail(c) == (~healthy \/ MalformedURLs) /\ Leave(c, record(b, FALSE))

\* Seeded fault: the caller's own cancellation counts against the dependency.
Fault_CancelCounts(c) == Leave(c, record(b, FALSE))

\* Do, when the caller's context ended and fn returned that error.
Cancel(c) == Leave(c, release(b))

\* State(): readiness probes and GET /api/v1/dependencies apply a pending
\* transition without making a call.
State ==
    /\ b' = maybeHalfOpenLocked(b)
    /\ UNCHANGED <<inflight, age, trials, healthy>>

Saturate(n, limit) == IF n < limit THEN n + 1 ELSE limit

\* The clock advances.  It waits for calls that have used up MaxCallTime:
\* http.Client.Timeout ends fn by then.
Tick ==
    /\ \A c \in inflight : age[c] < MaxCallTime
    /\ b' = [b EXCEPT !.windowAge = Saturate(@, Window),
                      !.openAge = Saturate(@, OpenTimeout)]
    /\ age' = [c \in Callers |-> IF c \in inflight THEN age[c] + 1 ELSE 0]
    /\ UNCHANGED <<inflight, trials, healthy>>

\* The dependency breaks down or recovers.
Flip ==
    /\ healthy' = ~healthy
    /\ UNCHANGED <<b, inflight, age, trials>>

Next ==
    \/ \E c \in Callers : Admit(c) \/ Reject(c) \/ Succeed(c) \/ Fail(c) \/ Cancel(c)
    \/ State
    \/ Tick
    \/ Flip

Spec == Init /\ [][Next]_vars

\* The clock runs, some caller asks whenever the breaker would admit it, and
\* callers do not abandon every call that the dependency would answer.
Fairness ==
    /\ WF_vars(Tick)
    /\ WF_vars(\E c \in Callers : Admit(c))
    /\ \A c \in Callers : SF_vars(Succeed(c))

FairSpec == Spec /\ Fairness

-----------------------------------------------------------------------------
(* Properties.                                                             *)

\* Type invariant: in particular no counter of the half-open state ever
\* leaves the range its guards in allow() and record() are meant to keep.
TypeOK ==
    /\ b \in Breakers
    /\ inflight \subseteq Callers
    /\ age \in [Callers -> 0 .. MaxCallTime]
    /\ trials \subseteq inflight
    /\ healthy \in BOOLEAN

\* A reserved half-open slot always belongs to a trial that is still running
\* and will give it back.  If a slot could outlive its call, allow() would
\* refuse every further trial and the breaker would never leave half-open.
NoLeakedSlots ==
    b.state = StateHalfOpen => b.halfOpenActive <= Cardinality(trials)

\* While the breaker is open the dependency is left alone: every call still
\* running was admitted before the breaker opened.
NoCallWhileOpen ==
    b.state = StateOpen => \A c \in inflight : age[c] >= b.openAge

\* "HalfOpenMaxCalls bounds concurrent trial calls in the half-open state"
\* (BreakerConfig): release() and record() give back a slot per finished
\* call, and no more trials than slots ever run.
TrialsBounded == Cardinality(trials) <= HalfOpenMaxCalls

\* Only a call admitted in the current half-open period decides whether the
\* breaker closes or re-opens; the outcome of a call that was sent before the
\* outage says nothing about the recovery.
TrialsDecide ==
    [][b.state = StateHalfOpen /\ b'.state # StateHalfOpen
       => \E c \in trials : c \notin inflight']_vars

\* record() looks at the ratio after failures only, so a success that completes
\* MinimumRequests may leave the breaker closed at the ratio.  But once
\* MinimumRequests failures are counted in a window, a closed breaker is under it.
UnderRatio(br) ==
    br.state = StateClosed /\ br.failures >= MinimumRequests
        => br.failures * RatioDen < RatioNum * (br.successes + br.failures)

\* UnderRatio holds of the breaker at all times, whatever is in flight: in a
\* full outage record() opens it at the MinimumRequests-th failure.
OutageTrips == UnderRatio(b)

\* Once the dependency stays healthy the breaker closes and stays closed: no
\* interleaving of late outcomes and abandoned trials wedges it.  (A stream of
\* requests that cannot be made would: see BadRequestsDoNotTrip of Upstream.)
Recovers == <>[]healthy => <>[](b.state = StateClosed)
==============================================================================
