----------------------------- MODULE RateLimiter -----------------------------
(***************************************************************************)
(* The token-bucket limiter of internal/gateway/ratelimit.go: requests     *)
(* that call Allow, and the eviction loop, on one map of buckets.          *)
(*                                                                         *)
(* Allow and evict read the clock BEFORE they take the mutex, so a section *)
(* may run with a time stamp older than what the map already holds.  Each  *)
(* is therefore two steps: read the clock, then the critical section.      *)
(*                                                                         *)
(* Tokens are counted in units, Token units to a token and Rate units per  *)
(* clock tick, so that rates that are not whole numbers of tokens per tick *)
(* stay in the integers.                                                   *)
(***************************************************************************)
EXTENDS Integers, FiniteSets

CONSTANTS
    Keys,         \* client identities (RateLimitKey)
    Requests,     \* goroutines that serve requests
    Token, Rate,  \* RequestsPerSecond = Rate * Second / Token
    Burst,        \* RateLimiterConfig.Burst, in tokens; 0 when it is not set
    IdleTTL,      \* RateLimiterConfig.IdleTTL, in ticks
    Second,       \* ticks in the second that Retry-After counts in
    MaxSkew,      \* longest time between reading the clock and the section
    MaxClock      \* bound of the model: ticks the clock runs

ASSUME RateLimiterAssumption ==
    /\ Token \in Nat \ {0} /\ Rate \in Nat \ {0} /\ Burst \in Nat
    /\ IdleTTL \in Nat \ {0} /\ Second \in Nat \ {0}
    /\ MaxSkew \in Nat /\ MaxClock \in Nat

VARIABLES
    clock,
    buckets,   \* the map: a function on the keys it holds
    calls,     \* requests inside Allow: who, for which key, with which stamp
    evictNow,  \* the stamp of an evict() under way, or Idle
    stopped,   \* Close was called
    spent,     \* history: the units each client was admitted for
    comeback   \* history: when the last 429 told the client to come back

vars == <<clock, buckets, calls, evictNow, stopped, spent, comeback>>

Idle == -1       \* no time stamp

\* NewRateLimiter: a burst that is not set is the whole tokens of one second.
burst == IF Burst = 0 THEN (Rate * Second) \div Token ELSE Burst

Capacity == burst * Token
Stamps == 0 .. MaxClock
Calls == [req : Requests, key : Keys, now : Stamps]

Bucket == [tokens : 0 .. Capacity, last : Stamps, seen : Stamps]

-----------------------------------------------------------------------------
(* The code that runs with the mutex held.                                 *)

\* Seeded fault: the refill is not capped at the burst size.
Fault_refillUncapped(bk, now) ==
    LET elapsed == now - bk.last
    IN  IF elapsed > 0
        THEN [bk EXCEPT !.tokens = @ + elapsed * Rate, !.last = now]
        ELSE bk

\* Refill for the elapsed time; a stamp older than the last refill adds none.
refill(bk, now) ==
    LET elapsed == now - bk.last
        filled  == bk.tokens + elapsed * Rate
    IN  IF elapsed > 0
        THEN [bk EXCEPT !.tokens = IF filled > Capacity THEN Capacity ELSE filled,
                        !.last = now]
        ELSE bk

\* The bucket Allow works on: found or created, refilled and marked as seen.
current(key, now) ==
    LET found == IF key \in DOMAIN buckets
                 THEN buckets[key]
                 ELSE [tokens |-> Capacity, last |-> now, seen |-> now]
    IN  [refill(found, now) EXCEPT !.seen = now]

\* Seeded fault: an answer of less than a second becomes zero.
Fault_retryAfterZero(bk) == (Token - bk.tokens) \div (Rate * Second)

\* Middleware's Retry-After: the time to one whole token in whole seconds,
\* rounded down, at least one.
retryAfter(bk) ==
    LET seconds == (Token - bk.tokens) \div (Rate * Second)
    IN  IF seconds < 1 THEN 1 ELSE seconds

Store(key, bk) == [k \in DOMAIN buckets \cup {key} |-> IF k = key THEN bk ELSE buckets[k]]

-----------------------------------------------------------------------------
(* The actions.                                                            *)

Init ==
    /\ clock = 0
    /\ buckets = [k \in {} |-> 0]
    /\ calls = {}
    /\ evictNow = Idle
    /\ stopped = FALSE
    /\ spent = [k \in Keys |-> 0]
    /\ comeback = [k \in Keys |-> Idle]

\* Allow, line 1: a request of client k reads the clock.
Enter(q, k) ==
    /\ \A x \in calls : x.req # q
    /\ calls' = calls \cup {[req |-> q, key |-> k, now |-> clock]}
    /\ UNCHANGED <<clock, buckets, evictNow, stopped, spent, comeback>>

\* Allow, the critical section of call x, when it takes a token; Middleware
\* goes on to the next handler.
Admit(x) ==
    LET bk == current(x.key, x.now)
    IN  /\ bk.tokens >= Token
        /\ buckets' = Store(x.key, [bk EXCEPT !.tokens = @ - Token])
        /\ spent' = [spent EXCEPT ![x.key] = @ + Token]
        /\ comeback' = [comeback EXCEPT ![x.key] = Idle]
        /\ calls' = calls \ {x}
        /\ UNCHANGED <<clock, evictNow, stopped>>

\* Allow, the critical section, when there is no whole token; Middleware
\* answers 429 with Retry-After.
Reject(x) ==
    LET bk == current(x.key, x.now)
    IN  /\ bk.tokens < Token
        /\ buckets' = Store(x.key, bk)
        /\ comeback' = [comeback EXCEPT ![x.key] = clock + retryAfter(bk) * Second]
        /\ calls' = calls \ {x}
        /\ UNCHANGED <<clock, evictNow, stopped, spent>>

\* evictLoop: the ticker fires and evict reads the clock.
StartEvict ==
    /\ ~stopped /\ evictNow = Idle
    /\ evictNow' = clock
    /\ UNCHANGED <<clock, buckets, calls, stopped, spent, comeback>>

\* Seeded fault: IdleTTL is ignored.
Fault_expiredAtOnce(bk) == bk.seen < evictNow

\* Has the bucket been idle for IdleTTL?
expired(bk) == bk.seen < evictNow - IdleTTL

\* evict, the critical section.
Evict ==
    /\ evictNow # Idle
    /\ buckets' = [k \in {x \in DOMAIN buckets : ~expired(buckets[x])} |-> buckets[k]]
    /\ evictNow' = Idle
    /\ UNCHANGED <<clock, calls, stopped, spent, comeback>>

\* Close, when the server shuts down: the loop ends, an evict under way does
\* not.
Close ==
    /\ ~stopped
    /\ stopped' = TRUE
    /\ UNCHANGED <<clock, buckets, calls, evictNow, spent, comeback>>

\* The clock.  A request is not kept from the mutex for longer than MaxSkew.
Tick ==
    /\ clock < MaxClock
    /\ \A x \in calls : clock - x.now < MaxSkew
    /\ clock' = clock + 1
    /\ UNCHANGED <<buckets, calls, evictNow, stopped, spent, comeback>>

Next ==
    \/ \E q \in Requests, k \in Keys : Enter(q, k)
    \/ \E x \in calls : Admit(x) \/ Reject(x)
    \/ StartEvict \/ Evict \/ Close
    \/ Tick

Spec == Init /\ [][Next]_vars

-----------------------------------------------------------------------------
(* Properties.                                                             *)

\* Type invariant: in particular no bucket is over its burst or in debt.
TypeOK ==
    /\ clock \in Stamps
    /\ DOMAIN buckets \subseteq Keys
    /\ \A k \in DOMAIN buckets : buckets[k] \in Bucket
    /\ calls \subseteq Calls
    /\ \A x, y \in calls : x.req = y.req => x = y
    /\ evictNow \in Stamps \cup {Idle}
    /\ stopped \in BOOLEAN
    /\ spent \in [Keys -> Nat]
    /\ comeback \in [Keys -> Nat \cup {Idle}]

\* The contract of the limiter: no client is ever served more than its burst
\* plus the sustained rate, whatever order the stamped sections run in and
\* whenever its bucket is evicted and created anew, full.
RateHeld == \A k \in Keys : spent[k] <= Capacity + Rate * clock

\* "so a well-behaved client can back off correctly instead of guessing": a
\* client that waits for its Retry-After, and whose tokens nobody took in the
\* meantime, is not rejected again.
RetryAfterHonoured ==
    [][\A x \in calls :
         Reject(x) => comeback[x.key] = Idle \/ x.now < comeback[x.key]]_vars
==============================================================================
