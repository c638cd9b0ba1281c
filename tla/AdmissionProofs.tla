--------------------------- MODULE AdmissionProofs ---------------------------
(***************************************************************************)
(* Proofs about RateLimiter and Admission.  The limiter keeps its contract *)
(* for every rate, burst, number of clients and requests, provided         *)
(* eviction is slower than refilling; its Retry-After is enough at one     *)
(* request a second or more; and behind the authenticator, for every value *)
(* of API_KEYS, it counts each client by its own key.                      *)
(***************************************************************************)
EXTENDS Admission, TLAPS

-----------------------------------------------------------------------------
(* Inductive invariant, for the proof of RateHeld.                         *)

\* No request holds a stamp older than MaxSkew.
StampInv == \A x \in calls : x.now <= clock /\ clock - x.now <= MaxSkew

\* A bucket accounts for everything its client was served since the start.
\* seen may run behind last, by the skew at most.
BucketInv(k) ==
    LET bk == buckets[k]
    IN  /\ spent[k] + bk.tokens <= Capacity + Rate * bk.last
        /\ bk.last <= clock
        /\ bk.last <= bk.seen + MaxSkew

\* A client without a bucket has earned back its burst: the full bucket its
\* next request creates, even with the oldest stamp, gives nothing away.
AbsentInv(k) == spent[k] = 0 \/ spent[k] <= Rate * (clock - MaxSkew)

RateInv ==
    /\ TypeOK
    /\ evictNow <= clock
    /\ StampInv
    /\ \A k \in Keys : IF k \in DOMAIN buckets THEN BucketInv(k) ELSE AbsentInv(k)

-----------------------------------------------------------------------------
(* Inductive invariant, for the proof of RetryAfterHonoured.               *)

\* A client that was told to come back is told at least a second after the last
\* refill of its bucket.
RetryInv ==
    /\ TypeOK
    /\ \A x \in calls : x.now <= clock
    /\ \A k \in DOMAIN buckets :
         /\ buckets[k].last <= clock
         /\ comeback[k] # Idle => buckets[k].last + Second <= comeback[k]

-----------------------------------------------------------------------------
(* The inductive invariants behind BucketsBounded and KeysIdentify.        *)

\* Owns, as far as the first n pairs tell.
OwnsIn(c, s, n) ==
    \E i \in 1 .. n :
       /\ spec[i] = <<c, s>> /\ c # Blank /\ s # Blank
       /\ \A j \in 1 .. n : j > i /\ spec[j][1] = c => spec[j][2] = Blank

\* The map ParseKeySpec is building says who owns which key so far.
ParseInv ==
    /\ spec \in KeySpecs /\ parsed \in 0 .. Len(spec)
    /\ DOMAIN keys \subseteq Keys
    /\ \A c \in DOMAIN keys : keys[c] \in Secrets
    /\ \A c \in Keys, s \in Secrets : c \in DOMAIN keys /\ keys[c] = s <=> OwnsIn(c, s, parsed)

\* The store has every key that is owned, and one of its owners.
StoreInv ==
    /\ serving \in BOOLEAN /\ DOMAIN store \subseteq Secrets
    /\ \A s \in DOMAIN store : store[s] \in Keys /\ Owns(store[s], s)
    /\ serving => parsed = Len(spec) /\ \A c \in Keys, s \in Secrets : Owns(c, s) => s \in DOMAIN store
    /\ ~serving => DOMAIN store = {}

\* A request in the limiter carries its key, and the identity found for it.
Identified(x) ==
    IF authDisabled
    THEN presented[x.req] = Blank /\ x.key = AnonymousClient
    ELSE presented[x.req] \in DOMAIN store /\ x.key = store[presented[x.req]]

\* The clients the authenticator can find.
Known == IF authDisabled THEN {AnonymousClient} ELSE {store[s] : s \in DOMAIN store}

\* What was spent is in the account of the key and in that of its client.
AccountInv ==
    /\ presented \in [Requests -> Secrets \cup {Blank}]
    /\ spentBy \in [Secrets \cup {Blank} -> Nat]
    /\ \A x \in calls : Identified(x)
    /\ DOMAIN buckets \subseteq Known
    /\ \A s \in Secrets \ DOMAIN store : spentBy[s] = 0
    /\ refused \cap DOMAIN store = {}
    /\ \A c \in Keys, s \in Secrets : Owns(c, s) /\ ~Shared(s) => spent[c] = spentBy[s]
    /\ ~serving => /\ calls = {} /\ DOMAIN buckets = {} /\ refused = {}
                   /\ \A c \in Keys : spent[c] = 0
                   /\ \A s \in Secrets \cup {Blank} : spentBy[s] = 0

-----------------------------------------------------------------------------
(* The limiter's arithmetic.                                               *)

\* Idle buckets are kept at least until they would be full again, the skew of
\* the time stamps included.  The deployed limiter keeps them ten minutes and
\* fills them in two seconds.
SlowEviction == Capacity <= Rate * (IdleTTL - 2 * MaxSkew)

LEMMA Constants ==
    /\ Token \in Nat /\ Token > 0 /\ Rate \in Nat /\ Rate > 0
    /\ Capacity \in Nat /\ IdleTTL \in Nat /\ MaxSkew \in Nat /\ MaxClock \in Nat
    /\ Second \in Nat
<1>1. Rate * Second \in Nat
  BY RateLimiterAssumption
<1>2. ASSUME NEW n \in Nat PROVE n \div Token \in Nat
  BY RateLimiterAssumption
<1>3. burst \in Nat
  BY <1>1, <1>2, RateLimiterAssumption DEF burst
<1>4. Capacity \in Nat
  BY <1>3, RateLimiterAssumption DEF Capacity
<1> QED
  BY <1>4, RateLimiterAssumption

\* Multiplying by the rate keeps the order of two points in time.
LEMMA RateMonotone ==
    ASSUME NEW s \in Int, NEW t \in Int, s <= t
    PROVE  Rate * s <= Rate * t /\ Rate * s \in Int /\ Rate * t \in Int
BY Constants

\* The refill adds at most what the elapsed time is worth.
LEMMA RefillBound ==
    ASSUME NEW bk \in Bucket, NEW now \in Stamps
    PROVE  LET f == refill(bk, now)
           IN  /\ f \in Bucket
               /\ f.tokens <= bk.tokens + Rate * (f.last - bk.last)
               /\ f.last = IF now > bk.last THEN now ELSE bk.last
<1> DEFINE filled == bk.tokens + (now - bk.last) * Rate
<1>0. bk.tokens \in Nat /\ bk.tokens <= Capacity /\ bk.last \in Nat /\ now \in Nat
  BY Constants DEF Bucket, Stamps
<1>1. CASE now > bk.last
  <2> DEFINE t == IF filled > Capacity THEN Capacity ELSE filled
  <2>1. filled \in Nat /\ filled = bk.tokens + Rate * (now - bk.last)
    <3>1. (now - bk.last) * Rate \in Nat /\ (now - bk.last) * Rate = Rate * (now - bk.last)
      BY <1>0, <1>1, Constants
    <3> QED BY <1>0, <3>1
  <2>2. refill(bk, now) = [bk EXCEPT !.tokens = t, !.last = now]
    BY <1>0, <1>1 DEF refill
  <2> HIDE DEF filled
  <2>3. t \in 0 .. Capacity /\ t <= filled
    BY <2>1, Constants
  <2> HIDE DEF t
  <2>4. [bk EXCEPT !.tokens = t] \in Bucket
    BY <2>3 DEF Bucket
  <2>5. \A y \in Bucket : [y EXCEPT !.last = now] \in Bucket
    BY DEF Bucket
  <2>6. refill(bk, now) \in Bucket
    BY <2>2, <2>4, <2>5
  <2>7. refill(bk, now).tokens = t /\ refill(bk, now).last = now
    BY <2>2 DEF Bucket
  <2> QED BY <1>1, <2>1, <2>3, <2>6, <2>7
<1>2. CASE ~(now > bk.last)
  <2>1. refill(bk, now) = bk
    BY <1>0, <1>2 DEF refill
  <2>2. bk.tokens <= bk.tokens + Rate * (bk.last - bk.last)
    BY <1>0, Constants
  <2> QED BY <1>2, <2>1, <2>2
<1> QED BY <1>1, <1>2

\* The bucket a call works on accounts for all its client was served.
LEMMA CurrentAccounts ==
    ASSUME RateInv, NEW x \in calls
    PROVE  LET bk == current(x.key, x.now)
           IN  /\ bk \in Bucket /\ bk.seen = x.now
               /\ spent[x.key] + bk.tokens <= Capacity + Rate * bk.last
               /\ bk.last <= clock /\ bk.last <= bk.seen + MaxSkew
<1>0. /\ x.key \in Keys /\ x.now \in Stamps /\ x.now \in Nat /\ clock \in Nat
      /\ x.now <= clock /\ clock - x.now <= MaxSkew
      /\ spent[x.key] \in Nat
  BY Constants DEF RateInv, TypeOK, Calls, StampInv, Stamps
<1> DEFINE found == IF x.key \in DOMAIN buckets
                    THEN buckets[x.key]
                    ELSE [tokens |-> Capacity, last |-> x.now, seen |-> x.now]
           f == refill(found, x.now)
<1>1. /\ found \in Bucket
      /\ spent[x.key] + found.tokens <= Capacity + Rate * found.last
      /\ found.last <= clock
  <2>1. CASE x.key \in DOMAIN buckets
    BY <1>0, <2>1 DEF RateInv, TypeOK, BucketInv
  <2>2. CASE x.key \notin DOMAIN buckets
    <3>1. spent[x.key] = 0 \/ spent[x.key] <= Rate * (clock - MaxSkew)
      BY <1>0, <2>2 DEF RateInv, AbsentInv
    <3>2. Rate * (clock - MaxSkew) <= Rate * x.now /\ Rate * x.now \in Int
          /\ Rate * (clock - MaxSkew) \in Int
      BY <1>0, Constants, RateMonotone
    <3>3. 0 <= Rate * x.now
      BY <1>0, Constants
    <3>4. spent[x.key] <= Rate * x.now
      BY <1>0, <3>1, <3>2, <3>3
    <3>5. spent[x.key] + Capacity <= Capacity + Rate * x.now
      BY <1>0, <3>2, <3>4, Constants
    <3>6. found = [tokens |-> Capacity, last |-> x.now, seen |-> x.now]
      BY <2>2
    <3>7. Capacity \in 0 .. Capacity
      BY Constants
    <3> QED BY <1>0, <3>5, <3>6, <3>7 DEF Bucket
  <2> QED BY <2>1, <2>2
<1> HIDE DEF found
<1>2. /\ f \in Bucket
      /\ f.tokens <= found.tokens + Rate * (f.last - found.last)
      /\ f.last = IF x.now > found.last THEN x.now ELSE found.last
  BY <1>0, <1>1, RefillBound
<1>3. current(x.key, x.now) = [f EXCEPT !.seen = x.now]
  BY DEF current, found
<1> HIDE DEF f
<1>4. LET bk == current(x.key, x.now)
      IN  bk \in Bucket /\ bk.seen = x.now /\ bk.tokens = f.tokens /\ bk.last = f.last
  BY <1>0, <1>2, <1>3 DEF Bucket
<1>5. f.last \in Nat /\ found.last \in Nat /\ f.tokens \in Nat /\ found.tokens \in Nat
  BY <1>1, <1>2, Constants DEF Bucket, Stamps
<1>6. Rate * (f.last - found.last) = Rate * f.last - Rate * found.last
      /\ Rate * f.last \in Int /\ Rate * found.last \in Int
  BY <1>5, Constants
<1>7. spent[x.key] + f.tokens <= Capacity + Rate * f.last
  <2> DEFINE p == Rate * f.last
             q == Rate * found.last
  <2>1. p \in Int /\ q \in Int /\ f.tokens <= found.tokens + (p - q)
        /\ spent[x.key] + found.tokens <= Capacity + q
    BY <1>1, <1>2, <1>6
  <2> HIDE DEF p, q
  <2>2. spent[x.key] + f.tokens <= Capacity + p
    BY <1>0, <1>5, <2>1, Constants
  <2> QED BY <2>2 DEF p
<1>8. f.last <= clock /\ f.last <= x.now + MaxSkew
  BY <1>0, <1>1, <1>2, <1>5, Constants
<1> QED BY <1>4, <1>7, <1>8

-----------------------------------------------------------------------------

\* A section of Allow that stores the bucket bk and charges n units.
LEMMA AllowStep ==
    ASSUME RateInv, NEW x \in calls, NEW bk \in Bucket, NEW n \in Nat,
           spent[x.key] + n + bk.tokens <= Capacity + Rate * bk.last,
           bk.last <= clock, bk.last <= bk.seen + MaxSkew,
           buckets' = Store(x.key, bk), spent' = [spent EXCEPT ![x.key] = @ + n],
           comeback' \in [Keys -> Nat \cup {Idle}],
           calls' = calls \ {x}, UNCHANGED <<clock, evictNow, stopped>>
    PROVE  RateInv'
<1>0. x.key \in Keys /\ spent \in [Keys -> Nat] /\ DOMAIN buckets \subseteq Keys
  BY DEF RateInv, TypeOK, Calls
<1>1. /\ DOMAIN buckets' = DOMAIN buckets \cup {x.key}
      /\ \A k \in DOMAIN buckets' : buckets'[k] = IF k = x.key THEN bk ELSE buckets[k]
  BY DEF Store
<1>2. TypeOK'
  <2>1. spent' \in [Keys -> Nat]
    BY <1>0
  <2>2. \A k \in DOMAIN buckets' : buckets'[k] \in Bucket
    BY <1>1 DEF RateInv, TypeOK
  <2>3. DOMAIN buckets' \subseteq Keys
    BY <1>0, <1>1
  <2> QED BY <2>1, <2>2, <2>3 DEF RateInv, TypeOK
<1>3. StampInv' /\ (evictNow <= clock)'
  BY DEF RateInv, StampInv
<1>4. ASSUME NEW k \in Keys
      PROVE  (IF k \in DOMAIN buckets THEN BucketInv(k) ELSE AbsentInv(k))'
  <2>1. CASE k = x.key
    <3>1. k \in DOMAIN buckets' /\ buckets'[k] = bk /\ spent'[k] = spent[k] + n
      BY <1>0, <1>1, <2>1
    <3> QED BY <2>1, <3>1 DEF BucketInv
  <2>2. CASE k # x.key
    <3>1. spent'[k] = spent[k] /\ (k \in DOMAIN buckets' <=> k \in DOMAIN buckets)
          /\ (k \in DOMAIN buckets => buckets'[k] = buckets[k])
      BY <1>0, <1>1, <2>2
    <3> QED BY <3>1 DEF RateInv, BucketInv, AbsentInv
  <2> QED BY <2>1, <2>2
<1> QED BY <1>2, <1>3, <1>4 DEF RateInv

\* Eviction forgets only clients that have earned back their burst.
LEMMA EvictStep ==
    ASSUME SlowEviction, RateInv, Evict
    PROVE  RateInv'
<1> DEFINE kept == {k \in DOMAIN buckets : ~expired(buckets[k])}
<1>0. /\ buckets' = [k \in kept |-> buckets[k]] /\ evictNow' = Idle
      /\ UNCHANGED <<clock, calls, stopped, spent, comeback>>
  BY DEF Evict
<1>1. DOMAIN buckets' = kept /\ \A k \in kept : buckets'[k] = buckets[k]
  BY <1>0
<1>2. TypeOK'
  BY <1>0, <1>1 DEF RateInv, TypeOK
<1>3. StampInv' /\ (evictNow <= clock)'
  BY <1>0, Constants DEF RateInv, StampInv, Idle, TypeOK, Stamps
<1>4. ASSUME NEW k \in Keys
      PROVE  (IF k \in DOMAIN buckets THEN BucketInv(k) ELSE AbsentInv(k))'
  <2>1. CASE k \in kept
    BY <1>0, <1>1, <2>1 DEF RateInv, BucketInv
  <2>2. CASE k \notin DOMAIN buckets
    <3>1. AbsentInv(k)
      BY <2>2 DEF RateInv
    <3> QED BY <1>0, <1>1, <2>2, <3>1 DEF AbsentInv
  <2>3. CASE k \in DOMAIN buckets /\ expired(buckets[k])
    <3> DEFINE last == buckets[k].last
               seen == buckets[k].seen
               tokens == buckets[k].tokens
    <3>1. /\ last \in Nat /\ seen \in Nat /\ tokens \in Nat /\ clock \in Nat
          /\ spent[k] \in Nat /\ evictNow \in Nat /\ evictNow <= clock
      BY <2>3, Constants DEF RateInv, TypeOK, Bucket, Stamps, Evict, Idle
    <3>2. /\ spent[k] + tokens <= Capacity + Rate * last
          /\ last <= seen + MaxSkew /\ seen < evictNow - IdleTTL
      BY <2>3 DEF RateInv, BucketInv, expired
    <3> HIDE DEF last, seen, tokens
    <3>3. last <= clock - IdleTTL + MaxSkew
      BY <3>1, <3>2, Constants
    <3>4. Rate * last <= Rate * (clock - IdleTTL + MaxSkew)
          /\ Rate * last \in Int /\ Rate * (clock - IdleTTL + MaxSkew) \in Int
      BY <3>1, <3>3, Constants, RateMonotone
    <3>5. Rate * (IdleTTL - 2 * MaxSkew) + Rate * (clock - IdleTTL + MaxSkew)
            = Rate * (clock - MaxSkew)
          /\ Rate * (IdleTTL - 2 * MaxSkew) \in Int
      BY <3>1, Constants
    <3>6. spent[k] <= Rate * (clock - MaxSkew)
      <4> DEFINE p == Rate * last
                 q == Rate * (clock - IdleTTL + MaxSkew)
                 s == Rate * (IdleTTL - 2 * MaxSkew)
      <4>1. /\ p \in Int /\ q \in Int /\ s \in Int
            /\ spent[k] + tokens <= Capacity + p /\ p <= q /\ Capacity <= s
        BY <3>2, <3>4, <3>5 DEF SlowEviction
      <4> HIDE DEF p, q, s
      <4>2. spent[k] <= s + q
        BY <3>1, <4>1, Constants
      <4> QED BY <3>5, <4>2 DEF s, q
    <3> QED BY <1>0, <1>1, <2>3, <3>6 DEF AbsentInv
  <2> QED BY <2>1, <2>2, <2>3
<1> QED BY <1>2, <1>3, <1>4 DEF RateInv

LEMMA InitRate == Init => RateInv
<1> SUFFICES ASSUME Init PROVE RateInv
  OBVIOUS
<1>1. DOMAIN buckets = {} /\ calls = {}
  BY DEF Init
<1>2. TypeOK
  <2>1. clock \in Stamps /\ evictNow \in Stamps \cup {Idle}
    BY Constants DEF Init, Stamps
  <2>2. spent \in [Keys -> Nat] /\ comeback \in [Keys -> Nat \cup {Idle}]
    BY DEF Init
  <2> QED BY <1>1, <2>1, <2>2 DEF Init, TypeOK
<1>3. evictNow <= clock
  BY DEF Init, Idle
<1>4. \A k \in Keys : AbsentInv(k)
  BY DEF Init, AbsentInv
<1> QED BY <1>1, <1>2, <1>3, <1>4 DEF RateInv, StampInv

LEMMA NextRate ==
    ASSUME SlowEviction
    PROVE  RateInv /\ [Next]_vars => RateInv'
<1> SUFFICES ASSUME RateInv, [Next]_vars PROVE RateInv'
  OBVIOUS
<1>1. ASSUME NEW q \in Requests, NEW k \in Keys, Enter(q, k) PROVE RateInv'
  <2> DEFINE new == [req |-> q, key |-> k, now |-> clock]
  <2>1. calls' = calls \cup {new} /\ \A x \in calls : x.req # q
    BY <1>1 DEF Enter
  <2>2. new \in Calls /\ new.now = clock /\ new.req = q
    BY DEF RateInv, TypeOK, Calls
  <2>3. clock \in Nat
    BY Constants DEF RateInv, TypeOK, Stamps
  <2> HIDE DEF new
  <2>4. UNCHANGED <<clock, buckets, evictNow, stopped, spent, comeback>>
    BY <1>1 DEF Enter
  <2>5. TypeOK'
    BY <2>1, <2>2, <2>4 DEF RateInv, TypeOK
  <2>6. StampInv'
    BY <2>1, <2>2, <2>3, <2>4, Constants DEF RateInv, StampInv
  <2> QED BY <2>4, <2>5, <2>6 DEF RateInv, BucketInv, AbsentInv
<1>2. ASSUME NEW x \in calls, Admit(x) PROVE RateInv'
  <2> DEFINE bk == current(x.key, x.now)
             new == [bk EXCEPT !.tokens = @ - Token]
  <2>1. /\ bk \in Bucket /\ bk.seen = x.now
        /\ spent[x.key] + bk.tokens <= Capacity + Rate * bk.last
        /\ bk.last <= clock /\ bk.last <= bk.seen + MaxSkew
    BY CurrentAccounts
  <2>2. bk.tokens >= Token /\ buckets' = Store(x.key, new)
        /\ spent' = [spent EXCEPT ![x.key] = @ + Token]
        /\ comeback' = [comeback EXCEPT ![x.key] = Idle]
        /\ calls' = calls \ {x} /\ UNCHANGED <<clock, evictNow, stopped>>
    BY <1>2 DEF Admit
  <2>3. x.key \in Keys /\ spent[x.key] \in Nat
    BY DEF RateInv, TypeOK, Calls
  <2>4. comeback' \in [Keys -> Nat \cup {Idle}]
    BY <2>2, <2>3 DEF RateInv, TypeOK
  <2> HIDE DEF bk
  <2>5. bk.tokens \in 0 .. Capacity
    BY <2>1 DEF Bucket
  <2>6. new \in Bucket /\ new.tokens = bk.tokens - Token
        /\ new.last = bk.last /\ new.seen = bk.seen
    BY <2>1, <2>2, <2>5, Constants DEF Bucket
  <2> HIDE DEF new
  <2>7. spent[x.key] + Token + new.tokens = spent[x.key] + bk.tokens
    BY <2>3, <2>5, <2>6, Constants
  <2> QED BY <2>1, <2>2, <2>4, <2>6, <2>7, AllowStep, Constants
<1>3. ASSUME NEW x \in calls, Reject(x) PROVE RateInv'
  <2> DEFINE bk == current(x.key, x.now)
  <2>1. /\ bk \in Bucket
        /\ spent[x.key] + bk.tokens <= Capacity + Rate * bk.last
        /\ bk.last <= clock /\ bk.last <= bk.seen + MaxSkew
    BY CurrentAccounts
  <2>2. buckets' = Store(x.key, bk) /\ spent' = spent
        /\ comeback' = [comeback EXCEPT ![x.key] = clock + retryAfter(bk) * Second]
        /\ calls' = calls \ {x} /\ UNCHANGED <<clock, evictNow, stopped>>
    BY <1>3 DEF Reject
  <2>3. x.key \in Keys /\ spent[x.key] \in Nat /\ clock \in Nat /\ spent \in [Keys -> Nat]
    BY Constants DEF RateInv, TypeOK, Calls, Stamps
  <2> HIDE DEF bk
  <2>4. retryAfter(bk) \in Nat
    <3>1. bk.tokens \in Nat
      BY <2>1, Constants DEF Bucket
    <3>2. Rate * Second \in Nat /\ Rate * Second > 0
      BY RateLimiterAssumption
    <3>3. (Token - bk.tokens) \div (Rate * Second) \in Int
      BY <3>1, <3>2, Constants
    <3> QED BY <3>3 DEF retryAfter
  <2>5. clock + retryAfter(bk) * Second \in Nat
    BY <2>3, <2>4, Constants
  <2>6. comeback' \in [Keys -> Nat \cup {Idle}]
    BY <2>2, <2>3, <2>5 DEF RateInv, TypeOK
  <2>7. spent' = [spent EXCEPT ![x.key] = @ + 0]
    BY <2>2, <2>3
  <2>8. bk.tokens \in Nat /\ spent[x.key] + 0 + bk.tokens <= Capacity + Rate * bk.last
    BY <2>1, <2>3, Constants DEF Bucket
  <2> QED BY <2>1, <2>2, <2>6, <2>7, <2>8, AllowStep
<1>4. CASE StartEvict
  BY <1>4, Constants DEF StartEvict, RateInv, TypeOK, StampInv, BucketInv, AbsentInv, Stamps
<1>5. CASE Evict
  BY <1>5, EvictStep
<1>6. CASE Close
  BY <1>6 DEF Close, RateInv, TypeOK, StampInv, BucketInv, AbsentInv
<1>7. CASE Tick
  <2>1. /\ clock \in Nat /\ clock' = clock + 1 /\ clock < MaxClock
        /\ UNCHANGED <<buckets, calls, evictNow, stopped, spent, comeback>>
    BY <1>7, Constants DEF Tick, RateInv, TypeOK, Stamps
  <2>2. TypeOK' /\ (evictNow <= clock)'
    BY <2>1, Constants DEF RateInv, TypeOK, Stamps, Idle
  <2>3. StampInv'
    <3>1. ASSUME NEW x \in calls
          PROVE  x.now <= clock + 1 /\ (clock + 1) - x.now <= MaxSkew
      <4>1. x.now \in Nat /\ x.now <= clock /\ clock - x.now < MaxSkew
        BY <1>7, Constants DEF Tick, RateInv, StampInv, TypeOK, Calls, Stamps
      <4> QED BY <2>1, <4>1, Constants
    <3>2. calls' = calls /\ clock' = clock + 1
      BY <2>1
    <3> QED BY <3>1, <3>2 DEF StampInv
  <2>4. ASSUME NEW k \in Keys
        PROVE  (IF k \in DOMAIN buckets THEN BucketInv(k) ELSE AbsentInv(k))'
    <3>1. CASE k \in DOMAIN buckets
      <4>1. buckets[k].last \in Nat /\ BucketInv(k)
        BY <3>1, Constants DEF RateInv, TypeOK, Bucket, Stamps
      <4>2. buckets[k].last <= clock + 1
        BY <2>1, <4>1 DEF BucketInv
      <4>3. buckets' = buckets /\ spent' = spent /\ clock' = clock + 1
        BY <2>1
      <4>4. BucketInv(k)' /\ k \in DOMAIN buckets'
        BY <3>1, <4>1, <4>2, <4>3 DEF BucketInv
      <4> QED BY <4>4
    <3>2. CASE k \notin DOMAIN buckets
      <4>1. spent[k] \in Nat /\ AbsentInv(k)
        BY <3>2 DEF RateInv, TypeOK
      <4> DEFINE t == clock' - MaxSkew
      <4>2. t \in Int /\ clock - MaxSkew \in Int /\ clock - MaxSkew <= t
        BY <2>1, Constants
      <4> HIDE DEF t
      <4>3. Rate * (clock - MaxSkew) <= Rate * t
            /\ Rate * (clock - MaxSkew) \in Int /\ Rate * t \in Int
        BY <4>2, RateMonotone
      <4>4. spent[k] = 0 \/ spent[k] <= Rate * t
        BY <4>1, <4>3 DEF AbsentInv
      <4>5. buckets' = buckets /\ spent' = spent
        BY <2>1
      <4> QED BY <3>2, <4>4, <4>5 DEF AbsentInv, t
    <3> QED BY <3>1, <3>2
  <2> QED BY <2>2, <2>3, <2>4 DEF RateInv
<1>8. CASE UNCHANGED vars
  BY <1>8 DEF vars, RateInv, TypeOK, StampInv, BucketInv, AbsentInv
<1> QED
  BY <1>1, <1>2, <1>3, <1>4, <1>5, <1>6, <1>7, <1>8 DEF Next

LEMMA RateSuffices == RateInv => RateHeld
<1> SUFFICES ASSUME RateInv, NEW k \in Keys
             PROVE  spent[k] <= Capacity + Rate * clock
  BY DEF RateHeld
<1>0. spent[k] \in Nat /\ clock \in Nat /\ Rate * clock \in Nat
  BY Constants DEF RateInv, TypeOK, Stamps
<1>1. CASE k \in DOMAIN buckets
  <2> DEFINE last == buckets[k].last
             tokens == buckets[k].tokens
  <2>1. last \in Nat /\ tokens \in Nat /\ last <= clock
        /\ spent[k] + tokens <= Capacity + Rate * last
    BY <1>1, Constants DEF RateInv, TypeOK, Bucket, Stamps, BucketInv
  <2> HIDE DEF last, tokens
  <2>2. Rate * last <= Rate * clock /\ Rate * last \in Int
    BY <1>0, <2>1, RateMonotone
  <2> QED BY <1>0, <2>1, <2>2, Constants
<1>2. CASE k \notin DOMAIN buckets
  <2>1. spent[k] = 0 \/ spent[k] <= Rate * (clock - MaxSkew)
    BY <1>2 DEF RateInv, AbsentInv
  <2>2. Rate * (clock - MaxSkew) <= Rate * clock /\ Rate * (clock - MaxSkew) \in Int
    BY <1>0, Constants, RateMonotone
  <2> QED BY <1>0, <2>1, <2>2, Constants
<1> QED BY <1>1, <1>2

\* The limiter's contract, for every interleaving of stamped sections and
\* evictions.
THEOREM RateIsHeld ==
    ASSUME SlowEviction
    PROVE  Spec => []RateHeld
<1> QED BY InitRate, NextRate, RateSuffices, PTL DEF Spec

-----------------------------------------------------------------------------
(* Retry-After.                                                            *)

\* What a call sees of the bucket it works on.
LEMMA CurrentBucket ==
    ASSUME RetryInv, NEW x \in calls
    PROVE  LET bk == current(x.key, x.now)
               old == buckets[x.key]
           IN  /\ x.key \in Keys /\ x.now \in Stamps /\ x.req \in Requests
               /\ bk \in Bucket /\ bk.last <= clock
               /\ x.key \notin DOMAIN buckets => bk.tokens = Capacity
               /\ x.key \in DOMAIN buckets /\ x.now > old.last =>
                    bk.tokens = Capacity \/ bk.tokens = old.tokens + (x.now - old.last) * Rate
<1>0. /\ x.key \in Keys /\ x.now \in Stamps /\ x.now \in Nat /\ clock \in Nat /\ x.now <= clock
      /\ x.req \in Requests
  BY Constants DEF RetryInv, TypeOK, Calls, Stamps
<1> DEFINE found == IF x.key \in DOMAIN buckets
                    THEN buckets[x.key]
                    ELSE [tokens |-> Capacity, last |-> x.now, seen |-> x.now]
           f == refill(found, x.now)
<1>1. found \in Bucket /\ found.last <= clock /\ found.last \in Nat
  <2>1. CASE x.key \in DOMAIN buckets
    BY <1>0, <2>1, Constants DEF RetryInv, TypeOK, Bucket, Stamps
  <2>2. CASE x.key \notin DOMAIN buckets
    <3>1. Capacity \in 0 .. Capacity
      BY Constants
    <3> QED BY <1>0, <2>2, <3>1 DEF Bucket
  <2> QED BY <2>1, <2>2
<1>2. /\ x.key \in DOMAIN buckets => found = buckets[x.key]
      /\ x.key \notin DOMAIN buckets => found.tokens = Capacity /\ found.last = x.now
  OBVIOUS
<1> HIDE DEF found
<1>3. f \in Bucket /\ f.last = IF x.now > found.last THEN x.now ELSE found.last
  BY <1>0, <1>1, RefillBound
<1>4. x.now > found.last =>
        f.tokens = Capacity \/ f.tokens = found.tokens + (x.now - found.last) * Rate
  BY <1>0, <1>1 DEF refill, Bucket
<1>5. ~(x.now > found.last) => f = found
  BY <1>0, <1>1 DEF refill
<1>6. current(x.key, x.now) = [f EXCEPT !.seen = x.now]
  BY DEF current, found
<1> HIDE DEF f
<1>7. LET bk == current(x.key, x.now)
      IN  bk \in Bucket /\ bk.tokens = f.tokens /\ bk.last = f.last
  BY <1>0, <1>3, <1>6 DEF Bucket
<1>8. f.last <= clock
  BY <1>0, <1>1, <1>3
<1>9. x.key \notin DOMAIN buckets => f.tokens = Capacity
  BY <1>0, <1>2, <1>5
<1> QED BY <1>0, <1>2, <1>4, <1>7, <1>8, <1>9

\* The answer of a rejection lies in the future, by a second at least.
LEMMA RetryAfterBound ==
    ASSUME NEW bk \in Bucket
    PROVE  retryAfter(bk) \in Nat /\ retryAfter(bk) * Second \in Nat /\ retryAfter(bk) * Second >= Second
<1>1. bk.tokens \in Nat
  BY Constants DEF Bucket
<1>2. Rate * Second \in Nat /\ Rate * Second > 0
  BY RateLimiterAssumption
<1>3. (Token - bk.tokens) \div (Rate * Second) \in Int
  BY <1>1, <1>2, Constants
<1>4. retryAfter(bk) \in Nat /\ retryAfter(bk) >= 1
  BY <1>3 DEF retryAfter
<1> DEFINE n == retryAfter(bk)
<1> HIDE DEF n
<1>5. n \in Nat /\ n >= 1 => n * Second \in Nat /\ n * Second >= Second
  BY Constants
<1> QED BY <1>4, <1>5 DEF n

\* A section of Allow that stores the bucket bk.
LEMMA StoreStep ==
    ASSUME RetryInv, NEW x \in calls, NEW bk \in Bucket, bk.last <= clock,
           buckets' = Store(x.key, bk), spent' \in [Keys -> Nat],
           comeback' \in [Keys -> Nat \cup {Idle}],
           \A k \in Keys : k # x.key => comeback'[k] = comeback[k],
           comeback'[x.key] # Idle => bk.last + Second <= comeback'[x.key],
           calls' = calls \ {x}, UNCHANGED <<clock, evictNow, stopped>>
    PROVE  RetryInv'
<1>0. x.key \in Keys /\ DOMAIN buckets \subseteq Keys
  BY DEF RetryInv, TypeOK, Calls
<1>1. /\ DOMAIN buckets' = DOMAIN buckets \cup {x.key}
      /\ \A k \in DOMAIN buckets' : buckets'[k] = IF k = x.key THEN bk ELSE buckets[k]
  BY DEF Store
<1>2. TypeOK'
  <2>1. \A k \in DOMAIN buckets' : buckets'[k] \in Bucket
    BY <1>1 DEF RetryInv, TypeOK
  <2>2. DOMAIN buckets' \subseteq Keys
    BY <1>0, <1>1
  <2> QED BY <2>1, <2>2 DEF RetryInv, TypeOK
<1>3. ASSUME NEW k \in DOMAIN buckets'
      PROVE  /\ buckets'[k].last <= clock'
             /\ comeback'[k] # Idle => buckets'[k].last + Second <= comeback'[k]
  <2>1. CASE k = x.key
    BY <1>1, <2>1
  <2>2. CASE k # x.key
    <3>1. k \in DOMAIN buckets /\ k \in Keys /\ buckets'[k] = buckets[k] /\ comeback'[k] = comeback[k]
      BY <1>0, <1>1, <2>2
    <3> QED BY <3>1 DEF RetryInv
  <2> QED BY <2>1, <2>2
<1> QED BY <1>2, <1>3 DEF RetryInv

LEMMA NextRetry == RetryInv /\ [Next]_vars => RetryInv'
<1> SUFFICES ASSUME RetryInv, [Next]_vars PROVE RetryInv'
  OBVIOUS
<1>1. ASSUME NEW q \in Requests, NEW k \in Keys, Enter(q, k) PROVE RetryInv'
  <2> DEFINE new == [req |-> q, key |-> k, now |-> clock]
  <2>1. calls' = calls \cup {new} /\ \A x \in calls : x.req # q
    BY <1>1 DEF Enter
  <2>2. new \in Calls /\ new.now = clock /\ new.req = q /\ clock \in Nat
    BY Constants DEF RetryInv, TypeOK, Calls, Stamps
  <2> HIDE DEF new
  <2>3. UNCHANGED <<clock, buckets, evictNow, stopped, spent, comeback>>
    BY <1>1 DEF Enter
  <2>4. TypeOK'
    BY <2>1, <2>2, <2>3 DEF RetryInv, TypeOK
  <2>5. \A x \in calls' : x.now <= clock'
    BY <2>1, <2>2, <2>3 DEF RetryInv
  <2> QED BY <2>3, <2>4, <2>5 DEF RetryInv
<1>2. ASSUME NEW x \in calls, Admit(x) PROVE RetryInv'
  <2> DEFINE bk == current(x.key, x.now)
             new == [bk EXCEPT !.tokens = @ - Token]
  <2>1. x.key \in Keys /\ bk \in Bucket /\ bk.last <= clock
    BY CurrentBucket
  <2>2. bk.tokens >= Token /\ buckets' = Store(x.key, new)
        /\ spent' = [spent EXCEPT ![x.key] = @ + Token]
        /\ comeback' = [comeback EXCEPT ![x.key] = Idle]
        /\ calls' = calls \ {x} /\ UNCHANGED <<clock, evictNow, stopped>>
    BY <1>2 DEF Admit
  <2>3. spent' \in [Keys -> Nat]
    BY <2>1, <2>2, Constants DEF RetryInv, TypeOK
  <2>4. /\ comeback' \in [Keys -> Nat \cup {Idle}] /\ comeback'[x.key] = Idle
        /\ \A k \in Keys : k # x.key => comeback'[k] = comeback[k]
    BY <2>1, <2>2 DEF RetryInv, TypeOK
  <2> HIDE DEF bk
  <2>5. new \in Bucket /\ new.last = bk.last
    BY <2>1, <2>2, Constants DEF Bucket
  <2> HIDE DEF new
  <2> QED BY <2>1, <2>2, <2>3, <2>4, <2>5, StoreStep
<1>3. ASSUME NEW x \in calls, Reject(x) PROVE RetryInv'
  <2> DEFINE bk == current(x.key, x.now)
             n == retryAfter(bk) * Second
  <2>1. x.key \in Keys /\ bk \in Bucket /\ bk.last <= clock
    BY CurrentBucket
  <2>2. buckets' = Store(x.key, bk) /\ spent' = spent
        /\ comeback' = [comeback EXCEPT ![x.key] = clock + n]
        /\ calls' = calls \ {x} /\ UNCHANGED <<clock, evictNow, stopped>>
    BY <1>3 DEF Reject
  <2>3. n \in Nat /\ n >= Second /\ Second \in Nat
    BY <2>1, RetryAfterBound, Constants
  <2> HIDE DEF bk, n
  <2>4. clock \in Nat /\ bk.last \in Nat
    BY <2>1, Constants DEF RetryInv, TypeOK, Stamps, Bucket
  <2>5. clock + n \in Nat /\ bk.last + Second <= clock + n
    BY <2>1, <2>3, <2>4
  <2>6. /\ comeback' \in [Keys -> Nat \cup {Idle}] /\ comeback'[x.key] = clock + n
        /\ \A k \in Keys : k # x.key => comeback'[k] = comeback[k]
    BY <2>1, <2>2, <2>5 DEF RetryInv, TypeOK
  <2>7. spent' \in [Keys -> Nat]
    BY <2>2 DEF RetryInv, TypeOK
  <2> QED BY <2>1, <2>2, <2>5, <2>6, <2>7, StoreStep
<1>4. CASE StartEvict
  BY <1>4 DEF StartEvict, RetryInv, TypeOK
<1>5. CASE Evict
  <2> DEFINE kept == {k \in DOMAIN buckets : ~expired(buckets[k])}
  <2>1. buckets' = [k \in kept |-> buckets[k]] /\ evictNow' = Idle
        /\ UNCHANGED <<clock, calls, stopped, spent, comeback>>
    BY <1>5 DEF Evict
  <2>2. DOMAIN buckets' = kept /\ \A k \in kept : k \in DOMAIN buckets /\ buckets'[k] = buckets[k]
    BY <2>1
  <2> HIDE DEF kept
  <2> QED BY <2>1, <2>2 DEF RetryInv, TypeOK
<1>6. CASE Close
  BY <1>6 DEF Close, RetryInv, TypeOK
<1>7. CASE Tick
  <2>1. /\ clock \in Nat /\ clock' = clock + 1 /\ clock < MaxClock
        /\ UNCHANGED <<buckets, calls, evictNow, stopped, spent, comeback>>
    BY <1>7, Constants DEF Tick, RetryInv, TypeOK, Stamps
  <2>2. TypeOK'
    BY <2>1, Constants DEF RetryInv, TypeOK, Stamps
  <2>3. \A x \in calls : x.now \in Nat /\ x.now <= clock + 1
    BY <2>1, Constants DEF RetryInv, TypeOK, Calls, Stamps
  <2>4. \A k \in DOMAIN buckets : buckets[k].last \in Nat /\ buckets[k].last <= clock + 1
    BY <2>1, Constants DEF RetryInv, TypeOK, Bucket, Stamps
  <2> QED BY <2>1, <2>2, <2>3, <2>4 DEF RetryInv
<1>8. CASE UNCHANGED vars
  BY <1>8 DEF vars, RetryInv, TypeOK
<1> QED
  BY <1>1, <1>2, <1>3, <1>4, <1>5, <1>6, <1>7, <1>8 DEF Next

LEMMA InitRetry == Init => RetryInv
BY InitRate DEF Init, RateInv, RetryInv

LEMMA RetryHolds == Spec => []RetryInv
BY InitRetry, NextRetry, PTL DEF Spec

\* A rate of at least one request a second, and a burst of at least one.
AtLeastOneASecond == Rate * Second >= Token /\ burst >= 1

\* A call whose stamp is past the answer of the last rejection, with no
\* admission in between, finds a whole token.
LEMMA PatienceRewarded ==
    ASSUME AtLeastOneASecond, RetryInv, NEW x \in calls,
           comeback[x.key] # Idle, x.now >= comeback[x.key]
    PROVE  ~Reject(x)
<1> DEFINE bk == current(x.key, x.now)
           old == buckets[x.key]
<1>1. /\ x.key \in Keys /\ x.now \in Stamps
      /\ x.key \notin DOMAIN buckets => bk.tokens = Capacity
      /\ x.key \in DOMAIN buckets /\ x.now > old.last =>
           bk.tokens = Capacity \/ bk.tokens = old.tokens + (x.now - old.last) * Rate
  BY CurrentBucket
<1>2. Capacity >= Token /\ Capacity \in Nat /\ Token \in Nat
  <2>1. burst \in Int
    <3>1. Rate * Second \in Nat
      BY RateLimiterAssumption
    <3>2. ASSUME NEW n \in Nat PROVE n \div Token \in Nat
      BY RateLimiterAssumption
    <3> QED BY <3>1, <3>2, RateLimiterAssumption DEF burst
  <2>2. \A b \in Int : b >= 1 => b * Token >= Token
    BY Constants
  <2> QED BY <2>1, <2>2, Constants DEF AtLeastOneASecond, Capacity
<1>3. ASSUME x.key \in DOMAIN buckets
      PROVE  x.now > old.last /\ old.tokens + (x.now - old.last) * Rate >= Token
  <2>1. /\ old.last \in Nat /\ old.tokens \in Nat /\ x.now \in Nat /\ comeback[x.key] \in Int
        /\ old.last + Second <= comeback[x.key] /\ Second \in Nat /\ Second > 0
    BY <1>1, <1>3, Constants, RateLimiterAssumption DEF RetryInv, TypeOK, Bucket, Stamps, Idle
  <2> DEFINE e == x.now - old.last
  <2>2. e \in Nat /\ e >= Second /\ x.now > old.last
    BY <2>1
  <2> HIDE DEF e, old
  <2>3. Rate * Second <= Rate * e /\ Rate * e = e * Rate /\ e * Rate \in Int
    BY <2>1, <2>2, Constants, RateMonotone
  <2>4. Rate * Second \in Int /\ Rate * Second >= Token
    BY <2>1, Constants DEF AtLeastOneASecond
  <2>5. old.tokens + e * Rate >= Token
    BY <2>1, <2>3, <2>4, Constants
  <2> QED BY <2>2, <2>5 DEF e
<1>4. bk.tokens >= Token
  BY <1>1, <1>2, <1>3
<1>5. bk.tokens \in Nat
  <2>1. bk \in Bucket
    BY CurrentBucket
  <2> QED BY <2>1, Constants DEF Bucket
<1> HIDE DEF bk
<1>6. ~(bk.tokens < Token)
  BY <1>2, <1>4, <1>5
<1> QED BY <1>6 DEF Reject, bk

\* Retry-After is rounded down to whole seconds, and is still enough: a client
\* that waits for it, and whose tokens nobody took in the meantime, is not
\* rejected again, whatever order stamped sections run in and whether or not
\* its bucket was evicted.  Below one request a second it is not enough.
THEOREM RetryIsEnough ==
    ASSUME AtLeastOneASecond
    PROVE  Spec => RetryAfterHonoured
<1>1. RetryInv /\ [Next]_vars =>
        [\A x \in calls : Reject(x) => comeback[x.key] = Idle \/ x.now < comeback[x.key]]_vars
  <2> SUFFICES ASSUME RetryInv, NEW x \in calls, Reject(x), comeback[x.key] # Idle
               PROVE  x.now < comeback[x.key]
    OBVIOUS
  <2>1. x.now \in Int /\ comeback[x.key] \in Int
    BY Constants DEF RetryInv, TypeOK, Calls, Stamps, Idle
  <2>2. ~(x.now >= comeback[x.key])
    BY PatienceRewarded
  <2> QED BY <2>1, <2>2
<1> QED BY <1>1, RetryHolds, PTL DEF Spec, RetryAfterHonoured

-----------------------------------------------------------------------------
(* The key store.                                                          *)

\* What the next pair changes about who owns a key.
LEMMA OwnsNext ==
    ASSUME spec \in Seq(Pairs), NEW n \in Nat, n < Len(spec), NEW c, NEW s \in Secrets
    PROVE  OwnsIn(c, s, n + 1) <=>
             \/ spec[n + 1] = <<c, s>> /\ c # Blank
             \/ OwnsIn(c, s, n) /\ (spec[n + 1][1] # c \/ spec[n + 1][2] = Blank)
<1>0. s # Blank
  BY AdmissionAssumption
<1>1. ASSUME OwnsIn(c, s, n + 1), ~(spec[n + 1] = <<c, s>> /\ c # Blank)
      PROVE  OwnsIn(c, s, n) /\ (spec[n + 1][1] # c \/ spec[n + 1][2] = Blank)
  <2>1. PICK i \in 1 .. n + 1 :
          /\ spec[i] = <<c, s>> /\ c # Blank /\ s # Blank
          /\ \A j \in 1 .. n + 1 : j > i /\ spec[j][1] = c => spec[j][2] = Blank
    BY <1>1 DEF OwnsIn
  <2>2. i \in 1 .. n
    BY <1>1, <2>1
  <2>3. OwnsIn(c, s, n)
    BY <2>1, <2>2 DEF OwnsIn
  <2>4. n + 1 \in 1 .. n + 1 /\ n + 1 > i
    BY <2>2
  <2> QED BY <2>1, <2>3, <2>4
<1>2. ASSUME spec[n + 1] = <<c, s>>, c # Blank PROVE OwnsIn(c, s, n + 1)
  <2>1. n + 1 \in 1 .. n + 1 /\ \A j \in 1 .. n + 1 : ~(j > n + 1)
    OBVIOUS
  <2> QED BY <1>0, <1>2, <2>1 DEF OwnsIn
<1>3. ASSUME OwnsIn(c, s, n), spec[n + 1][1] # c \/ spec[n + 1][2] = Blank PROVE OwnsIn(c, s, n + 1)
  <2>1. PICK i \in 1 .. n :
          /\ spec[i] = <<c, s>> /\ c # Blank /\ s # Blank
          /\ \A j \in 1 .. n : j > i /\ spec[j][1] = c => spec[j][2] = Blank
    BY <1>3 DEF OwnsIn
  <2>2. ASSUME NEW j \in 1 .. n + 1, j > i, spec[j][1] = c PROVE spec[j][2] = Blank
    <3>1. CASE j = n + 1
      BY <1>3, <2>2, <3>1
    <3>2. CASE j # n + 1
      <4>1. j \in 1 .. n
        BY <3>2
      <4> QED BY <2>1, <2>2, <4>1
    <3> QED BY <3>1, <3>2
  <2>3. i \in 1 .. n + 1
    BY <2>1
  <2> QED BY <2>1, <2>2, <2>3 DEF OwnsIn
<1> QED BY <1>1, <1>2, <1>3

\* Who owns a key when all pairs are read.
LEMMA OwnsAll == ASSUME spec \in Seq(Pairs), NEW c, NEW s PROVE Owns(c, s) <=> OwnsIn(c, s, Len(spec))
<1>1. DOMAIN spec = 1 .. Len(spec)
  OBVIOUS
<1> QED BY <1>1, Zenon DEF Owns, OwnsIn

LEMMA OwnsKept ==
    ASSUME spec' = spec
    PROVE  /\ \A c, s : Owns(c, s)' <=> Owns(c, s)
           /\ \A s : Shared(s)' <=> Shared(s)
           /\ \A c, s, n : OwnsIn(c, s, n)' <=> OwnsIn(c, s, n)
BY DEF Owns, Shared, OwnsIn

\* The steps that leave the configuration alone.
LEMMA ConfigKept ==
    ASSUME [ANext]_avars
    PROVE  ParsePair \/ ParseKeySpec \/ UNCHANGED config
<1>1. ASSUME NEW q \in Requests, NEW cred \in Credentials, Pass(q, cred) \/ Refuse(q, cred)
      PROVE  UNCHANGED config
  BY <1>1 DEF Pass, Refuse
<1>2. ASSUME NEW x \in calls, Serve(x) \/ Throttle(x) PROVE UNCHANGED config
  BY <1>2 DEF Serve, Throttle
<1>3. Background \/ UNCHANGED avars => UNCHANGED config
  BY DEF Background, avars
<1> QED BY <1>1, <1>2, <1>3, Zenon DEF ANext

LEMMA InitParse == AInit => ParseInv
<1> SUFFICES ASSUME AInit PROVE ParseInv
  OBVIOUS
<1>1. spec \in KeySpecs /\ parsed = 0 /\ DOMAIN keys = {}
  BY DEF AInit
<1>2. Len(spec) \in Nat
  BY <1>1, AdmissionAssumption
<1>3. parsed \in 0 .. Len(spec)
  BY <1>1, <1>2
<1>4. \A c, s : ~OwnsIn(c, s, 0)
  BY DEF OwnsIn
<1> QED BY <1>1, <1>3, <1>4 DEF ParseInv

LEMMA NextParse == ParseInv /\ [ANext]_avars => ParseInv'
<1> SUFFICES ASSUME ParseInv, [ANext]_avars PROVE ParseInv'
  OBVIOUS
<1>1. CASE ParsePair
  <2> DEFINE n == parsed
             p == spec[n + 1]
  <2>0. /\ spec' = spec /\ parsed' = n + 1 /\ keys' = addPair(keys, p) /\ n < Len(spec)
    BY <1>1 DEF ParsePair
  <2>1. spec \in Seq(Pairs) /\ Len(spec) \in Nat /\ n \in Nat /\ spec \in KeySpecs
    BY AdmissionAssumption DEF ParseInv
  <2>2. p \in Pairs
    BY <2>0, <2>1
  <2>3. /\ p[1] \in Keys \cup {Blank} /\ p[2] \in Secrets \cup {Blank}
        /\ \A c, s : p = <<c, s>> <=> p[1] = c /\ p[2] = s
    BY <2>2 DEF Pairs
  <2>4. \A c, s : s \in Secrets =>
          (OwnsIn(c, s, n + 1) <=>
             \/ p = <<c, s>> /\ c # Blank
             \/ OwnsIn(c, s, n) /\ (p[1] # c \/ p[2] = Blank))
    BY <2>0, <2>1, OwnsNext
  <2>5. \A c, s : OwnsIn(c, s, n) => c # Blank /\ s # Blank
    BY DEF OwnsIn
  <2>6. /\ DOMAIN keys \subseteq Keys /\ \A c \in DOMAIN keys : keys[c] \in Secrets
        /\ \A c \in Keys, s \in Secrets : c \in DOMAIN keys /\ keys[c] = s <=> OwnsIn(c, s, n)
        /\ Blank \notin Secrets
    BY AdmissionAssumption DEF ParseInv
  <2>7. parsed' \in 0 .. Len(spec')
    BY <2>0, <2>1
  <2> HIDE DEF p, n
  <2>8. CASE p[1] = Blank \/ p[2] = Blank
    <3>1. keys' = keys
      BY <2>0, <2>8 DEF addPair
    <3>2. \A c \in Keys, s \in Secrets : OwnsIn(c, s, n + 1) <=> OwnsIn(c, s, n)
      BY <2>3, <2>4, <2>5, <2>6, <2>8
    <3>3. \A c \in Keys, s \in Secrets : c \in DOMAIN keys' /\ keys'[c] = s <=> OwnsIn(c, s, n + 1)
      BY <2>6, <3>1, <3>2
    <3> QED BY <2>0, <2>1, <2>6, <2>7, <3>1, <3>3, OwnsKept DEF ParseInv
  <2>9. CASE ~(p[1] = Blank \/ p[2] = Blank)
    <3>1. keys' = [c \in DOMAIN keys \cup {p[1]} |-> IF c = p[1] THEN p[2] ELSE keys[c]]
      BY <2>0, <2>9 DEF addPair
    <3>2. /\ DOMAIN keys' = DOMAIN keys \cup {p[1]}
          /\ keys'[p[1]] = p[2]
          /\ \A c \in DOMAIN keys : c # p[1] => keys'[c] = keys[c]
      BY <3>1
    <3>3. p[1] \in Keys /\ p[2] \in Secrets
      BY <2>3, <2>9
    <3>4. ASSUME NEW c \in Keys, NEW s \in Secrets
          PROVE  c \in DOMAIN keys' /\ keys'[c] = s <=> OwnsIn(c, s, n + 1)
      <4>1. CASE c = p[1]
        <5>1. OwnsIn(c, s, n + 1) <=> p[2] = s
          BY <2>3, <2>4, <2>9, <4>1
        <5> QED BY <3>2, <4>1, <5>1
      <4>2. CASE c # p[1]
        <5>1. OwnsIn(c, s, n + 1) <=> OwnsIn(c, s, n)
          BY <2>3, <2>4, <4>2
        <5>2. c \in DOMAIN keys' /\ keys'[c] = s <=> c \in DOMAIN keys /\ keys[c] = s
          BY <3>2, <4>2
        <5> QED BY <2>6, <5>1, <5>2
      <4> QED BY <4>1, <4>2
    <3>5. DOMAIN keys' \subseteq Keys /\ \A c \in DOMAIN keys' : keys'[c] \in Secrets
      BY <2>6, <3>2, <3>3
    <3> QED BY <2>0, <2>1, <2>7, <3>4, <3>5, OwnsKept DEF ParseInv
  <2> QED BY <2>8, <2>9
<1>2. CASE ParseKeySpec
  <2>1. spec' = spec /\ parsed' = parsed /\ keys' = keys
    BY <1>2 DEF ParseKeySpec
  <2> QED BY <2>1, OwnsKept DEF ParseInv
<1>3. CASE UNCHANGED config
  <2>1. spec' = spec /\ parsed' = parsed /\ keys' = keys
    BY <1>3 DEF config
  <2> QED BY <2>1, OwnsKept DEF ParseInv
<1> QED BY <1>1, <1>2, <1>3, ConfigKept

\* The map ParseKeySpec builds says who owns which key, for every value of
\* API_KEYS.
LEMMA ParseHolds == ASpec => []ParseInv
BY InitParse, NextParse, PTL DEF ASpec

LEMMA NextStore == ParseInv /\ StoreInv /\ [ANext]_avars => StoreInv'
<1> SUFFICES ASSUME ParseInv, StoreInv, [ANext]_avars PROVE StoreInv'
  OBVIOUS
<1>0. spec \in Seq(Pairs)
  BY AdmissionAssumption DEF ParseInv
<1>1. CASE ParsePair
  <2>1. spec' = spec /\ store' = store /\ serving' = serving /\ ~serving
    BY <1>1 DEF ParsePair
  <2> QED BY <2>1, OwnsKept, Zenon DEF StoreInv
<1>2. CASE ParseKeySpec
  <2>1. /\ spec' = spec /\ parsed' = parsed /\ parsed = Len(spec) /\ serving' = TRUE
        /\ store' \in NewAPIKeyStore(keys)
    BY <1>2 DEF ParseKeySpec
  <2>2. /\ DOMAIN keys \subseteq Keys /\ \A c \in DOMAIN keys : keys[c] \in Secrets
        /\ \A c \in Keys, s \in Secrets : c \in DOMAIN keys /\ keys[c] = s <=> Owns(c, s)
    BY <1>0, <2>1, OwnsAll DEF ParseInv
  <2>3. /\ DOMAIN store' = {keys[c] : c \in DOMAIN keys}
        /\ \A s \in DOMAIN store' : store'[s] \in DOMAIN keys /\ keys[store'[s]] = s
    BY <2>1 DEF NewAPIKeyStore
  <2>4. DOMAIN store' \subseteq Secrets
    BY <2>2, <2>3
  <2>5. \A s \in DOMAIN store' : store'[s] \in Keys /\ Owns(store'[s], s)
    BY <2>2, <2>3, <2>4
  <2>6. \A c \in Keys, s \in Secrets : Owns(c, s) => s \in DOMAIN store'
    BY <2>2, <2>3
  <2> QED BY <2>1, <2>4, <2>5, <2>6, OwnsKept, Zenon DEF StoreInv
<1>3. CASE UNCHANGED config
  <2>1. spec' = spec /\ parsed' = parsed /\ store' = store /\ serving' = serving
    BY <1>3 DEF config
  <2> QED BY <2>1, OwnsKept, Zenon DEF StoreInv
<1> QED BY <1>1, <1>2, <1>3, ConfigKept

LEMMA StoreHolds == ASpec => []StoreInv
<1>1. AInit => StoreInv
  <2> SUFFICES ASSUME AInit PROVE StoreInv
    OBVIOUS
  <2>1. DOMAIN store = {} /\ serving = FALSE
    BY DEF AInit
  <2> QED BY <2>1, Zenon DEF StoreInv
<1> QED BY <1>1, NextStore, ParseHolds, PTL DEF ASpec

-----------------------------------------------------------------------------
(* The limiter behind the authenticator.                                   *)

\* Every identity the authenticator passes on is one the limiter knows of.
LEMMA FoundIsKey ==
    ASSUME StoreInv, NEW key, authDisabled \/ Lookup(key)
    PROVE  RateLimitKey(key) \in Keys /\ RateLimitKey(key) \in Known
<1>1. CASE authDisabled
  BY <1>1, AdmissionAssumption DEF RateLimitKey, Known
<1>2. CASE ~authDisabled
  BY <1>2 DEF RateLimitKey, Known, Lookup, StoreInv
<1> QED BY <1>1, <1>2

\* The limiter inside the gateway is the limiter: whatever Authenticate and
\* the key store do, it takes only steps of module RateLimiter.
THEOREM AdmissionImplementsLimiter == ASpec => Spec
<1>1. AInit => Init
  BY DEF AInit
<1>2. StoreInv /\ [ANext]_avars => [Next]_vars
  <2> SUFFICES ASSUME StoreInv, [ANext]_avars PROVE [Next]_vars
    OBVIOUS
  <2>1. ASSUME NEW q \in Requests, NEW cred \in Credentials, Pass(q, cred) PROVE Next
    <3> DEFINE key == IF authDisabled THEN Blank ELSE presentedKey(cred)
    <3>1. (authDisabled \/ Lookup(key)) /\ Enter(q, RateLimitKey(key))
      BY <2>1 DEF Pass
    <3> HIDE DEF key
    <3>2. RateLimitKey(key) \in Keys
      BY <3>1, FoundIsKey
    <3> QED BY <3>1, <3>2, Zenon DEF Next
  <2>2. ASSUME NEW x \in calls, Serve(x) \/ Throttle(x) PROVE Next
    BY <2>2, Zenon DEF Serve, Throttle, Next
  <2>3. Background => Next
    BY Zenon DEF Background, Next
  <2>4. ASSUME NEW q \in Requests, NEW cred \in Credentials, Refuse(q, cred) PROVE UNCHANGED vars
    BY <2>4, Zenon DEF Refuse
  <2>5. ParsePair \/ ParseKeySpec \/ UNCHANGED avars => UNCHANGED vars
    BY Zenon DEF ParsePair, ParseKeySpec, avars
  <2> QED BY <2>1, <2>2, <2>3, <2>4, <2>5, Zenon DEF ANext
<1> QED BY <1>1, <1>2, StoreHolds, PTL DEF ASpec, Spec

-----------------------------------------------------------------------------
(* The accounts.                                                           *)

\* A client owns one key at most, and is known when it has one.
LEMMA OneKey ==
    ASSUME ParseInv, StoreInv, serving
    PROVE  /\ \A c \in Keys : \A s, t \in Secrets : Owns(c, s) /\ Owns(c, t) => s = t
           /\ authDisabled <=> ~\E c \in Keys, s \in Secrets : Owns(c, s)
<1>1. spec \in Seq(Pairs) /\ parsed = Len(spec)
  BY AdmissionAssumption DEF ParseInv, StoreInv
<1>2. \A c \in Keys, s \in Secrets : Owns(c, s) => keys[c] = s
  BY <1>1, OwnsAll DEF ParseInv
<1>3. authDisabled <=> ~\E c \in Keys, s \in Secrets : Owns(c, s)
  BY DEF authDisabled, StoreInv
<1> QED BY <1>2, <1>3

\* Steps that leave the store, the accounts and the requests under way alone.
LEMMA AccountKept ==
    ASSUME AccountInv, spec' = spec, store' = store, serving' = serving,
           presented' = presented, spentBy' = spentBy, refused' = refused,
           calls' = calls, spent' = spent, DOMAIN buckets' \subseteq DOMAIN buckets
    PROVE  AccountInv'
<1>1. (authDisabled' <=> authDisabled) /\ Known' = Known
  BY DEF authDisabled, Known
<1>2. \A x \in calls' : Identified(x)'
  BY <1>1 DEF AccountInv, Identified
<1>3. \A c \in Keys, s \in Secrets : Owns(c, s)' /\ ~Shared(s)' => spent'[c] = spentBy'[s]
  BY OwnsKept DEF AccountInv
<1>4. DOMAIN buckets' \subseteq Known'
  BY <1>1 DEF AccountInv
<1>5. ~serving' => /\ calls' = {} /\ DOMAIN buckets' = {} /\ refused' = {}
                   /\ \A c \in Keys : spent'[c] = 0
                   /\ \A s \in Secrets \cup {Blank} : spentBy'[s] = 0
  BY DEF AccountInv
<1> QED BY <1>2, <1>3, <1>4, <1>5 DEF AccountInv

\* A section of Allow, for a request x that is charged n units.
LEMMA SectionAccounts ==
    ASSUME TypeOK, ParseInv, StoreInv, AccountInv, NEW x \in calls, NEW n \in Nat, NEW bk,
           UNCHANGED config, refused' = refused, calls' = calls \ {x},
           buckets' = Store(x.key, bk),
           spent' = [spent EXCEPT ![x.key] = @ + n],
           spentBy' = [spentBy EXCEPT ![presented[x.req]] = @ + n],
           presented' = [presented EXCEPT ![x.req] = Blank]
    PROVE  AccountInv'
<1> DEFINE p == presented[x.req]
<1>0. /\ x \in Calls /\ x.key \in Keys /\ x.req \in Requests
      /\ spent \in [Keys -> Nat] /\ spentBy \in [Secrets \cup {Blank} -> Nat]
      /\ presented \in [Requests -> Secrets \cup {Blank}]
  BY DEF TypeOK, Calls, AccountInv
<1>1. serving /\ Identified(x) /\ x.key \in Known
  <2>1. serving /\ Identified(x)
    BY DEF AccountInv, StoreInv
  <2> QED BY <2>1 DEF Identified, Known
<1>2. spec' = spec /\ store' = store /\ serving' = serving
  BY DEF config
<1>3. (authDisabled' <=> authDisabled) /\ Known' = Known
  BY <1>2 DEF authDisabled, Known
<1>4. presented' \in [Requests -> Secrets \cup {Blank}] /\ spentBy' \in [Secrets \cup {Blank} -> Nat]
  BY <1>0
<1>5. \A y \in calls' : Identified(y)'
  <2> SUFFICES ASSUME NEW y \in calls, y # x PROVE Identified(y)'
    OBVIOUS
  <2>1. y.req # x.req /\ y.req \in Requests /\ Identified(y)
    BY DEF TypeOK, Calls, AccountInv
  <2>2. presented'[y.req] = presented[y.req]
    BY <1>0, <2>1
  <2> QED BY <1>2, <1>3, <2>1, <2>2 DEF Identified
<1>6. DOMAIN buckets' \subseteq Known'
  <2>1. DOMAIN buckets' = DOMAIN buckets \cup {x.key}
    BY DEF Store
  <2> QED BY <1>1, <1>3, <2>1 DEF AccountInv
<1>7. \A s \in Secrets \ DOMAIN store' : spentBy'[s] = 0
  <2> SUFFICES ASSUME NEW s \in Secrets, s \notin DOMAIN store PROVE spentBy'[s] = 0
    BY <1>2
  <2>1. s # p
    BY <1>1, AdmissionAssumption DEF Identified
  <2>2. spentBy'[s] = spentBy[s]
    BY <1>0, <2>1
  <2> QED BY <2>2 DEF AccountInv
<1>8. refused' \cap DOMAIN store' = {}
  BY <1>2 DEF AccountInv
<1>9. ASSUME NEW c \in Keys, NEW s \in Secrets, Owns(c, s), ~Shared(s) PROVE spent'[c] = spentBy'[s]
  <2>1. ~authDisabled /\ spent[c] = spentBy[s]
    BY <1>1, <1>9, OneKey DEF AccountInv
  <2>2. p \in DOMAIN store /\ x.key = store[p] /\ p \in Secrets /\ Owns(x.key, p)
    BY <1>1, <2>1 DEF Identified, StoreInv
  <2>3. CASE s = p
    <3>1. c = x.key
      BY <1>0, <1>9, <2>2, <2>3 DEF Shared
    <3>2. spent'[c] = spent[c] + n /\ spentBy'[s] = spentBy[s] + n
      BY <1>0, <2>3, <3>1
    <3> QED BY <2>1, <3>2
  <2>4. CASE s # p
    <3>1. c # x.key
      BY <1>0, <1>1, <1>9, <2>2, <2>4, OneKey
    <3>2. spent'[c] = spent[c] /\ spentBy'[s] = spentBy[s]
      BY <1>0, <2>4, <3>1
    <3> QED BY <2>1, <3>2
  <2> QED BY <2>3, <2>4
<1>10. \A c \in Keys, s \in Secrets : Owns(c, s)' /\ ~Shared(s)' => spent'[c] = spentBy'[s]
  BY <1>2, <1>9, OwnsKept
<1> QED BY <1>1, <1>2, <1>4, <1>5, <1>6, <1>7, <1>8, <1>10 DEF AccountInv

LEMMA InitAccount == AInit => AccountInv
<1> SUFFICES ASSUME AInit PROVE AccountInv
  OBVIOUS
<1>1. /\ calls = {} /\ DOMAIN buckets = {} /\ refused = {}
      /\ spent = [k \in Keys |-> 0] /\ spentBy = [s \in Secrets \cup {Blank} |-> 0]
      /\ presented = [q \in Requests |-> Blank]
  BY DEF AInit, Init
<1>2. (\A c \in Keys : spent[c] = 0) /\ \A s \in Secrets \cup {Blank} : spentBy[s] = 0
  BY <1>1
<1>3. presented \in [Requests -> Secrets \cup {Blank}] /\ spentBy \in [Secrets \cup {Blank} -> Nat]
  BY <1>1
<1> QED BY <1>1, <1>2, <1>3 DEF AccountInv

LEMMA NextAccount ==
    TypeOK /\ ParseInv /\ StoreInv /\ StoreInv' /\ AccountInv /\ [ANext]_avars => AccountInv'
<1> SUFFICES ASSUME TypeOK, ParseInv, StoreInv, StoreInv', AccountInv, [ANext]_avars PROVE AccountInv'
  OBVIOUS
<1>1. CASE ParsePair \/ UNCHANGED avars
  BY <1>1, AccountKept DEF ParsePair, avars, vars, config
<1>2. CASE ParseKeySpec
  <2>1. /\ ~serving /\ serving' = TRUE /\ spec' = spec
        /\ presented' = presented /\ spentBy' = spentBy /\ refused' = refused
        /\ calls' = calls /\ spent' = spent /\ buckets' = buckets
    BY <1>2 DEF ParseKeySpec, vars
  <2>2. /\ calls = {} /\ DOMAIN buckets = {} /\ refused = {}
        /\ \A c \in Keys : spent[c] = 0
        /\ \A s \in Secrets \cup {Blank} : spentBy[s] = 0
    BY <2>1 DEF AccountInv
  <2> QED BY <2>1, <2>2 DEF AccountInv
<1>3. ASSUME NEW q \in Requests, NEW cred \in Credentials, Pass(q, cred) PROVE AccountInv'
  <2> DEFINE key == IF authDisabled THEN Blank ELSE presentedKey(cred)
             new == [req |-> q, key |-> RateLimitKey(key), now |-> clock]
  <2>1. /\ serving /\ (authDisabled \/ Lookup(key)) /\ \A x \in calls : x.req # q
        /\ calls' = calls \cup {new} /\ presented' = [presented EXCEPT ![q] = key]
        /\ UNCHANGED config /\ UNCHANGED <<buckets, spent, spentBy, refused>>
    BY <1>3 DEF Pass, Enter
  <2>2. new.req = q /\ new.key = RateLimitKey(key)
    OBVIOUS
  <2>3. authDisabled => key = Blank
    OBVIOUS
  <2> HIDE DEF key, new
  <2>4. key \in Secrets \cup {Blank}
    BY <2>1, <2>3 DEF Lookup, StoreInv
  <2>5. spec' = spec /\ store' = store /\ serving' = serving
    BY <2>1 DEF config
  <2>6. (authDisabled' <=> authDisabled) /\ Known' = Known
    BY <2>5 DEF authDisabled, Known
  <2>7. presented' \in [Requests -> Secrets \cup {Blank}] /\ presented'[q] = key
    BY <2>1, <2>4 DEF AccountInv
  <2>8. ASSUME NEW x \in calls' PROVE Identified(x)'
    <3>1. CASE x = new
      BY <2>1, <2>2, <2>3, <2>5, <2>6, <2>7, <3>1 DEF Identified, RateLimitKey, Lookup
    <3>2. CASE x # new
      <4>1. x \in calls /\ x.req # q /\ x.req \in Requests /\ Identified(x)
        BY <2>1, <2>8, <3>2 DEF TypeOK, Calls, AccountInv
      <4>2. presented'[x.req] = presented[x.req]
        BY <2>1, <4>1 DEF AccountInv
      <4> QED BY <2>5, <2>6, <4>1, <4>2 DEF Identified
    <3> QED BY <3>1, <3>2
  <2>9. \A c \in Keys, s \in Secrets : Owns(c, s)' /\ ~Shared(s)' => spent'[c] = spentBy'[s]
    BY <2>1, <2>5, OwnsKept DEF AccountInv
  <2> QED BY <2>1, <2>5, <2>6, <2>7, <2>8, <2>9 DEF AccountInv
<1>4. ASSUME NEW q \in Requests, NEW cred \in Credentials, Refuse(q, cred) PROVE AccountInv'
  <2> DEFINE key == presentedKey(cred)
  <2>1. /\ serving /\ ~Lookup(key) /\ refused' = refused \cup ({key} \ {Blank})
        /\ UNCHANGED vars /\ UNCHANGED config /\ UNCHANGED <<presented, spentBy>>
    BY <1>4 DEF Refuse
  <2> HIDE DEF key
  <2>2. spec' = spec /\ store' = store /\ serving' = serving /\ calls' = calls /\ spent' = spent
        /\ buckets' = buckets
    BY <2>1 DEF config, vars
  <2>3. refused' \cap DOMAIN store = {}
    BY <2>1 DEF Lookup, AccountInv
  <2>4. (authDisabled' <=> authDisabled) /\ Known' = Known
    BY <2>2 DEF authDisabled, Known
  <2>5. \A x \in calls' : Identified(x)'
    BY <2>1, <2>2, <2>4 DEF AccountInv, Identified
  <2>6. \A c \in Keys, s \in Secrets : Owns(c, s)' /\ ~Shared(s)' => spent'[c] = spentBy'[s]
    BY <2>1, <2>2, OwnsKept DEF AccountInv
  <2> QED BY <2>1, <2>2, <2>3, <2>4, <2>5, <2>6 DEF AccountInv
<1>5. ASSUME NEW x \in calls, Serve(x) PROVE AccountInv'
  BY <1>5, SectionAccounts, Constants DEF Serve, Admit
<1>6. ASSUME NEW x \in calls, Throttle(x) PROVE AccountInv'
  <2>1. /\ UNCHANGED config /\ UNCHANGED <<spent, spentBy, refused>> /\ calls' = calls \ {x}
        /\ buckets' = Store(x.key, current(x.key, x.now))
        /\ presented' = [presented EXCEPT ![x.req] = Blank]
    BY <1>6 DEF Throttle, Reject
  <2>2. /\ x.key \in Keys /\ presented[x.req] \in Secrets \cup {Blank}
        /\ spent \in [Keys -> Nat] /\ spentBy \in [Secrets \cup {Blank} -> Nat]
    BY DEF TypeOK, Calls, AccountInv
  <2>3. spent' = [spent EXCEPT ![x.key] = @ + 0] /\ spentBy' = [spentBy EXCEPT ![presented[x.req]] = @ + 0]
    BY <2>1, <2>2
  <2> QED BY <2>1, <2>3, SectionAccounts
<1>7. CASE Background
  <2>1. UNCHANGED config /\ UNCHANGED <<presented, spentBy, refused>>
    BY <1>7 DEF Background
  <2>2. calls' = calls /\ spent' = spent /\ DOMAIN buckets' \subseteq DOMAIN buckets
    BY <1>7 DEF Background, StartEvict, Evict, Close, Tick
  <2> QED BY <2>1, <2>2, AccountKept DEF config
<1> QED BY <1>1, <1>2, <1>3, <1>4, <1>5, <1>6, <1>7, Zenon DEF ANext

LEMMA LimiterTypes == ASpec => []TypeOK
<1>1. RetryInv => TypeOK
  BY DEF RetryInv
<1> QED BY <1>1, AdmissionImplementsLimiter, RetryHolds, PTL

LEMMA AccountHolds == ASpec => []AccountInv
BY InitAccount, NextAccount, LimiterTypes, ParseHolds, StoreHolds, PTL DEF ASpec

\* The limiter's map holds buckets of configured clients, or the anonymous one
\* when there are none, for every value of API_KEYS and whatever the requests
\* carry; and no bucket is over the burst or in debt.
THEOREM MapIsBounded == ASpec => []BucketsBounded
<1>1. TypeOK /\ ParseInv /\ StoreInv /\ AccountInv => BucketsBounded
  <2> SUFFICES ASSUME TypeOK, ParseInv, StoreInv, AccountInv PROVE BucketsBounded
    OBVIOUS
  <2>1. \A k \in DOMAIN buckets : buckets[k].tokens \in 0 .. Capacity
    BY DEF TypeOK, Bucket
  <2>2. CASE ~serving
    BY <2>1, <2>2 DEF AccountInv, BucketsBounded
  <2>3. CASE serving
    <3>1. CASE authDisabled
      BY <2>1, <2>3, <3>1, OneKey DEF AccountInv, BucketsBounded, Known
    <3>2. CASE ~authDisabled
      <4>1. \E c \in Keys, s \in Secrets : Owns(c, s)
        BY <2>3, <3>2, OneKey
      <4>2. DOMAIN buckets \subseteq {c \in Keys : \E s \in Secrets : Owns(c, s)}
        BY <3>2 DEF AccountInv, Known, StoreInv
      <4> QED BY <2>1, <4>1, <4>2 DEF BucketsBounded
    <3> QED BY <3>1, <3>2
  <2> QED BY <2>2, <2>3
<1> QED BY <1>1, LimiterTypes, ParseHolds, StoreHolds, AccountHolds, PTL

\* Who holds a client's key is never refused and is the only one to take the
\* client's tokens, unless two clients share the key: for every value of
\* API_KEYS, with blank, repeated and replaced pairs, and every order in which
\* the store is filled.
THEOREM KeysStandForClients == ASpec => []KeysIdentify
<1>1. StoreInv /\ AccountInv => KeysIdentify
  <2> SUFFICES ASSUME StoreInv, AccountInv, NEW s \in Secrets
               PROVE  /\ spentBy[s] = 0 \/ \E c \in Keys : Owns(c, s)
                      /\ \A c \in Keys : Owns(c, s) => s \notin refused /\ (Shared(s) \/ spent[c] = spentBy[s])
    BY DEF KeysIdentify
  <2>1. spentBy[s] = 0 \/ \E c \in Keys : Owns(c, s)
    BY DEF StoreInv, AccountInv
  <2>2. ASSUME NEW c \in Keys, Owns(c, s) PROVE s \notin refused /\ (Shared(s) \/ spent[c] = spentBy[s])
    <3>1. s \notin refused
      BY <2>2 DEF StoreInv, AccountInv
    <3>2. Shared(s) \/ spent[c] = spentBy[s]
      BY <2>2 DEF AccountInv
    <3> QED BY <3>1, <3>2
  <2> QED BY <2>1, <2>2
<1> QED BY <1>1, StoreHolds, AccountHolds, PTL
==============================================================================
