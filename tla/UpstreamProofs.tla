---------------------------- MODULE UpstreamProofs ---------------------------
(***************************************************************************)
(* Proofs about Upstream, for every retry policy, breaker configuration    *)
(* and number of concurrent requests: the time budget of one call of do(), *)
(* backoffs that fit the deadline, what opens the breaker that the loops   *)
(* share, and what carries over from Breaker to their composition.         *)
(***************************************************************************)
EXTENDS Upstream, TLAPS

-----------------------------------------------------------------------------
(* Inductive invariant, for the proof of WithinBudget.                     *)

\* What one attempt and the backoff after it can take.
Round == MaxCallTime + WorstDelay

\* The time spent, by the point of the loop the activation q is at; a is the
\* age of its call.
SpentInv(q, a) ==
    CASE q.phase = "idle"     -> q.spent = 0
      [] q.phase = "ready"    -> q.spent <= (q.attempt - 1) * Round
      [] q.phase = "calling"  -> q.spent <= (q.attempt - 1) * Round + a
      [] q.phase = "sleeping" -> /\ q.attempt < MaxAttempts
                                 /\ q.spent + q.wait <= q.attempt * Round

BudgetInv ==
    /\ inflight \subseteq Callers
    /\ age \in [Callers -> 0 .. MaxCallTime]
    /\ r \in [Callers -> Activations]
    /\ \A c \in Callers :
         /\ c \notin inflight => age[c] = 0
         /\ r[c].phase = "calling" => c \in inflight
         /\ SpentInv(r[c], age[c])

-----------------------------------------------------------------------------
BP == INSTANCE BreakerProofs

USE DEF RetryConfigOK

\* A duration that fits d times into x is no more than the quotient.
LEMMA Quotient ==
    ASSUME NEW x \in Nat, NEW y \in Nat \ {0}
    PROVE  /\ x \div y \in Nat
           /\ \A d \in Int : d * y <= x => d <= x \div y
<1>1. x \div y \in Nat
  BY SMT
<1>2. ASSUME NEW d \in Int, d * y <= x PROVE d <= x \div y
  BY <1>2, SMT
<1> QED BY <1>1, <1>2

\* Every jittered delay is at most WorstDelay.
LEMMA DelayBound ==
    ASSUME NEW n \in 1 .. MaxAttempts
    PROVE  /\ WorstDelay \in Nat
           /\ delayFor(n) \subseteq 0 .. WorstDelay
<1> USE UpstreamAssumption
<1>1. MaxDelay * JitterNum \in Nat
  OBVIOUS
<1>2. WorstDelay \in Nat
  BY <1>1, Quotient DEF WorstDelay
<1>3. backoff(n) \in Int /\ backoff(n) <= MaxDelay
  <2>1. 2^(n - 1) \in Int
    BY SMT
  <2>2. BaseDelay * 2^(n - 1) \in Int
    BY <2>1
  <2> QED BY <2>2 DEF backoff
<1>4. ASSUME NEW d \in delayFor(n) PROVE d \in 0 .. WorstDelay
  <2>1. d \in Nat /\ (d - backoff(n)) * JitterDen <= backoff(n) * JitterNum
    BY <1>3, <1>4 DEF delayFor
  <2>2. backoff(n) * JitterNum <= MaxDelay * JitterNum
    BY <1>3
  <2>3. (d - MaxDelay) * JitterDen <= (d - backoff(n)) * JitterDen
    BY <1>3, <2>1
  <2>4. (d - MaxDelay) * JitterDen <= MaxDelay * JitterNum
    <3> DEFINE p == (d - MaxDelay) * JitterDen
               q == (d - backoff(n)) * JitterDen
               u == backoff(n) * JitterNum
               v == MaxDelay * JitterNum
    <3>1. p \in Int /\ q \in Int /\ u \in Int /\ v \in Int
      BY <1>1, <1>3, <2>1
    <3>2. p <= q /\ q <= u /\ u <= v
      BY <2>1, <2>2, <2>3
    <3> HIDE DEF p, q, u, v
    <3>3. p <= v
      BY ONLY <3>1, <3>2
    <3> QED BY <3>3 DEF p, v
  <2>5. d - MaxDelay <= (MaxDelay * JitterNum) \div JitterDen
    <3> DEFINE x == MaxDelay * JitterNum
               e == d - MaxDelay
    <3>1. x \in Nat /\ e \in Int /\ e * JitterDen <= x
      BY <1>1, <2>1, <2>4
    <3> HIDE DEF x, e
    <3>2. e <= x \div JitterDen
      BY <3>1, Quotient
    <3> QED BY <3>2 DEF x, e
  <2> QED
    BY <1>1, <2>1, <2>5, Quotient DEF WorstDelay
<1> QED BY <1>2, <1>4

\* An activation that is over.
LEMMA IdleType ==
    /\ Idle \in Activations /\ Idle.phase = "idle" /\ Idle.spent = 0 /\ Idle.attempt = 1
    /\ \A err \in Outcomes :
         finish(err) \in Activations /\ finish(err).phase = "idle" /\ finish(err).spent = 0
<1>1. Idle \in Activations
  <2>1. 1 \in 1 .. MaxAttempts /\ 0 \in Nat
    BY UpstreamAssumption
  <2> QED BY <2>1, ZenonT(60) DEF Idle, Activations, Outcomes
<1>2. Idle.phase = "idle" /\ Idle.spent = 0 /\ Idle.attempt = 1
  BY DEF Idle
<1> HIDE DEF Idle
<1> QED BY <1>1, <1>2 DEF finish, Activations

\* What the loop does after a failed attempt.
LEMMA AfterError ==
    ASSUME NEW q \in Activations, NEW err \in Outcomes, NEW permanent \in BOOLEAN,
           NEW x \in afterError(q, err, permanent)
    PROVE  /\ x \in Activations
           /\ \/ x.phase = "idle" /\ x.spent = 0
              \/ /\ x.phase = "sleeping" /\ x.attempt = q.attempt
                 /\ x.attempt < MaxAttempts
                 /\ x.spent = q.spent /\ x.wait \in 0 .. WorstDelay
<1> USE UpstreamAssumption
<1>0. q.attempt \in 1 .. MaxAttempts /\ q.spent \in Nat
  BY DEF Activations
<1>1. CASE x = finish(err)
  BY <1>1, IdleType
<1>2. ASSUME x # finish(err)
      PROVE  /\ q.attempt < MaxAttempts
             /\ \E d \in delayFor(q.attempt) :
                  x = [q EXCEPT !.phase = "sleeping", !.wait = d, !.result = err]
  <2>1. q.attempt # MaxAttempts /\ x \in {backOff(q, err, d) : d \in delayFor(q.attempt)}
    BY <1>2 DEF afterError
  <2>2. q.attempt < MaxAttempts
    BY <1>0, <2>1
  <2>3. PICK d \in delayFor(q.attempt) : x = backOff(q, err, d)
    BY <2>1
  <2>4. x = [q EXCEPT !.phase = "sleeping", !.wait = d, !.result = err]
    BY <1>2, <2>3 DEF backOff
  <2> QED BY <2>2, <2>4
<1>3. CASE x # finish(err)
  <2>1. PICK d \in delayFor(q.attempt) :
          x = [q EXCEPT !.phase = "sleeping", !.wait = d, !.result = err]
    BY <1>2, <1>3
  <2>2. d \in Nat /\ d \in 0 .. WorstDelay
    BY <1>0, DelayBound
  <2>3. [q EXCEPT !.phase = "sleeping"] \in Activations
    BY DEF Activations
  <2>4. \A y \in Activations : [y EXCEPT !.wait = d] \in Activations
    BY <2>2 DEF Activations
  <2>5. \A y \in Activations : [y EXCEPT !.result = err] \in Activations
    BY DEF Activations
  <2>6. x \in Activations
    BY <2>1, <2>3, <2>4, <2>5
  <2>7. x.phase = "sleeping" /\ x.attempt = q.attempt /\ x.spent = q.spent /\ x.wait = d
    BY <2>1 DEF Activations
  <2> QED
    BY <1>2, <1>3, <2>2, <2>6, <2>7
<1> QED BY <1>1, <1>3

-----------------------------------------------------------------------------
(* BudgetInv is inductive.                                                 *)

\* A step of one request keeps BudgetInv if it keeps it for that request.
LEMMA OneMoves ==
    ASSUME BudgetInv, NEW c \in Callers, NEW x \in Activations,
           r' = [r EXCEPT ![c] = x],
           inflight' \subseteq Callers, age' \in [Callers -> 0 .. MaxCallTime],
           \A d \in Callers \ {c} : /\ age'[d] = age[d]
                                    /\ d \in inflight' <=> d \in inflight,
           c \notin inflight' => age'[c] = 0,
           x.phase = "calling" => c \in inflight',
           SpentInv(x, age'[c])
    PROVE  BudgetInv'
<1>1. (r \in [Callers -> Activations])'
  BY DEF BudgetInv
<1>2. ASSUME NEW d \in Callers
      PROVE  (/\ d \notin inflight => age[d] = 0
              /\ r[d].phase = "calling" => d \in inflight
              /\ SpentInv(r[d], age[d]))'
  <2>1. CASE d = c
    <3>1. r'[d] = x
      BY <2>1 DEF BudgetInv
    <3>2. SpentInv(r[d], age[d])' <=> SpentInv(x, age'[c])
      BY <2>1, <3>1 DEF SpentInv
    <3> QED BY <2>1, <3>1, <3>2
  <2>2. CASE d # c
    <3>1. r'[d] = r[d] /\ age'[d] = age[d] /\ (d \in inflight' <=> d \in inflight)
      BY <2>2 DEF BudgetInv
    <3>2. SpentInv(r[d], age[d])' <=> SpentInv(r[d], age[d])
      BY <3>1 DEF SpentInv
    <3> QED BY <3>1, <3>2 DEF BudgetInv
  <2> QED BY <2>1, <2>2
<1> QED BY <1>1, <1>2 DEF BudgetInv

\* The same for the steps that leave the breaker alone.
LEMMA OneMovesOutside ==
    ASSUME BudgetInv, NEW c \in Callers, NEW x \in Activations,
           r' = [r EXCEPT ![c] = x], UNCHANGED <<inflight, age>>,
           x.phase = "calling" => c \in inflight,
           SpentInv(x, age[c])
    PROVE  BudgetInv'
<1>1. inflight' = inflight /\ age' = age
  OBVIOUS
<1>2. SpentInv(x, age'[c])
  BY <1>1
<1> QED BY <1>1, <1>2, OneMoves DEF BudgetInv

\* A finished activation has nothing to account for.
LEMMA Finished ==
    ASSUME NEW err \in Outcomes, NEW a
    PROVE  finish(err) \in Activations /\ finish(err).phase = "idle"
           /\ SpentInv(finish(err), a)
BY IdleType DEF SpentInv

\* One more round in the account.
LEMMA NextRound ==
    ASSUME NEW n \in Nat
    PROVE  Round \in Nat /\ n * Round = (n - 1) * Round + MaxCallTime + WorstDelay
<1>1. WorstDelay \in Nat /\ MaxCallTime \in Nat
  BY DelayBound, UpstreamAssumption
<1> QED BY <1>1 DEF Round

\* A failed or rejected attempt leads back to an account in order.
LEMMA AfterErrorSpent ==
    ASSUME NEW q \in Activations, NEW err \in Outcomes, NEW permanent \in BOOLEAN,
           NEW x \in afterError(q, err, permanent), NEW a, 
           q.spent <= (q.attempt - 1) * Round + MaxCallTime
    PROVE  x \in Activations /\ x.phase # "calling" /\ SpentInv(x, a)
<1>1. x \in Activations
  BY AfterError
<1>2. CASE x.phase = "idle" /\ x.spent = 0
  BY <1>1, <1>2 DEF SpentInv
<1>3. CASE /\ x.phase = "sleeping" /\ x.attempt = q.attempt
           /\ x.attempt < MaxAttempts
           /\ x.spent = q.spent /\ x.wait \in 0 .. WorstDelay
  <2>1. q.attempt \in Nat /\ q.spent \in Nat /\ x.wait \in Nat
    BY <1>3, UpstreamAssumption, <1>1 DEF Activations
  <2>2. Round \in Nat /\ q.attempt * Round = (q.attempt - 1) * Round + MaxCallTime + WorstDelay
    BY <2>1, NextRound
  <2>3. WorstDelay \in Nat /\ MaxCallTime \in Nat /\ (q.attempt - 1) * Round \in Int
    BY <2>1, <2>2, DelayBound, UpstreamAssumption
  <2>4. x.spent + x.wait <= x.attempt * Round
    BY <1>3, <2>1, <2>2, <2>3
  <2> QED BY <1>1, <1>3, <2>4 DEF SpentInv
<1> QED BY <1>2, <1>3, AfterError

\* A call that ends takes its caller out of the breaker, with age 0.
LEMMA Leaving ==
    ASSUME BudgetInv, NEW c \in Callers, NEW br, B!Leave(c, br)
    PROVE  /\ inflight' \subseteq Callers
           /\ age' \in [Callers -> 0 .. MaxCallTime]
           /\ \A d \in Callers \ {c} : /\ age'[d] = age[d]
                                       /\ d \in inflight' <=> d \in inflight
           /\ c \notin inflight' /\ age'[c] = 0
<1>1. inflight' = inflight \ {c} /\ age' = [age EXCEPT ![c] = 0]
  BY DEF B!Leave
<1> QED BY <1>1, UpstreamAssumption DEF BudgetInv

\* A call that ends in an error, counted or not, keeps the account.
LEMMA FailedCall ==
    ASSUME BudgetInv, NEW c \in Callers, NEW br, B!Leave(c, br),
           r[c].phase = "calling", NEW permanent \in BOOLEAN,
           NEW x \in afterError(r[c], "error", permanent), r' = [r EXCEPT ![c] = x]
    PROVE  BudgetInv'
<1>1. r[c] \in Activations /\ age[c] \in 0 .. MaxCallTime
  BY DEF BudgetInv
<1>2. r[c].spent <= (r[c].attempt - 1) * Round + age[c]
  BY <1>1 DEF BudgetInv, SpentInv
<1>3. r[c].spent \in Nat /\ r[c].attempt \in Nat /\ Round \in Nat /\ "error" \in Outcomes
  BY <1>1, NextRound, UpstreamAssumption DEF Activations, Outcomes
<1>4. (r[c].attempt - 1) * Round \in Int
  BY <1>3
<1>5. r[c].spent <= (r[c].attempt - 1) * Round + MaxCallTime
  BY <1>1, <1>2, <1>3, <1>4, UpstreamAssumption
<1>6. x \in Activations /\ x.phase # "calling" /\ SpentInv(x, age'[c])
  BY <1>1, <1>3, <1>5, AfterErrorSpent
<1> QED BY <1>6, Leaving, OneMoves

LEMMA InitBudget == Init => BudgetInv
<1> SUFFICES ASSUME Init PROVE BudgetInv
  OBVIOUS
<1>1. Idle \in Activations /\ Idle.phase = "idle" /\ Idle.spent = 0
  BY UpstreamAssumption DEF Idle, Activations, Outcomes
<1>2. inflight = {} /\ age = [c \in Callers |-> 0] /\ r = [c \in Callers |-> Idle]
  BY DEF Init, B!Init
<1>3. age \in [Callers -> 0 .. MaxCallTime]
  BY <1>2, UpstreamAssumption
<1>4. ASSUME NEW c \in Callers
      PROVE  age[c] = 0 /\ r[c].phase # "calling" /\ SpentInv(r[c], age[c])
  BY <1>1, <1>2 DEF SpentInv
<1> QED BY <1>1, <1>2, <1>3, <1>4 DEF BudgetInv

\* The clock charges every running request with one tick.
LEMMA TickBudget ==
    ASSUME BudgetInv, Tick
    PROVE  BudgetInv'
<1> USE UpstreamAssumption
<1> DEFINE x(c) == [r[c] EXCEPT !.left = IF @ > 0 THEN @ - 1 ELSE 0,
                                !.wait = IF @ > 0 THEN @ - 1 ELSE 0,
                                !.spent = IF Running(c) THEN @ + 1 ELSE @]
<1>1. inflight' = inflight /\ \A c \in inflight : age[c] < MaxCallTime
  BY DEF Tick, B!Tick
<1>2. age' = [c \in Callers |-> IF c \in inflight THEN age[c] + 1 ELSE 0]
  BY DEF Tick, B!Tick
<1>3. (age \in [Callers -> 0 .. MaxCallTime])'
  BY <1>1, <1>2 DEF BudgetInv
<1>4. ASSUME NEW c \in Callers
      PROVE  /\ r'[c] = x(c) /\ x(c) \in Activations
             /\ x(c).phase = r[c].phase /\ x(c).attempt = r[c].attempt
             /\ x(c).spent = IF Running(c) THEN r[c].spent + 1 ELSE r[c].spent
             /\ x(c).wait = IF r[c].wait > 0 THEN r[c].wait - 1 ELSE 0
  <2>1. r[c] \in Activations
    BY DEF BudgetInv
  <2>2. r'[c] = x(c)
    BY DEF Tick
  <2> DEFINE y1 == [r[c] EXCEPT !.left = IF @ > 0 THEN @ - 1 ELSE 0]
             y2 == [y1 EXCEPT !.wait = IF @ > 0 THEN @ - 1 ELSE 0]
             y3 == [y2 EXCEPT !.spent = IF Running(c) THEN @ + 1 ELSE @]
  <2>3. y1 \in Activations
    BY <2>1 DEF Activations
  <2>4. y2 \in Activations
    <3> HIDE DEF y1
    <3> QED BY <2>3 DEF Activations
  <2>5. y3 \in Activations
    <3> HIDE DEF y2
    <3> QED BY <2>4 DEF Activations
  <2>6. x(c) \in Activations
    <3>1. x(c) = y3
      BY <2>1 DEF Activations
    <3> QED BY <2>5, <3>1
  <2>7. /\ x(c).phase = r[c].phase /\ x(c).attempt = r[c].attempt
        /\ x(c).spent = IF Running(c) THEN r[c].spent + 1 ELSE r[c].spent
        /\ x(c).wait = IF r[c].wait > 0 THEN r[c].wait - 1 ELSE 0
    BY <2>1 DEF Activations
  <2> QED BY <2>2, <2>6, <2>7
<1>5. r' \in [Callers -> Activations]
  <2>1. r' = [c \in Callers |-> x(c)]
    BY DEF Tick
  <2> HIDE DEF x
  <2> QED BY <1>4, <2>1
<1> HIDE DEF x
<1>6. ASSUME NEW c \in Callers
      PROVE  SpentInv(x(c), age'[c])
  <2>0. /\ r[c] \in Activations /\ SpentInv(r[c], age[c]) /\ age[c] \in Nat
        /\ r[c].spent \in Nat /\ r[c].wait \in Nat /\ r[c].attempt \in Nat
        /\ r[c].phase = "calling" => c \in inflight
    BY DEF BudgetInv, Activations
  <2>1. CASE r[c].phase = "idle"
    BY <1>4, <2>0, <2>1 DEF SpentInv, Running
  <2>2. CASE r[c].phase = "ready"
    BY <1>4, <2>0, <2>2 DEF SpentInv, Running
  <2>3. CASE r[c].phase = "calling"
    <3>1. r[c].spent <= (r[c].attempt - 1) * Round + age[c]
      BY <2>0, <2>3 DEF SpentInv
    <3>2. age'[c] = age[c] + 1 /\ x(c).spent = r[c].spent + 1
      BY <1>2, <1>4, <2>0, <2>3 DEF Running
    <3>3. (r[c].attempt - 1) * Round \in Int
      BY <2>0, NextRound
    <3>4. x(c).spent <= (x(c).attempt - 1) * Round + age'[c]
      BY <1>4, <2>0, <3>1, <3>2, <3>3
    <3> QED BY <1>4, <2>3, <3>4 DEF SpentInv
  <2>4. CASE r[c].phase = "sleeping"
    <3>1. r[c].wait > 0
      BY <2>4 DEF Tick
    <3>2. x(c).spent + x(c).wait = r[c].spent + r[c].wait
      BY <1>4, <2>0, <2>4, <3>1 DEF Running
    <3> QED BY <1>4, <2>0, <2>4, <3>2 DEF SpentInv
  <2> QED BY <2>0, <2>1, <2>2, <2>3, <2>4 DEF Activations
<1>7. ASSUME NEW c \in Callers
      PROVE  (/\ c \notin inflight => age[c] = 0
              /\ r[c].phase = "calling" => c \in inflight
              /\ SpentInv(r[c], age[c]))'
  <2>1. SpentInv(r[c], age[c])' <=> SpentInv(x(c), age'[c])
    BY <1>4 DEF SpentInv
  <2> QED BY <1>1, <1>2, <1>4, <1>6, <2>1 DEF BudgetInv
<1> QED BY <1>1, <1>3, <1>5, <1>7 DEF BudgetInv

LEMMA NextBudget == BudgetInv /\ [Next]_vars => BudgetInv'
<1> SUFFICES ASSUME BudgetInv, [Next]_vars PROVE BudgetInv'
  OBVIOUS
<1> USE UpstreamAssumption
<1>0. ASSUME NEW c \in Callers
      PROVE  /\ r[c] \in Activations /\ SpentInv(r[c], age[c])
             /\ r[c].attempt \in 1 .. MaxAttempts /\ r[c].spent \in Nat
             /\ r[c].result \in Outcomes /\ age[c] \in Nat
  BY DEF BudgetInv, Activations
<1>a. Round \in Nat
  BY NextRound
<1>1. ASSUME NEW c \in Callers, Begin(c) PROVE BudgetInv'
  <2>1. PICK t \in Deadlines :
          \E bad \in {FALSE, MalformedURLs} :
            r' = [r EXCEPT ![c] = [Idle EXCEPT !.phase = "ready", !.left = t, !.malformed = bad]]
    BY <1>1 DEF Begin
  <2>a. PICK bad \in BOOLEAN :
          r' = [r EXCEPT ![c] = [Idle EXCEPT !.phase = "ready", !.left = t, !.malformed = bad]]
    BY <2>1
  <2> DEFINE y == [Idle EXCEPT !.phase = "ready"]
             z == [y EXCEPT !.left = t]
             x == [z EXCEPT !.malformed = bad]
  <2>2. Idle \in Activations /\ Idle.attempt = 1 /\ Idle.spent = 0
    BY DEF Idle, Activations, Outcomes
  <2>3. x \in Activations /\ x.phase = "ready" /\ x.attempt = 1 /\ x.spent = 0
    <3>1. y \in Activations /\ y.phase = "ready" /\ y.attempt = 1 /\ y.spent = 0
      BY <2>2 DEF Activations
    <3> HIDE DEF y
    <3>2. z \in Activations /\ z.phase = "ready" /\ z.attempt = 1 /\ z.spent = 0
      BY <3>1 DEF Activations
    <3> HIDE DEF z
    <3> QED BY <3>2 DEF Activations
  <2>4. r' = [r EXCEPT ![c] = x]
    BY <2>a, <2>2 DEF Activations
  <2> HIDE DEF x, y, z
  <2>5. SpentInv(x, age[c]) /\ x.phase # "calling"
    BY <1>a, <2>3 DEF SpentInv
  <2> QED BY <1>1, <2>3, <2>4, <2>5, OneMovesOutside DEF Begin, breakerVars
<1>2. ASSUME NEW c \in Callers, GiveUp(c) PROVE BudgetInv'
  <2>1. \E err \in Outcomes : r' = [r EXCEPT ![c] = finish(err)]
    <3>1. CASE r[c].result = "none"
      BY <1>2, <3>1 DEF GiveUp, Outcomes, BudgetInv
    <3>2. CASE r[c].result # "none"
      BY <1>0, <1>2, <3>2 DEF GiveUp, BudgetInv
    <3> QED BY <3>1, <3>2
  <2> QED BY <1>2, <2>1, Finished, OneMovesOutside DEF GiveUp, breakerVars
<1>3. ASSUME NEW c \in Callers, Attempt(c) PROVE BudgetInv'
  <2> DEFINE x == [r[c] EXCEPT !.phase = "calling"]
  <2>1. r[c].phase = "ready" /\ c \notin inflight /\ inflight' = inflight \cup {c} /\ age' = age
    BY <1>3 DEF Attempt, B!Admit
  <2>2. r' = [r EXCEPT ![c] = x]
    BY <1>3 DEF Attempt
  <2>3. x \in Activations /\ x.phase = "calling" /\ x.attempt = r[c].attempt
        /\ x.spent = r[c].spent
    BY <1>0 DEF Activations
  <2>4. age[c] = 0
    BY <2>1 DEF BudgetInv
  <2>5. r[c].spent <= (r[c].attempt - 1) * Round
    BY <1>0, <2>1 DEF SpentInv
  <2>6. (r[c].attempt - 1) * Round \in Int
    BY <1>0, <1>a
  <2>7. x.spent <= (x.attempt - 1) * Round + age'[c]
    BY <1>0, <2>1, <2>3, <2>4, <2>5, <2>6
  <2>8. SpentInv(x, age'[c])
    BY <2>3, <2>7 DEF SpentInv
  <2> HIDE DEF x
  <2>9. inflight' \subseteq Callers /\ age' \in [Callers -> 0 .. MaxCallTime]
    BY <2>1 DEF BudgetInv
  <2> QED BY <2>1, <2>2, <2>3, <2>8, <2>9, OneMoves
<1>4. ASSUME NEW c \in Callers, Rejected(c) PROVE BudgetInv'
  <2>1. PICK x \in afterError(r[c], "breaker_open", FALSE) : r' = [r EXCEPT ![c] = x]
    BY <1>4 DEF Rejected
  <2>2. r[c].spent <= (r[c].attempt - 1) * Round
    BY <1>0, <1>4 DEF Rejected, SpentInv
  <2>3. (r[c].attempt - 1) * Round \in Int
    BY <1>0, <1>a
  <2>4. r[c].spent <= (r[c].attempt - 1) * Round + MaxCallTime
    BY <1>0, <2>2, <2>3
  <2>5. x \in Activations /\ x.phase # "calling" /\ SpentInv(x, age[c])
    BY <1>0, <2>4, AfterErrorSpent DEF Outcomes
  <2> QED BY <1>4, <2>1, <2>5, OneMovesOutside DEF Rejected, B!Reject
<1>5. ASSUME NEW c \in Callers, Answer(c) PROVE BudgetInv'
  <2>1. PICK err \in Outcomes : r' = [r EXCEPT ![c] = finish(err)]
    BY <1>5 DEF Answer, Outcomes
  <2>2. B!Leave(c, B!record(b, TRUE))
    BY <1>5 DEF Answer, B!Succeed
  <2>3. finish(err) \in Activations /\ finish(err).phase # "calling"
        /\ SpentInv(finish(err), age'[c])
    BY Finished
  <2> QED BY <2>1, <2>2, <2>3, Leaving, OneMoves
<1>6. ASSUME NEW c \in Callers, AttemptFails(c) \/ Malformed(c) PROVE BudgetInv'
  <2>1. PICK permanent \in BOOLEAN :
          \E q \in afterError(r[c], "error", permanent) : r' = [r EXCEPT ![c] = q]
    BY <1>6 DEF AttemptFails, Malformed
  <2>2. r[c].phase = "calling" /\ B!Leave(c, B!record(b, FALSE))
    BY <1>6 DEF AttemptFails, Malformed, B!Fail
  <2> QED BY <2>1, <2>2, FailedCall
<1>7. ASSUME NEW c \in Callers, AttemptCancelled(c) PROVE BudgetInv'
  <2>1. r[c].phase = "calling" /\ B!Leave(c, B!release(b))
    BY <1>7 DEF AttemptCancelled, B!Cancel
  <2> QED BY <1>7, <2>1, FailedCall DEF AttemptCancelled
<1>8. ASSUME NEW c \in Callers, Wake(c) PROVE BudgetInv'
  <2>1. CASE r' = [r EXCEPT ![c] = finish(r[c].result)]
    BY <1>0, <1>8, <2>1, Finished, OneMovesOutside DEF Wake, breakerVars
  <2>2. CASE r[c].wait = 0 /\ r' = [r EXCEPT ![c].phase = "ready", ![c].attempt = @ + 1]
    <3> DEFINE y == [r[c] EXCEPT !.phase = "ready"]
               x == [y EXCEPT !.attempt = @ + 1]
    <3>1. r[c].attempt < MaxAttempts /\ r[c].spent + r[c].wait <= r[c].attempt * Round
      BY <1>0, <1>8 DEF Wake, SpentInv
    <3>2. y \in Activations /\ y.phase = "ready" /\ y.attempt = r[c].attempt
          /\ y.spent = r[c].spent
      BY <1>0 DEF Activations
    <3>3. r' = [r EXCEPT ![c] = x]
      BY <1>0, <2>2 DEF BudgetInv, Activations
    <3>4. x \in Activations /\ x.phase = "ready" /\ x.attempt = r[c].attempt + 1
          /\ x.spent = r[c].spent
      <4> HIDE DEF y
      <4> QED BY <1>0, <3>1, <3>2 DEF Activations
    <3>5. x.spent <= (x.attempt - 1) * Round
      BY <1>0, <2>2, <3>1, <3>4
    <3>6. SpentInv(x, age[c])
      BY <3>4, <3>5 DEF SpentInv
    <3> HIDE DEF x, y
    <3> QED BY <1>8, <3>3, <3>4, <3>6, OneMovesOutside DEF Wake, breakerVars
  <2> QED BY <1>8, <2>1, <2>2 DEF Wake, BudgetInv
<1>9. ASSUME NEW c \in Callers, Disconnect(c) PROVE BudgetInv'
  <2> DEFINE x == [r[c] EXCEPT !.left = 0]
  <2>1. r' = [r EXCEPT ![c] = x] /\ UNCHANGED <<inflight, age>>
    BY <1>9 DEF Disconnect, breakerVars
  <2>2. x \in Activations /\ x.phase = r[c].phase /\ x.attempt = r[c].attempt
        /\ x.spent = r[c].spent /\ x.wait = r[c].wait
    BY <1>0 DEF Activations
  <2>3. SpentInv(x, age[c])
    BY <1>0, <2>2 DEF SpentInv
  <2> HIDE DEF x
  <2> QED BY <2>1, <2>2, <2>3, OneMovesOutside DEF BudgetInv
<1>10. CASE Tick
  BY <1>10, TickBudget
<1>11. CASE UNCHANGED <<inflight, age, r>>
  BY <1>11 DEF BudgetInv, SpentInv
<1>12. CASE BreakerState
  BY <1>11, <1>12 DEF BreakerState, B!State
<1>13. CASE Flip
  BY <1>11, <1>13 DEF Flip, B!Flip
<1>14. CASE UNCHANGED vars
  BY <1>11, <1>14 DEF vars
<1> QED
  BY <1>1, <1>2, <1>3, <1>4, <1>5, <1>6, <1>7, <1>8, <1>9, <1>10, <1>12, <1>13, <1>14
  DEF Next

\* The account, over all rounds.
LEMMA BudgetSuffices == BudgetInv => WithinBudget
<1> SUFFICES ASSUME BudgetInv, NEW c \in Callers
             PROVE  r[c].spent <= MaxAttempts * MaxCallTime + (MaxAttempts - 1) * WorstDelay
  BY DEF WithinBudget
<1> USE UpstreamAssumption
<1> DEFINE n == r[c].attempt
<1>1. /\ r[c] \in Activations /\ SpentInv(r[c], age[c]) /\ age[c] \in 0 .. MaxCallTime
      /\ n \in 1 .. MaxAttempts /\ r[c].spent \in Nat /\ r[c].wait \in Nat
      /\ r[c].phase \in {"idle", "ready", "calling", "sleeping"}
  BY DEF BudgetInv, Activations
<1>2. WorstDelay \in Nat /\ MaxCallTime \in Nat /\ Round = MaxCallTime + WorstDelay
  BY DelayBound DEF Round
<1>3. ASSUME NEW k \in 0 .. MaxAttempts - 1
      PROVE  k * Round <= (MaxAttempts - 1) * Round
  BY <1>2
<1>4. (MaxAttempts - 1) * Round + MaxCallTime
        = MaxAttempts * MaxCallTime + (MaxAttempts - 1) * WorstDelay
  BY <1>2
<1>5. r[c].spent <= (MaxAttempts - 1) * Round + MaxCallTime
  <2>1. CASE r[c].phase = "idle"
    <3>1. r[c].spent = 0
      BY <1>1, <2>1 DEF SpentInv
    <3>2. 0 <= (MaxAttempts - 1) * Round
      BY <1>3, <1>2
    <3> QED BY <3>1, <3>2, <1>2
  <2>2. CASE r[c].phase \in {"ready", "calling"}
    <3>1. r[c].spent <= (n - 1) * Round + age[c]
      <4>1. (n - 1) * Round \in Int
        BY <1>1, <1>2
      <4>2. CASE r[c].phase = "ready"
        <5>1. r[c].spent <= (n - 1) * Round
          BY <1>1, <4>2 DEF SpentInv
        <5> QED BY <1>1, <4>1, <5>1
      <4>3. CASE r[c].phase = "calling"
        BY <1>1, <4>3 DEF SpentInv
      <4> QED BY <2>2, <4>2, <4>3
    <3>2. (n - 1) * Round <= (MaxAttempts - 1) * Round
      BY <1>1, <1>3
    <3>3. (n - 1) * Round \in Int /\ (MaxAttempts - 1) * Round \in Int
      BY <1>1, <1>2
    <3> QED BY <1>1, <1>2, <3>1, <3>2, <3>3
  <2>3. CASE r[c].phase = "sleeping"
    <3>1. n < MaxAttempts /\ r[c].spent + r[c].wait <= n * Round
      BY <1>1, <2>3 DEF SpentInv
    <3>2. n * Round <= (MaxAttempts - 1) * Round
      BY <1>1, <1>3, <3>1
    <3>3. n * Round \in Int /\ (MaxAttempts - 1) * Round \in Int
      BY <1>1, <1>2
    <3> QED BY <1>1, <1>2, <3>1, <3>2, <3>3
  <2> QED BY <1>1, <2>1, <2>2, <2>3
<1> QED BY <1>4, <1>5

\* No dependency holds a request longer than its attempts and backoffs.
THEOREM BudgetHolds == Spec => []WithinBudget
<1> QED BY InitBudget, NextBudget, BudgetSuffices, PTL DEF Spec

-----------------------------------------------------------------------------
(* The composition implements Breaker, and inherits what is proved of it.  *)

\* Each step of the retry loop is a step of Breaker, or none of its business.
LEMMA LoopStep == [Next]_vars => [B!Next]_(B!vars)
<1> SUFFICES ASSUME Next PROVE B!Next \/ UNCHANGED breakerVars
  BY DEF vars, B!vars, breakerVars
<1>1. ASSUME NEW c \in Callers, Attempt(c) PROVE B!Next
  BY <1>1 DEF Attempt, B!Next
<1>2. ASSUME NEW c \in Callers, Rejected(c) PROVE B!Next
  BY <1>2 DEF Rejected, B!Next
<1>3. ASSUME NEW c \in Callers, Answer(c) PROVE B!Next
  BY <1>3 DEF Answer, B!Next
<1>4. ASSUME NEW c \in Callers, AttemptFails(c) \/ Malformed(c) PROVE B!Next
  BY <1>4 DEF AttemptFails, Malformed, B!Next
<1>5. ASSUME NEW c \in Callers, AttemptCancelled(c) PROVE B!Next
  BY <1>5 DEF AttemptCancelled, B!Next
<1>6. ASSUME BreakerState \/ Tick \/ Flip PROVE B!Next
  BY <1>6 DEF BreakerState, Tick, Flip, B!Next
<1>7. ASSUME NEW c \in Callers, Begin(c) \/ GiveUp(c) \/ Wake(c) \/ Disconnect(c)
      PROVE  UNCHANGED breakerVars
  BY <1>7 DEF Begin, GiveUp, Wake, Disconnect
<1> QED BY <1>1, <1>2, <1>3, <1>4, <1>5, <1>6, <1>7 DEF Next

\* Composed this way, the loops are callers of Breaker.
LEMMA LoopsUseBreaker == Spec => B!Spec
<1>1. Init => B!Init
  BY DEF Init
<1> QED BY <1>1, LoopStep, PTL DEF Spec, B!Spec

-----------------------------------------------------------------------------
(* What BreakerProofs proves of its own instance of Breaker carries over:  *)
(* the two instances have the same constants and variables.                *)

LEMMA BreakerPremise ==
    /\ BP!ConfigOK /\ BP!IsFiniteSet(Callers)
    /\ MaxCallTime \in Nat /\ MaxWindowCalls \in Nat /\ MalformedURLs \in BOOLEAN
<1>1. BP!IsFiniteSet(Callers) <=> IsFiniteSet(Callers)
  BY DEF IsFiniteSet, BP!IsFiniteSet
<1> QED BY <1>1, UpstreamAssumption DEF B!ConfigOK, BP!ConfigOK

LEMMA SameCardinality == \A S : B!Cardinality(S) = BP!Cardinality(S)
BY DEF B!Cardinality, BP!Cardinality

USE DEF B!StateClosed, BP!StateClosed, B!StateOpen, BP!StateOpen,
        B!StateHalfOpen, BP!StateHalfOpen

LEMMA SameMethods ==
    \A br : /\ B!maybeHalfOpenLocked(br) = BP!maybeHalfOpenLocked(br)
            /\ B!admits(br) <=> BP!admits(br)
            /\ B!allow(br) = BP!allow(br)
            /\ B!release(br) = BP!release(br)
            /\ \A ok : B!record(br, ok) = BP!record(br, ok)
<1>1. \A br : B!release(br) = BP!release(br)
  BY DEF B!release, BP!release
<1>2. \A br : B!maybeHalfOpenLocked(br) = BP!maybeHalfOpenLocked(br)
  BY DEF B!maybeHalfOpenLocked, BP!maybeHalfOpenLocked
<1>3. \A br : B!admits(br) <=> BP!admits(br)
  BY DEF B!admits, BP!admits
<1>4. \A br : B!openLocked(br) = BP!openLocked(br)
  BY DEF B!openLocked, BP!openLocked, B!resetCountsLocked, BP!resetCountsLocked
<1>5. \A br : B!rollWindowLocked(br) = BP!rollWindowLocked(br)
  BY DEF B!rollWindowLocked, BP!rollWindowLocked
<1>6. \A br : B!allow(br) = BP!allow(br)
  BY <1>5 DEF B!allow, BP!allow
<1>7. ASSUME NEW br, NEW ok PROVE B!recordHalfOpen(br, ok) = BP!recordHalfOpen(br, ok)
  BY <1>1, <1>4
  DEF B!recordHalfOpen, BP!recordHalfOpen, B!resetCountsLocked, BP!resetCountsLocked
<1>8. ASSUME NEW br, NEW ok PROVE B!recordClosed(br, ok) = BP!recordClosed(br, ok)
  BY <1>4, <1>5 DEF B!recordClosed, BP!recordClosed, B!Tripping, BP!Tripping
<1>9. \A br, ok : B!record(br, ok) = BP!record(br, ok)
  BY <1>7, <1>8 DEF B!record, BP!record
<1> QED BY <1>1, <1>2, <1>3, <1>6, <1>9

LEMMA SameNext == B!Next => BP!Next
<1>1. ASSUME NEW c \in Callers, B!Admit(c) PROVE BP!Admit(c)
  BY <1>1, SameMethods, SameCardinality
  DEF B!Admit, BP!Admit, B!WithinBound, BP!WithinBound
<1>2. ASSUME NEW c \in Callers, B!Reject(c) PROVE BP!Reject(c)
  BY <1>2, SameMethods DEF B!Reject, BP!Reject
<1>3. ASSUME NEW c \in Callers, B!Succeed(c) PROVE BP!Succeed(c)
  BY <1>3, SameMethods DEF B!Succeed, BP!Succeed, B!Leave, BP!Leave
<1>4. ASSUME NEW c \in Callers, B!Fail(c) PROVE BP!Fail(c)
  BY <1>4, SameMethods DEF B!Fail, BP!Fail, B!Leave, BP!Leave
<1>5. ASSUME NEW c \in Callers, B!Cancel(c) PROVE BP!Cancel(c)
  BY <1>5, SameMethods DEF B!Cancel, BP!Cancel, B!Leave, BP!Leave
<1>6. B!State => BP!State
  <2>1. B!maybeHalfOpenLocked(b) = BP!maybeHalfOpenLocked(b)
    BY SameMethods
  <2> QED BY <2>1 DEF B!State, BP!State
<1>7. B!Tick => BP!Tick
  BY DEF B!Tick, BP!Tick, B!Saturate, BP!Saturate
<1>8. B!Flip => BP!Flip
  BY DEF B!Flip, BP!Flip
<1> QED BY <1>1, <1>2, <1>3, <1>4, <1>5, <1>6, <1>7, <1>8 DEF B!Next, BP!Next

LEMMA SameSpec == B!Spec => BP!Spec
<1>1. B!Init => BP!Init
  BY DEF B!Init, BP!Init, B!NewBreaker, BP!NewBreaker
<1>2. [B!Next]_(B!vars) => [BP!Next]_(BP!vars)
  BY SameNext DEF B!vars, BP!vars
<1> QED BY <1>1, <1>2, PTL DEF B!Spec, BP!Spec

\* The breaker's struct keeps its type under the retry loop, and every
\* activation of do() keeps its own: no request exceeds MaxAttempts.
THEOREM UpstreamTypes == Spec => []TypeOK
<1>1. BP!Spec => []BP!TypeOK
  BY BreakerPremise, BP!BreakerTypes
<1>2. BP!TypeOK => B!TypeOK
  BY DEF B!TypeOK, BP!TypeOK, B!Breakers, BP!Breakers
<1>3. B!TypeOK /\ BudgetInv => TypeOK
  BY DEF BudgetInv, TypeOK
<1> QED
  BY <1>1, <1>2, <1>3, SameSpec, LoopsUseBreaker, InitBudget, NextBudget, PTL DEF Spec

\* As the gateway wires it (the client's timeout is shorter than the breaker's
\* open period) only trials end the half-open state, whatever is retried.
THEOREM LoopTrialsDecide ==
    ASSUME MaxCallTime < OpenTimeout
    PROVE  Spec => TrialsDecide
<1>1. BP!Spec => BP!TrialsDecide
  BY BreakerPremise, BP!OnlyTrialsDecide
<1>2. BP!TrialsDecide => B!TrialsDecide
  BY PTL DEF B!TrialsDecide, BP!TrialsDecide, B!vars, BP!vars
<1> QED
  BY <1>1, <1>2, SameSpec, LoopsUseBreaker, PTL DEF TrialsDecide

\* Whatever is retried, abandoned or timed out, and however long calls take, the
\* breaker that the loops share loses no half-open slot, leaves a failing
\* dependency alone while it is open, and trips in an outage.
THEOREM LoopsKeepBreaker == Spec => [](B!NoLeakedSlots /\ B!NoCallWhileOpen /\ B!OutageTrips)
<1>1. BP!Spec => []BP!NoLeakedSlots /\ []BP!NoCallWhileOpen /\ []BP!OutageTrips
  BY BreakerPremise, BP!SlotsNeverLeak, BP!OpenLeavesAlone, BP!OutageOpens
<1>2. BP!NoLeakedSlots => B!NoLeakedSlots
  BY DEF B!NoLeakedSlots, BP!NoLeakedSlots, B!StateHalfOpen, BP!StateHalfOpen, B!Cardinality, BP!Cardinality
<1>3. BP!NoCallWhileOpen => B!NoCallWhileOpen
  BY DEF B!NoCallWhileOpen, BP!NoCallWhileOpen, B!StateOpen, BP!StateOpen
<1>4. BP!OutageTrips => B!OutageTrips
  BY DEF B!OutageTrips, BP!OutageTrips, B!UnderRatio, BP!UnderRatio, B!StateClosed, BP!StateClosed
<1> QED
  BY <1>1, <1>2, <1>3, <1>4, SameSpec, LoopsUseBreaker, PTL

-----------------------------------------------------------------------------
(* What opens the breaker.                                                 *)

\* The methods, as the composition calls them.
LEMMA OpensNothing ==
    ASSUME B!TypeOK
    PROVE  /\ B!record(b, TRUE).state = "open" => b.state = "open"
           /\ B!release(b).state = b.state
           /\ B!maybeHalfOpenLocked(b).state = "open" => b.state = "open"
           /\ LET m == B!maybeHalfOpenLocked(b) IN B!admits(m) => B!allow(m).state # "open"
<1>1. b \in BP!Breakers
  BY DEF B!TypeOK, B!Breakers, BP!Breakers
<1>2. BP!maybeHalfOpenLocked(b) \in BP!Breakers
  BY <1>1, BreakerPremise, BP!MethodTypes
<1>3. /\ BP!record(b, TRUE).state = "open" => b.state = "open"
      /\ BP!release(b).state = b.state
      /\ BP!maybeHalfOpenLocked(b).state = "open" => b.state = "open"
  BY <1>1, BreakerPremise, BP!OpensNothing
<1>4. LET m == BP!maybeHalfOpenLocked(b) IN BP!admits(m) => BP!allow(m).state # "open"
  BY <1>2, BreakerPremise, BP!OpensNothing
<1> QED BY <1>3, <1>4, SameMethods

\* Every step that opens the breaker reports a failure to it: of the dependency,
\* or of a request that could not be made.
LEMMA NextOpens ==
    ASSUME TypeOK, Next, Opens
    PROVE  ~healthy \/ \E c \in inflight \ inflight' : r[c].malformed
<1> SUFFICES ASSUME healthy PROVE \E c \in inflight \ inflight' : r[c].malformed
  OBVIOUS
<1>0. B!TypeOK /\ b.state # "open" /\ b'.state = "open"
  BY DEF TypeOK, Opens
<1>1. ASSUME NEW c \in Callers, Attempt(c) PROVE FALSE
  BY <1>0, <1>1, OpensNothing DEF Attempt, B!Admit
<1>2. ASSUME NEW c \in Callers, Rejected(c) PROVE FALSE
  BY <1>0, <1>2, OpensNothing DEF Rejected, B!Reject
<1>3. ASSUME NEW c \in Callers, Answer(c) PROVE FALSE
  BY <1>0, <1>3, OpensNothing DEF Answer, B!Succeed, B!Leave
<1>4. ASSUME NEW c \in Callers, AttemptFails(c) PROVE FALSE
  BY <1>4 DEF AttemptFails
<1>5. ASSUME NEW c \in Callers, AttemptCancelled(c) PROVE FALSE
  BY <1>0, <1>5, OpensNothing DEF AttemptCancelled, B!Cancel, B!Leave
<1>6. ASSUME BreakerState PROVE FALSE
  BY <1>0, <1>6, OpensNothing DEF BreakerState, B!State
<1>7. ASSUME Tick PROVE FALSE
  <2>1. b'.state = b.state
    BY <1>0, <1>7 DEF Tick, B!Tick, B!TypeOK, B!Breakers
  <2> QED BY <1>0, <2>1
<1>8. ASSUME NEW c \in Callers,
             Begin(c) \/ GiveUp(c) \/ Wake(c) \/ Disconnect(c)
      PROVE  FALSE
  BY <1>0, <1>8 DEF Begin, GiveUp, Wake, Disconnect, breakerVars
<1>9. ASSUME Flip PROVE FALSE
  BY <1>0, <1>9 DEF Flip, B!Flip
<1>10. ASSUME NEW c \in Callers, Malformed(c) PROVE c \in inflight \ inflight' /\ r[c].malformed
  BY <1>10 DEF Malformed, B!Fail, B!Leave
<1> QED
  BY <1>1, <1>2, <1>3, <1>4, <1>5, <1>6, <1>7, <1>8, <1>9, <1>10 DEF Next

\* Impatient clients, deadlines and late answers open no breaker in front of a
\* healthy dependency, for any configuration of breaker and retries and any
\* number of requests; a request that makes no URL is the one exception.
THEOREM OnlyFailuresOpen == Spec => OnlyFailuresTrip
<1>1. TypeOK /\ [Next]_vars
        => [Opens => ~healthy \/ \E c \in inflight \ inflight' : r[c].malformed]_vars
  BY NextOpens
<1> QED BY <1>1, UpstreamTypes, PTL DEF Spec, OnlyFailuresTrip

-----------------------------------------------------------------------------
(* The deadline.                                                           *)

\* Whoever starts a backoff has more time left than the backoff takes.
LEMMA BackoffChecked ==
    ASSUME NEW q \in Activations, NEW err \in Outcomes, NEW permanent \in BOOLEAN,
           NEW x \in afterError(q, err, permanent), x.phase = "sleeping"
    PROVE  x.wait < x.left
<1> USE UpstreamAssumption
<1>0. q.attempt \in 1 .. MaxAttempts /\ q.left \in Nat
  BY DEF Activations
<1>1. x # finish(err)
  BY DEF finish, Idle
<1>2. PICK d \in delayFor(q.attempt) : x = backOff(q, err, d)
  BY <1>1 DEF afterError
<1>3. d \in Nat
  BY <1>0, DelayBound
<1>4. ~(q.left <= d) /\ x = [q EXCEPT !.phase = "sleeping", !.wait = d, !.result = err]
  BY <1>1, <1>2 DEF backOff
<1>5. x.wait = d /\ x.left = q.left
  BY <1>4 DEF Activations
<1> QED BY <1>0, <1>3, <1>4, <1>5

LEMMA NextBackoff ==
    BudgetInv /\ BackoffFitsDeadline /\ [Next]_vars => BackoffFitsDeadline'
<1> SUFFICES ASSUME BudgetInv, BackoffFitsDeadline, [Next]_vars,
                    NEW d \in Callers, r'[d].phase = "sleeping", r'[d].left > 0
             PROVE  r'[d].wait < r'[d].left
  BY DEF BackoffFitsDeadline
<1> USE UpstreamAssumption
<1>0. /\ r \in [Callers -> Activations]
      /\ r[d] \in Activations /\ r[d].left \in Nat /\ r[d].wait \in Nat
      /\ r[d].phase = "sleeping" /\ r[d].left > 0 => r[d].wait < r[d].left
  BY DEF BudgetInv, Activations, BackoffFitsDeadline
<1>1. ASSUME r'[d] = r[d] PROVE r'[d].wait < r'[d].left
  BY <1>0, <1>1
<1>2. ASSUME NEW c \in Callers, NEW err \in {"breaker_open", "error"}, NEW permanent \in BOOLEAN,
             NEW x \in afterError(r[c], err, permanent), r' = [r EXCEPT ![c] = x]
      PROVE  r'[d].wait < r'[d].left
  <2>1. CASE c = d
    <3>1. r'[d] = x
      BY <1>0, <1>2, <2>1
    <3> QED BY <1>0, <1>2, <2>1, <3>1, BackoffChecked DEF Outcomes
  <2>2. CASE c # d
    BY <1>0, <1>1, <1>2, <2>2
  <2> QED BY <2>1, <2>2
<1>3. ASSUME NEW c \in Callers, NEW x, x.phase # "sleeping", r' = [r EXCEPT ![c] = x]
      PROVE  r'[d].wait < r'[d].left
  BY <1>0, <1>1, <1>3
<1>f. \A o : finish(o).phase # "sleeping"
  BY DEF finish, Idle
<1>4. ASSUME NEW c \in Callers, Begin(c) PROVE r'[d].wait < r'[d].left
  <2>1. PICK t \in Deadlines, bad \in {FALSE, MalformedURLs} :
          r' = [r EXCEPT ![c] = [Idle EXCEPT !.phase = "ready", !.left = t, !.malformed = bad]]
    BY <1>4 DEF Begin
  <2>2. [Idle EXCEPT !.phase = "ready", !.left = t, !.malformed = bad].phase # "sleeping"
    BY DEF Idle
  <2> QED BY <1>3, <2>1, <2>2
<1>5. ASSUME NEW c \in Callers, GiveUp(c) \/ Answer(c) PROVE r'[d].wait < r'[d].left
  <2>1. \E o : r' = [r EXCEPT ![c] = finish(o)]
    BY <1>5 DEF GiveUp, Answer
  <2> QED BY <1>3, <1>f, <2>1
<1>6. ASSUME NEW c \in Callers, Attempt(c) PROVE r'[d].wait < r'[d].left
  BY <1>0, <1>1, <1>6 DEF Attempt, Activations
<1>7. ASSUME NEW c \in Callers, Rejected(c) PROVE r'[d].wait < r'[d].left
  BY <1>2, <1>7 DEF Rejected
<1>8. ASSUME NEW c \in Callers, AttemptFails(c) \/ Malformed(c) \/ AttemptCancelled(c)
      PROVE  r'[d].wait < r'[d].left
  BY <1>2, <1>8 DEF AttemptFails, Malformed, AttemptCancelled
<1>9. ASSUME NEW c \in Callers, Wake(c) PROVE r'[d].wait < r'[d].left
  <2>1. CASE r' = [r EXCEPT ![c] = finish(r[c].result)]
    BY <1>3, <1>f, <2>1
  <2>2. CASE r' = [r EXCEPT ![c].phase = "ready", ![c].attempt = @ + 1]
    BY <1>0, <1>1, <2>2 DEF Activations
  <2> QED BY <1>9, <2>1, <2>2 DEF Wake, BudgetInv
<1>10. ASSUME NEW c \in Callers, Disconnect(c) PROVE r'[d].wait < r'[d].left
  BY <1>0, <1>1, <1>10 DEF Disconnect, Activations
<1>11. CASE Tick
  <2>1. r'[d] = [r[d] EXCEPT !.left = IF @ > 0 THEN @ - 1 ELSE 0,
                             !.wait = IF @ > 0 THEN @ - 1 ELSE 0,
                             !.spent = IF Running(d) THEN @ + 1 ELSE @]
    BY <1>11 DEF Tick
  <2>2. /\ r'[d].phase = r[d].phase
        /\ r'[d].left = IF r[d].left > 0 THEN r[d].left - 1 ELSE 0
        /\ r'[d].wait = IF r[d].wait > 0 THEN r[d].wait - 1 ELSE 0
    BY <1>0, <2>1 DEF Activations
  <2>3. r[d].phase = "sleeping" /\ r[d].left > 0 /\ r[d].wait > 0
    BY <1>11, <2>2 DEF Tick, Running
  <2> QED BY <1>0, <2>2, <2>3
<1>12. CASE UNCHANGED r
  BY <1>1, <1>12
<1> QED
  BY <1>4, <1>5, <1>6, <1>7, <1>8, <1>9, <1>10, <1>11, <1>12
  DEF Next, BreakerState, Flip, vars

\* Nobody sleeps past the deadline of the request it retries for.
THEOREM SleepsFitDeadline == Spec => []BackoffFitsDeadline
<1>1. Init => BackoffFitsDeadline
  BY DEF Init, BackoffFitsDeadline, Idle
<1> QED BY <1>1, InitBudget, NextBudget, NextBackoff, PTL DEF Spec
==============================================================================
