---------------------------- MODULE BreakerProofs ----------------------------
(***************************************************************************)
(* Proofs about Breaker, for every number of callers and every             *)
(* configuration that withDefaults can leave.                              *)
(***************************************************************************)
EXTENDS Breaker, FiniteSetTheorems, TLAPS

-----------------------------------------------------------------------------
(* Inductive invariants.                                                   *)

\* Holds whatever the calls take.
SafetyInv ==
    /\ TypeOK
    /\ b.state # StateHalfOpen => trials = {}
    /\ NoLeakedSlots
    /\ NoCallWhileOpen
    /\ OutageTrips

\* Holds when every call ends before the open period does: then no call of an
\* earlier period is left when the trials begin, so every running call is a
\* trial and holds exactly one slot.
ShortCallInv ==
    /\ SafetyInv
    /\ b.state = StateHalfOpen =>
         /\ trials = inflight
         /\ b.halfOpenActive = Cardinality(trials)

-----------------------------------------------------------------------------
\* The single assignments the methods are made of.
LEMMA FieldTypes ==
    /\ \A br \in Breakers : [br EXCEPT !.successes = 0] \in Breakers
    /\ \A br \in Breakers : [br EXCEPT !.failures = 0] \in Breakers
    /\ \A br \in Breakers : [br EXCEPT !.halfOpenActive = 0] \in Breakers
    /\ \A br \in Breakers : [br EXCEPT !.halfOpenOK = 0] \in Breakers
    /\ \A br \in Breakers : [br EXCEPT !.windowAge = 0] \in Breakers
    /\ \A br \in Breakers : [br EXCEPT !.openAge = 0] \in Breakers
    /\ \A br \in Breakers : [br EXCEPT !.state = StateClosed] \in Breakers
    /\ \A br \in Breakers : [br EXCEPT !.state = StateOpen] \in Breakers
    /\ \A br \in Breakers : [br EXCEPT !.state = StateHalfOpen] \in Breakers
<1> USE BreakerAssumption
<1>1. \A br \in Breakers : [br EXCEPT !.successes = 0] \in Breakers
  BY DEF Breakers, ConfigOK
<1>2. \A br \in Breakers : [br EXCEPT !.failures = 0] \in Breakers
  BY DEF Breakers, ConfigOK
<1>3. \A br \in Breakers : [br EXCEPT !.halfOpenActive = 0] \in Breakers
  BY DEF Breakers, ConfigOK
<1>4. \A br \in Breakers : [br EXCEPT !.halfOpenOK = 0] \in Breakers
  BY DEF Breakers, ConfigOK
<1>5. \A br \in Breakers : [br EXCEPT !.windowAge = 0] \in Breakers
  BY DEF Breakers, ConfigOK
<1>6. \A br \in Breakers : [br EXCEPT !.openAge = 0] \in Breakers
  BY DEF Breakers, ConfigOK
<1>7. \A br \in Breakers : [br EXCEPT !.state = StateClosed] \in Breakers
  BY DEF Breakers
<1>8. \A br \in Breakers : [br EXCEPT !.state = StateOpen] \in Breakers
  BY DEF Breakers
<1>9. \A br \in Breakers : [br EXCEPT !.state = StateHalfOpen] \in Breakers
  BY DEF Breakers
<1> QED
  BY <1>1, <1>2, <1>3, <1>4, <1>5, <1>6, <1>7, <1>8, <1>9

\* The methods keep the struct in its type: no counter leaves its range.
LEMMA MethodTypes ==
    ASSUME NEW br \in Breakers, NEW ok \in BOOLEAN
    PROVE  /\ resetCountsLocked(br) \in Breakers
           /\ openLocked(br) \in Breakers
           /\ maybeHalfOpenLocked(br) \in Breakers
           /\ rollWindowLocked(br) \in Breakers
           /\ release(br) \in Breakers
           /\ admits(br) => allow(br) \in Breakers
           /\ record(br, ok) \in Breakers
<1>1. \A x \in Breakers : resetCountsLocked(x) \in Breakers
  BY FieldTypes DEF resetCountsLocked
<1>2. \A x \in Breakers : openLocked(x) \in Breakers
  BY <1>1, FieldTypes DEF openLocked
<1>3. maybeHalfOpenLocked(br) \in Breakers
  BY FieldTypes DEF maybeHalfOpenLocked
<1>4. rollWindowLocked(br) \in Breakers
  BY FieldTypes DEF rollWindowLocked
<1> USE BreakerAssumption DEF ConfigOK, StateClosed, StateOpen, StateHalfOpen
<1>5. release(br) \in Breakers
  BY DEF release, Breakers
<1>6. admits(br) => allow(br) \in Breakers
  BY <1>4 DEF admits, allow, Breakers
<1>7. recordHalfOpen(br, ok) \in Breakers
  <2>1. [release(br) EXCEPT !.state = StateClosed] \in Breakers
    BY <1>5 DEF Breakers
  <2>2. release(br).halfOpenOK = br.halfOpenOK
    BY DEF release, Breakers
  <2>3. br.halfOpenOK + 1 < HalfOpenSuccesses
        => [release(br) EXCEPT !.halfOpenOK = @ + 1] \in Breakers
    BY <1>5, <2>2 DEF Breakers
  <2>4. br.halfOpenOK + 1 >= HalfOpenSuccesses \/ br.halfOpenOK + 1 < HalfOpenSuccesses
    BY DEF Breakers
  <2> QED
    BY <1>1, <1>2, <1>5, <2>1, <2>3, <2>4 DEF recordHalfOpen
<1>8. recordClosed(br, ok) \in Breakers
  <2>1. /\ [rollWindowLocked(br) EXCEPT !.successes = @ + 1] \in Breakers
        /\ [rollWindowLocked(br) EXCEPT !.failures = @ + 1] \in Breakers
    BY <1>4 DEF Breakers
  <2> QED
    BY <1>2, <2>1 DEF recordClosed
<1>9. record(br, ok) \in Breakers
  BY <1>7, <1>8 DEF record, Breakers
<1> QED
  BY <1>1, <1>2, <1>3, <1>4, <1>5, <1>6, <1>9

\* Where each method can take the state, and what becomes of the slots.
LEMMA MethodEffects ==
    ASSUME NEW br \in Breakers, NEW ok \in BOOLEAN
    PROVE  /\ openLocked(br).state = StateOpen /\ openLocked(br).openAge = 0
           /\ release(br).state = br.state /\ release(br).openAge = br.openAge
           /\ admits(br) => /\ br.state # StateOpen
                            /\ allow(br).state = br.state
           /\ br.state = StateHalfOpen =>
                /\ record(br, ok).state = StateHalfOpen =>
                     record(br, ok).halfOpenActive = release(br).halfOpenActive
                /\ record(br, ok).state = StateOpen => record(br, ok).openAge = 0
           /\ br.state = StateClosed =>
                /\ record(br, ok).state # StateHalfOpen
                /\ record(br, ok).state = StateOpen => record(br, ok).openAge = 0
           /\ br.state = StateOpen => record(br, ok) = br
<1> USE BreakerAssumption DEF ConfigOK, StateClosed, StateOpen, StateHalfOpen
<1>1. \A x \in Breakers : openLocked(x).state = StateOpen /\ openLocked(x).openAge = 0
  BY DEF openLocked, resetCountsLocked, Breakers
<1>2. release(br).state = br.state /\ release(br).openAge = br.openAge
  BY DEF release, Breakers
<1>3. admits(br) => br.state # StateOpen /\ allow(br).state = br.state
  BY DEF admits, allow, rollWindowLocked, Breakers
<1>4. ASSUME br.state = StateHalfOpen
      PROVE  /\ record(br, ok).state = StateHalfOpen =>
                  record(br, ok).halfOpenActive = release(br).halfOpenActive
             /\ record(br, ok).state = StateOpen => record(br, ok).openAge = 0
  <2>1. record(br, ok) = recordHalfOpen(br, ok)
    BY <1>4 DEF record
  <2>2. release(br) \in Breakers
    BY MethodTypes
  <2>3. resetCountsLocked([release(br) EXCEPT !.state = StateClosed]).state = StateClosed
    BY <2>2 DEF resetCountsLocked, Breakers
  <2>4. LET r == [release(br) EXCEPT !.halfOpenOK = @ + 1]
        IN  r.state = StateHalfOpen /\ r.halfOpenActive = release(br).halfOpenActive
    BY <2>2, <1>2, <1>4 DEF Breakers
  <2> QED
    BY <1>1, <2>1, <2>2, <2>3, <2>4 DEF recordHalfOpen
<1>5. ASSUME br.state = StateClosed
      PROVE  /\ record(br, ok).state # StateHalfOpen
             /\ record(br, ok).state = StateOpen => record(br, ok).openAge = 0
  <2> DEFINE rolled  == rollWindowLocked(br)
             counted == IF ok THEN [rolled EXCEPT !.successes = @ + 1]
                              ELSE [rolled EXCEPT !.failures = @ + 1]
  <2>1. record(br, ok) = recordClosed(br, ok)
    BY <1>5 DEF record
  <2>2. rolled \in Breakers /\ rolled.state = StateClosed
    BY <1>5, MethodTypes DEF rollWindowLocked, Breakers
  <2>3. counted \in Breakers /\ counted.state = StateClosed
    <3> HIDE DEF rolled
    <3> QED BY <2>2 DEF Breakers
  <2>4. recordClosed(br, ok) = openLocked(counted) \/ recordClosed(br, ok) = counted
    BY DEF recordClosed
  <2> HIDE DEF counted
  <2> QED
    BY <1>1, <2>1, <2>3, <2>4
<1>6. br.state = StateOpen => record(br, ok) = br
  BY DEF record
<1> QED
  BY <1>1, <1>2, <1>3, <1>4, <1>5, <1>6

\* What a pending transition to half-open leaves of the struct.
LEMMA PendingTransition ==
    ASSUME NEW br \in Breakers
    PROVE  LET m == maybeHalfOpenLocked(br)
           IN  \/ m = br
               \/ /\ br.state = StateOpen /\ br.openAge = OpenTimeout
                  /\ m.state = StateHalfOpen /\ m.halfOpenActive = 0
BY BreakerAssumption DEF ConfigOK, maybeHalfOpenLocked, Breakers,
   StateOpen, StateHalfOpen

-----------------------------------------------------------------------------

\* allow(), applied to the struct after a pending transition.
LEMMA AllowSlots ==
    ASSUME NEW br \in Breakers, br.state = StateHalfOpen
    PROVE  allow(br).halfOpenActive = br.halfOpenActive + 1
BY DEF allow, Breakers, StateHalfOpen

\* release() gives back one slot, if one is taken.
LEMMA ReleaseSlots ==
    ASSUME NEW br \in Breakers, br.state = StateHalfOpen
    PROVE  release(br).halfOpenActive =
             IF br.halfOpenActive > 0 THEN br.halfOpenActive - 1 ELSE 0
BY DEF release, Breakers, StateHalfOpen

\* No method leaves a closed breaker with its failures over the ratio.
LEMMA RatioKept ==
    ASSUME NEW br \in Breakers, NEW ok \in BOOLEAN, UnderRatio(br)
    PROVE  /\ UnderRatio(maybeHalfOpenLocked(br))
           /\ UnderRatio(allow(br))
           /\ UnderRatio(release(br))
           /\ UnderRatio(record(br, ok))
<1> USE BreakerAssumption DEF ConfigOK, StateClosed, StateOpen, StateHalfOpen
<1>1. UnderRatio(maybeHalfOpenLocked(br))
  BY PendingTransition DEF UnderRatio
<1>2. \A x \in Breakers : x.failures = 0 => UnderRatio(x)
  BY DEF UnderRatio, Breakers
<1>3. UnderRatio(rollWindowLocked(br)) /\ rollWindowLocked(br) \in Breakers
  <2>1. rollWindowLocked(br) = br \/ rollWindowLocked(br).failures = 0
    BY DEF rollWindowLocked, Breakers
  <2> QED BY <1>2, <2>1, MethodTypes
<1>4. UnderRatio(allow(br))
  <2>1. br.state = StateHalfOpen => allow(br).state = StateHalfOpen
    BY DEF allow, Breakers
  <2> QED BY <1>3, <2>1 DEF allow, UnderRatio
<1>5. UnderRatio(release(br))
  <2>1. release(br) = br \/ release(br).state = StateHalfOpen
    BY DEF release, Breakers
  <2> QED BY <2>1 DEF UnderRatio
<1>6. CASE br.state = StateHalfOpen
  <2>1. record(br, ok) = recordHalfOpen(br, ok)
    BY <1>6 DEF record
  <2>2. release(br).state = StateHalfOpen /\ release(br) \in Breakers
    BY <1>6, MethodTypes, MethodEffects
  <2>3. \A x \in Breakers : openLocked(x).state = StateOpen
    BY MethodEffects
  <2>4. resetCountsLocked([release(br) EXCEPT !.state = StateClosed]).failures = 0
    BY <2>2 DEF resetCountsLocked, Breakers
  <2>5. [release(br) EXCEPT !.halfOpenOK = @ + 1].state = StateHalfOpen
    BY <2>2 DEF Breakers
  <2>6. record(br, ok).state # StateClosed \/ record(br, ok).failures = 0
    BY <2>1, <2>2, <2>3, <2>4, <2>5 DEF recordHalfOpen
  <2> QED BY <1>1, <1>2, <1>4, <1>5, <2>6, MethodTypes DEF UnderRatio
<1>7. CASE br.state = StateClosed
  <2> DEFINE rolled  == rollWindowLocked(br)
             counted == IF ok THEN [rolled EXCEPT !.successes = @ + 1]
                              ELSE [rolled EXCEPT !.failures = @ + 1]
  <2>1. record(br, ok) = IF ~ok /\ Tripping(counted) THEN openLocked(counted) ELSE counted
    BY <1>7 DEF record, recordClosed
  <2>2. rolled \in Breakers /\ UnderRatio(rolled) /\ rolled.state = StateClosed
    BY <1>3, <1>7 DEF rollWindowLocked, Breakers
  <2> HIDE DEF rolled
  <2>3. /\ counted \in Breakers
        /\ ok => /\ counted.successes = rolled.successes + 1
                 /\ counted.failures = rolled.failures
        /\ rolled.successes \in Nat /\ rolled.failures \in Nat
    BY <2>2 DEF Breakers
  <2>4. CASE ok
    <3> DEFINE s == rolled.successes
               f == rolled.failures
    <3>1. f >= MinimumRequests => f * RatioDen < RatioNum * (s + f)
      BY <2>2 DEF UnderRatio
    <3>2. RatioNum * (s + 1 + f) = RatioNum * (s + f) + RatioNum
          /\ f * RatioDen \in Nat /\ RatioNum * (s + f) \in Nat
      <4>1. s \in Nat /\ f \in Nat /\ RatioNum \in Nat /\ RatioDen \in Nat
        BY <2>3
      <4> HIDE DEF s, f
      <4> QED BY ONLY <4>1
    <3>3. f >= MinimumRequests => f * RatioDen < RatioNum * (s + 1 + f)
      BY <3>1, <3>2
    <3>4. UnderRatio(counted)
      <4> HIDE DEF counted
      <4> QED BY <2>3, <2>4, <3>3 DEF UnderRatio
    <3> QED BY <2>1, <2>4, <3>4, <1>1, <1>4, <1>5
  <2>5. CASE ~ok
    <3> HIDE DEF counted
    <3>1. CASE Tripping(counted)
      <4>1. record(br, ok).state = StateOpen
        BY <2>1, <2>3, <2>5, <3>1, MethodEffects
      <4> QED BY <4>1, <1>1, <1>4, <1>5 DEF UnderRatio
    <3>2. CASE ~Tripping(counted)
      <4>1. record(br, ok) = counted
        BY <2>1, <3>2
      <4>2. counted.successes \in Nat /\ counted.failures \in Nat
        BY <2>3 DEF Breakers
      <4>3. counted.failures * RatioDen \in Nat
            /\ RatioNum * (counted.successes + counted.failures) \in Nat
        BY <4>2
      <4>4. UnderRatio(counted)
        BY <3>2, <4>2, <4>3 DEF Tripping, UnderRatio
      <4> QED BY <4>1, <4>4, <1>1, <1>4, <1>5
    <3> QED BY <3>1, <3>2
  <2> QED BY <2>4, <2>5
<1>8. CASE br.state = StateOpen
  BY <1>1, <1>4, <1>5, <1>8, MethodEffects
<1> QED BY <1>6, <1>7, <1>8 DEF Breakers

\* A call that did not fail opens nothing, whatever is counted already.
LEMMA OpensNothing ==
    ASSUME NEW br \in Breakers
    PROVE  /\ record(br, TRUE).state = StateOpen => br.state = StateOpen
           /\ release(br).state = br.state
           /\ maybeHalfOpenLocked(br).state = StateOpen => br.state = StateOpen
           /\ admits(br) => allow(br).state # StateOpen
<1> USE DEF StateClosed, StateOpen, StateHalfOpen
<1>1. release(br).state = br.state /\ release(br) \in Breakers
      /\ (admits(br) => allow(br).state # StateOpen)
  <2>1. TRUE \in BOOLEAN
    OBVIOUS
  <2>2. release(br) \in Breakers
    BY <2>1, MethodTypes, ZenonT(60)
  <2>3. release(br).state = br.state /\ (admits(br) => br.state # StateOpen /\ allow(br).state = br.state)
    BY <2>1, MethodEffects, ZenonT(60)
  <2> QED BY <2>2, <2>3, ZenonT(60)
<1>2. CASE br.state = StateHalfOpen
  <2>1. record(br, TRUE) = recordHalfOpen(br, TRUE)
    BY <1>2 DEF record
  <2>2. resetCountsLocked([release(br) EXCEPT !.state = StateClosed]).state = StateClosed
    BY <1>1 DEF resetCountsLocked, Breakers
  <2>3. [release(br) EXCEPT !.halfOpenOK = @ + 1].state = StateHalfOpen
    BY <1>1, <1>2 DEF Breakers
  <2> QED BY <1>1, <1>2, <2>1, <2>2, <2>3, PendingTransition DEF recordHalfOpen
<1>3. CASE br.state = StateClosed
  <2>1. record(br, TRUE) = [rollWindowLocked(br) EXCEPT !.successes = @ + 1]
    BY <1>3 DEF record, recordClosed
  <2>2. rollWindowLocked(br) \in Breakers /\ rollWindowLocked(br).state = StateClosed
    BY <1>3, MethodTypes DEF rollWindowLocked, Breakers
  <2>3. record(br, TRUE).state = StateClosed
    BY <2>1, <2>2 DEF Breakers
  <2> QED BY <1>1, <1>3, <2>3, PendingTransition
<1> QED BY <1>1, <1>2, <1>3 DEF Breakers

\* The clock step keeps the struct in its type.
LEMMA TickTypes ==
    ASSUME SafetyInv, Tick
    PROVE  /\ b' \in Breakers
           /\ b'.state = b.state /\ b'.halfOpenActive = b.halfOpenActive
           /\ b'.openAge <= b.openAge + 1
           /\ b'.successes = b.successes /\ b'.failures = b.failures
<1> USE BreakerAssumption
<1> DEFINE w == [b EXCEPT !.windowAge = Saturate(@, Window)]
<1>1. b \in Breakers
  BY DEF SafetyInv, TypeOK
<1>2. w \in Breakers /\ w.state = b.state /\ w.halfOpenActive = b.halfOpenActive
      /\ w.openAge = b.openAge
      /\ w.successes = b.successes /\ w.failures = b.failures
  BY <1>1 DEF Breakers, Saturate, ConfigOK
<1>3. b' = [w EXCEPT !.openAge = Saturate(@, OpenTimeout)]
  BY <1>1 DEF Tick, Breakers
<1> HIDE DEF w
<1> QED
  BY <1>2, <1>3 DEF Breakers, Saturate, ConfigOK

\* SafetyInv is preserved when a call ends, whichever way it ends.
LEMMA LeaveSafety ==
    ASSUME SafetyInv, NEW c \in Callers, NEW br \in Breakers, Leave(c, br),
           \/ br = release(b)
           \/ \E ok \in BOOLEAN : br = record(b, ok)
    PROVE  SafetyInv'
<1>1. b \in Breakers /\ IsFiniteSet(trials) /\ IsFiniteSet(trials \ {c})
      /\ b.state \in {StateClosed, StateOpen, StateHalfOpen}
  BY BreakerAssumption, FS_Subset, FS_RemoveElement DEF SafetyInv, TypeOK, Breakers
<1>2. TypeOK'
  <2>1. (age \in [Callers -> 0 .. MaxCallTime])'
    BY BreakerAssumption DEF SafetyInv, TypeOK, Leave
  <2>2. (inflight \subseteq Callers /\ trials \subseteq inflight)'
    BY DEF SafetyInv, TypeOK, Leave
  <2> QED BY <2>1, <2>2 DEF SafetyInv, TypeOK, Leave
<1>3. (b.state # StateHalfOpen => trials = {})'
  BY DEF Leave
<1>4. NoLeakedSlots'
  <2> SUFFICES ASSUME br.state = StateHalfOpen
               PROVE  br.halfOpenActive <= Cardinality(trials \ {c})
    BY DEF NoLeakedSlots, Leave
  <2>1. b.state = StateHalfOpen /\ br.halfOpenActive = release(b).halfOpenActive
    BY <1>1, MethodEffects, ZenonT(60) DEF StateHalfOpen, StateOpen, StateClosed
  <2>2. br.halfOpenActive = IF b.halfOpenActive > 0 THEN b.halfOpenActive - 1 ELSE 0
    BY <1>1, <2>1, ReleaseSlots
  <2>3. Cardinality(trials \ {c}) >= Cardinality(trials) - 1
        /\ Cardinality(trials \ {c}) \in Nat /\ Cardinality(trials) \in Nat
    BY <1>1, FS_RemoveElement, FS_CardinalityType, FS_CardinalityType
  <2>4. b.halfOpenActive <= Cardinality(trials) /\ b.halfOpenActive \in Nat
    BY <1>1, <2>1, BreakerAssumption DEF SafetyInv, NoLeakedSlots, Breakers, ConfigOK
  <2> QED
    BY <2>2, <2>3, <2>4
<1>5. NoCallWhileOpen'
  <2> SUFFICES ASSUME br.state = StateOpen, NEW d \in inflight \ {c}
               PROVE  age'[d] >= br.openAge
    BY DEF NoCallWhileOpen, Leave
  <2>1. age'[d] = age[d] /\ age[d] \in Nat
    BY BreakerAssumption DEF Leave, SafetyInv, TypeOK
  <2>2. CASE br.openAge = 0
    BY <2>1, <2>2
  <2>3. CASE br.openAge # 0
    <3>1. b.state = StateOpen /\ br.openAge = b.openAge
      <4>1. CASE br = release(b)
        BY <1>1, <4>1, MethodEffects
      <4>2. ASSUME NEW ok \in BOOLEAN, br = record(b, ok)
            PROVE  b.state = StateOpen /\ br.openAge = b.openAge
        BY <1>1, <2>3, <4>2, MethodEffects
      <4> QED BY <4>1, <4>2
    <3> QED
      BY <2>1, <3>1 DEF SafetyInv, NoCallWhileOpen
  <2> QED BY <2>2, <2>3
<1>6. OutageTrips'
  <2>1. UnderRatio(br)
    BY <1>1, RatioKept DEF SafetyInv, OutageTrips
  <2> QED BY <2>1 DEF OutageTrips, UnderRatio, Leave
<1> QED
  BY <1>2, <1>3, <1>4, <1>5, <1>6 DEF SafetyInv

\* SafetyInv holds of the breaker NewBreaker returns.
LEMMA InitSafety == Init => SafetyInv
<1> SUFFICES ASSUME Init PROVE SafetyInv
  OBVIOUS
<1>1. b \in Breakers /\ b.state = StateClosed
  BY BreakerAssumption DEF Init, NewBreaker, Breakers, ConfigOK, StateClosed
<1>2. age \in [Callers -> 0 .. MaxCallTime]
  BY BreakerAssumption DEF Init
<1>3. OutageTrips
  <2>1. b.failures = 0
    BY DEF Init, NewBreaker
  <2> QED BY <2>1, BreakerAssumption DEF OutageTrips, UnderRatio, ConfigOK
<1> QED
  BY <1>1, <1>2, <1>3 DEF Init, SafetyInv, TypeOK, NoLeakedSlots, NoCallWhileOpen,
     StateClosed, StateOpen, StateHalfOpen

\* SafetyInv is inductive, whatever the calls take.
LEMMA NextSafety == SafetyInv /\ [Next]_vars => SafetyInv'
<1> SUFFICES ASSUME SafetyInv, [Next]_vars PROVE SafetyInv'
  OBVIOUS
<1>0. b \in Breakers /\ IsFiniteSet(trials)
  BY BreakerAssumption, FS_Subset DEF SafetyInv, TypeOK
<1>1. ASSUME NEW c \in Callers, Admit(c) PROVE SafetyInv'
  <2> DEFINE m == maybeHalfOpenLocked(b)
  <2>1. m \in Breakers /\ b' = allow(m) /\ admits(m)
    BY <1>0, <1>1, MethodTypes DEF Admit
  <2>2. b' \in Breakers /\ b'.state = m.state /\ m.state # StateOpen
    BY <2>1, MethodTypes, MethodEffects
  <2>3. TypeOK'
    BY <1>1, <2>2 DEF SafetyInv, TypeOK, Admit
  <2>4. (b.state # StateHalfOpen => trials = {})'
    BY <1>1, <2>2 DEF Admit
  <2>5. NoLeakedSlots'
    <3> SUFFICES ASSUME m.state = StateHalfOpen
                 PROVE  b'.halfOpenActive <= Cardinality(trials \cup {c})
      BY <1>1, <2>2 DEF NoLeakedSlots, Admit
    <3>1. c \notin trials
      BY <1>1 DEF Admit, SafetyInv, TypeOK
    <3>2. Cardinality(trials \cup {c}) = Cardinality(trials) + 1
      BY <1>0, <3>1, FS_AddElement
    <3>3. m.halfOpenActive <= Cardinality(trials) /\ Cardinality(trials) \in Nat
      BY <1>0, PendingTransition, FS_CardinalityType DEF SafetyInv, NoLeakedSlots
    <3>4. b'.halfOpenActive = m.halfOpenActive + 1 /\ m.halfOpenActive \in Nat
      BY <2>1, AllowSlots, BreakerAssumption DEF Breakers, ConfigOK
    <3> HIDE DEF m
    <3> QED BY <3>2, <3>3, <3>4
  <2>6. NoCallWhileOpen'
    BY <2>2 DEF NoCallWhileOpen
  <2>7. OutageTrips'
    <3>1. UnderRatio(allow(m))
      BY <1>0, <2>1, RatioKept DEF SafetyInv, OutageTrips
    <3> QED BY <2>1, <3>1 DEF OutageTrips, UnderRatio
  <2> QED BY <2>3, <2>4, <2>5, <2>6, <2>7 DEF SafetyInv
<1>2. ASSUME b' = maybeHalfOpenLocked(b), UNCHANGED <<inflight, age, trials, healthy>>
      PROVE  SafetyInv'
  <2>1. b' \in Breakers
    BY <1>0, <1>2, MethodTypes
  <2>2. CASE b' = b
    BY <1>2, <2>2 DEF SafetyInv, TypeOK, NoLeakedSlots, NoCallWhileOpen,
       OutageTrips, UnderRatio
  <2>3. CASE b'.state = StateHalfOpen /\ b'.halfOpenActive = 0
    <3>1. Cardinality(trials) \in Nat
      BY <1>0, FS_CardinalityType
    <3> QED
      BY <1>2, <2>1, <2>3, <3>1 DEF SafetyInv, TypeOK, NoLeakedSlots, NoCallWhileOpen,
         OutageTrips, UnderRatio, StateOpen, StateClosed, StateHalfOpen
  <2> QED BY <1>0, <1>2, <2>2, <2>3, PendingTransition
<1>3. ASSUME NEW c \in Callers, Reject(c) PROVE SafetyInv'
  BY <1>2, <1>3 DEF Reject
<1>4. ASSUME NEW c \in Callers, Succeed(c) PROVE SafetyInv'
  BY <1>0, <1>4, MethodTypes, LeaveSafety DEF Succeed
<1>5. ASSUME NEW c \in Callers, Fail(c) PROVE SafetyInv'
  BY <1>0, <1>5, MethodTypes, LeaveSafety DEF Fail
<1>6. ASSUME NEW c \in Callers, Cancel(c) PROVE SafetyInv'
  BY <1>0, <1>6, MethodTypes, LeaveSafety DEF Cancel
<1>7. CASE State
  BY <1>2, <1>7 DEF State
<1>8. CASE Tick
  <2>1. /\ b' \in Breakers
        /\ b'.state = b.state /\ b'.halfOpenActive = b.halfOpenActive
        /\ b'.openAge <= b.openAge + 1
        /\ b'.successes = b.successes /\ b'.failures = b.failures
    BY <1>8, TickTypes
  <2>2. (age \in [Callers -> 0 .. MaxCallTime])'
    BY <1>8, BreakerAssumption DEF Tick, SafetyInv, TypeOK
  <2>3. NoCallWhileOpen'
    <3> SUFFICES ASSUME b.state = StateOpen, NEW d \in inflight
                 PROVE  age'[d] >= b'.openAge
      BY <1>8, <2>1 DEF NoCallWhileOpen, Tick
    <3>1. age'[d] = age[d] + 1 /\ age[d] \in Nat
      BY <1>8, BreakerAssumption DEF Tick, SafetyInv, TypeOK
    <3>2. age[d] >= b.openAge /\ b.openAge \in Nat /\ b'.openAge \in Nat
      BY <1>0, <2>1, BreakerAssumption DEF SafetyInv, NoCallWhileOpen, Breakers, ConfigOK
    <3> QED BY <2>1, <3>1, <3>2
  <2> QED
    BY <1>8, <2>1, <2>2, <2>3 DEF Tick, SafetyInv, TypeOK, NoLeakedSlots, OutageTrips, UnderRatio
<1>9. CASE Flip
  BY <1>9 DEF Flip, SafetyInv, TypeOK, NoLeakedSlots, NoCallWhileOpen,
     OutageTrips, UnderRatio
<1>10. CASE UNCHANGED vars
  BY <1>10 DEF vars, SafetyInv, TypeOK, NoLeakedSlots, NoCallWhileOpen,
     OutageTrips, UnderRatio
<1> QED
  BY <1>1, <1>3, <1>4, <1>5, <1>6, <1>7, <1>8, <1>9, <1>10 DEF Next

\* The breaker's counters stay in range under every interleaving of allow(),
\* record(), release() and State().
THEOREM BreakerTypes == Spec => []TypeOK
<1>1. SafetyInv => TypeOK
  BY DEF SafetyInv
<1> QED BY <1>1, InitSafety, NextSafety, PTL DEF Spec

\* No half-open slot outlives its trial, however late stale outcomes arrive.
THEOREM SlotsNeverLeak == Spec => []NoLeakedSlots
<1>1. SafetyInv => NoLeakedSlots
  BY DEF SafetyInv
<1> QED BY <1>1, InitSafety, NextSafety, PTL DEF Spec

\* An open breaker admits nothing: what still runs was sent before it opened.
THEOREM OpenLeavesAlone == Spec => []NoCallWhileOpen
<1>1. SafetyInv => NoCallWhileOpen
  BY DEF SafetyInv
<1> QED BY <1>1, InitSafety, NextSafety, PTL DEF Spec

\* A closed breaker with MinimumRequests failures counted is under the ratio.
THEOREM OutageOpens == Spec => []OutageTrips
<1>1. SafetyInv => OutageTrips
  BY DEF SafetyInv
<1> QED BY <1>1, InitSafety, NextSafety, PTL DEF Spec

-----------------------------------------------------------------------------
(* The rest needs what the gateway's wiring provides: the HTTP client ends *)
(* a call before the breaker's open period is over.                        *)

\* When the trials begin, no call of an earlier period is left.
LEMMA OpenPeriodDrains ==
    ASSUME MaxCallTime < OpenTimeout, SafetyInv,
           b.state = StateOpen, b.openAge = OpenTimeout
    PROVE  inflight = {} /\ trials = {}
<1> SUFFICES ASSUME NEW c \in inflight PROVE FALSE
  BY DEF SafetyInv, StateOpen, StateHalfOpen
<1>1. age[c] >= OpenTimeout /\ age[c] <= MaxCallTime /\ age[c] \in Nat
  BY BreakerAssumption DEF SafetyInv, NoCallWhileOpen, TypeOK
<1> QED BY <1>1, BreakerAssumption DEF ConfigOK

\* A call that ends gives back its own slot and nothing else.
LEMMA LeaveShort ==
    ASSUME ShortCallInv, NEW c \in Callers, NEW br \in Breakers, Leave(c, br),
           \/ br = release(b)
           \/ \E ok \in BOOLEAN : br = record(b, ok)
    PROVE  ShortCallInv'
<1>1. SafetyInv'
  BY LeaveSafety DEF ShortCallInv
<1>2. b \in Breakers /\ b.state \in {StateClosed, StateOpen, StateHalfOpen}
      /\ IsFiniteSet(trials)
  BY BreakerAssumption, FS_Subset DEF ShortCallInv, SafetyInv, TypeOK, Breakers
<1> SUFFICES ASSUME br.state = StateHalfOpen
             PROVE  /\ trials' = inflight'
                    /\ br.halfOpenActive = Cardinality(trials')
  BY <1>1 DEF ShortCallInv, Leave
<1>3. b.state = StateHalfOpen /\ br.halfOpenActive = release(b).halfOpenActive
  BY <1>2, MethodEffects, ZenonT(60) DEF StateHalfOpen, StateOpen, StateClosed
<1>4. trials = inflight /\ b.halfOpenActive = Cardinality(trials) /\ c \in trials
  BY <1>3 DEF ShortCallInv, Leave
<1>5. trials' = trials \ {c} /\ inflight' = inflight \ {c}
  BY DEF Leave
<1>6. Cardinality(trials \ {c}) = Cardinality(trials) - 1
      /\ Cardinality(trials \ {c}) \in Nat /\ Cardinality(trials) \in Nat
  BY <1>2, <1>4, FS_RemoveElement, FS_CardinalityType
<1>7. br.halfOpenActive = IF b.halfOpenActive > 0 THEN b.halfOpenActive - 1 ELSE 0
  BY <1>2, <1>3, ReleaseSlots
<1> QED BY <1>4, <1>5, <1>6, <1>7

\* ShortCallInv is inductive when calls end before the open period does.
LEMMA NextShort ==
    ASSUME MaxCallTime < OpenTimeout
    PROVE  ShortCallInv /\ [Next]_vars => ShortCallInv'
<1> SUFFICES ASSUME ShortCallInv, [Next]_vars PROVE ShortCallInv'
  OBVIOUS
<1>0. SafetyInv /\ SafetyInv'
  BY NextSafety DEF ShortCallInv
<1>a. b \in Breakers /\ IsFiniteSet(trials)
  BY <1>0, BreakerAssumption, FS_Subset DEF SafetyInv, TypeOK
<1>b. LET m == maybeHalfOpenLocked(b)
      IN  m.state = StateHalfOpen =>
            /\ trials = inflight
            /\ m.halfOpenActive = Cardinality(trials)
  BY <1>0, <1>a, PendingTransition, OpenPeriodDrains, FS_EmptySet DEF ShortCallInv
<1>1. ASSUME NEW c \in Callers, Admit(c) PROVE ShortCallInv'
  <2> DEFINE m == maybeHalfOpenLocked(b)
  <2>1. m \in Breakers /\ b' = allow(m) /\ b'.state = m.state
    BY <1>1, <1>a, MethodTypes, MethodEffects DEF Admit
  <2> SUFFICES ASSUME m.state = StateHalfOpen
               PROVE  trials' = inflight' /\ b'.halfOpenActive = Cardinality(trials')
    BY <1>0, <2>1 DEF ShortCallInv
  <2>2. trials' = trials \cup {c} /\ inflight' = inflight \cup {c} /\ c \notin inflight
    BY <1>1 DEF Admit
  <2>3. Cardinality(trials') = Cardinality(trials) + 1
    BY <1>a, <1>b, <2>2, FS_AddElement
  <2> QED
    BY <1>b, <2>1, <2>2, <2>3, AllowSlots
<1>2. ASSUME b' = maybeHalfOpenLocked(b), UNCHANGED <<inflight, age, trials, healthy>>
      PROVE  ShortCallInv'
  BY <1>0, <1>b, <1>2 DEF ShortCallInv
<1>3. ASSUME NEW c \in Callers, Reject(c) PROVE ShortCallInv'
  BY <1>2, <1>3 DEF Reject
<1>4. ASSUME NEW c \in Callers, Succeed(c) PROVE ShortCallInv'
  BY <1>a, <1>4, MethodTypes, LeaveShort DEF Succeed
<1>5. ASSUME NEW c \in Callers, Fail(c) PROVE ShortCallInv'
  BY <1>a, <1>5, MethodTypes, LeaveShort DEF Fail
<1>6. ASSUME NEW c \in Callers, Cancel(c) PROVE ShortCallInv'
  BY <1>a, <1>6, MethodTypes, LeaveShort DEF Cancel
<1>7. CASE State
  BY <1>2, <1>7 DEF State
<1>8. CASE Tick
  BY <1>0, <1>8, TickTypes DEF Tick, ShortCallInv
<1>9. CASE Flip
  BY <1>0, <1>9 DEF Flip, ShortCallInv
<1>10. CASE UNCHANGED vars
  BY <1>0, <1>10 DEF vars, ShortCallInv
<1> QED
  BY <1>1, <1>3, <1>4, <1>5, <1>6, <1>7, <1>8, <1>9, <1>10 DEF Next

LEMMA InitShort == Init => ShortCallInv
BY InitSafety DEF Init, NewBreaker, ShortCallInv, StateClosed, StateHalfOpen

\* With calls shorter than the open period, as in the deployed gateway, at
\* most HalfOpenMaxCalls trials run at a time.
THEOREM TrialsAreBounded ==
    ASSUME MaxCallTime < OpenTimeout
    PROVE  Spec => []TrialsBounded
<1>1. ShortCallInv => TrialsBounded
  <2> SUFFICES ASSUME ShortCallInv PROVE TrialsBounded
    OBVIOUS
  <2>1. CASE b.state = StateHalfOpen
    BY <2>1, BreakerAssumption
       DEF ShortCallInv, SafetyInv, TypeOK, Breakers, TrialsBounded, ConfigOK
  <2>2. CASE b.state # StateHalfOpen
    BY <2>2, BreakerAssumption, FS_EmptySet
       DEF ShortCallInv, SafetyInv, TrialsBounded, ConfigOK
  <2> QED BY <2>1, <2>2
<1> QED BY <1>1, InitShort, NextShort, PTL DEF Spec

\* With calls shorter than the open period, only a trial of the current
\* half-open period takes the breaker out of it.
THEOREM OnlyTrialsDecide ==
    ASSUME MaxCallTime < OpenTimeout
    PROVE  Spec => TrialsDecide
<1> DEFINE A == b.state = StateHalfOpen /\ b'.state # StateHalfOpen
                => \E c \in trials : c \notin inflight'
<1>1. ShortCallInv /\ [Next]_vars => [A]_vars
  <2> SUFFICES ASSUME ShortCallInv, Next, b.state = StateHalfOpen,
                      b'.state # StateHalfOpen
               PROVE  \E c \in trials : c \notin inflight'
    OBVIOUS
  <2>1. trials = inflight /\ b \in Breakers
    BY DEF ShortCallInv, SafetyInv, TypeOK
  <2>2. maybeHalfOpenLocked(b) = b
    BY <2>1, PendingTransition DEF StateOpen, StateHalfOpen
  <2>3. \E c \in Callers : Succeed(c) \/ Fail(c) \/ Cancel(c)
    <3>1. ASSUME NEW c \in Callers, Admit(c) PROVE FALSE
      BY <2>1, <2>2, <3>1, MethodEffects DEF Admit
    <3>2. ASSUME NEW c \in Callers, Reject(c) PROVE FALSE
      BY <2>2, <3>2 DEF Reject
    <3>3. ~State /\ ~Flip
      BY <2>2 DEF State, Flip
    <3>4. ~Tick
      BY TickTypes DEF ShortCallInv
    <3> QED BY <3>1, <3>2, <3>3, <3>4 DEF Next
  <2> QED
    BY <2>1, <2>3 DEF Succeed, Fail, Cancel, Leave
<1> QED BY <1>1, InitShort, NextShort, PTL DEF Spec, TrialsDecide
==============================================================================
