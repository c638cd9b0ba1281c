----------------------------- MODULE ScorerProofs ----------------------------
(***************************************************************************)
(* Proofs about Scorer: what the shutdown of a pod does to its requests    *)
(* and to the kubelet's probe, and what its answers say.                   *)
(***************************************************************************)
EXTENDS Scorer, FiniteSetTheorems, WellFoundedInduction, TLAPS

-----------------------------------------------------------------------------
(* The inductive invariants behind NoneDropped and LivenessSurvives.       *)

States == {"idle", "sent", "running", "answered", "refused", "reset", "timedOut", "cut"}
Readings == {<< >>} \cup UNION {Windows[r] : r \in Requests}
Request == [st : States, wait : Nat, ran : Nat, readings : Readings]
Live == [due : Nat, age : Nat \cup {NoProbe}, strikes : Nat]

TypeInv ==
    /\ phase \in {"starting", "serving", "draining", "exiting", "closing", "exited", "killed"}
    /\ probes \in [started : BOOLEAN, draining : BOOLEAN]
    /\ timer \in Nat /\ term \in Nat \cup {NotSent} /\ grace \in TerminationGraces
    /\ ready \in BOOLEAN /\ routed \in BOOLEAN
    /\ req \in [Requests -> Request]
    /\ live \in Live

\* What has been done by the time the process is where it is: nothing is routed
\* to a pod that is starting, the SIGTERM is as old as the phases since it have
\* lasted, and the data plane has at most RouteDelay to act on it.
ClockInv ==
    /\ phase = "starting" => ~probes.started /\ ~ready /\ ~routed
    /\ phase \in {"starting", "serving"} => term = NotSent
    /\ phase = "draining" => term = timer /\ timer <= DrainDelay
    /\ phase = "exiting" => term = DrainDelay /\ timer = 0
    /\ phase = "closing" => term = DrainDelay + timer
    /\ routed /\ term # NotSent => term <= RouteDelay

\* A handler has run for as long as the closing lasts and for HandlerTime at
\* most, so the closing lasts no longer than that.
HandlerInv ==
    /\ \A r \in Requests : /\ req[r].st \in {"idle", "sent"} => req[r].ran = 0
                           /\ req[r].st = "running" => req[r].ran <= HandlerTime
    /\ phase = "closing" =>
         timer <= HandlerTime /\ \A r \in Requests : req[r].st = "running" => timer <= req[r].ran

\* While the loop runs it answers each probe at once.  From the SIGTERM on the
\* strikes, one that may come from the probe under way included, are at least
\* ProbePeriod apart.
LiveInv ==
    /\ live.strikes < FailureThreshold /\ live.due <= ProbePeriod
    /\ phase = "starting" => live.due = ProbePeriod /\ live.age = NoProbe
    /\ phase \in {"starting", "serving"} =>
         live.strikes = 0 /\ (live.age # NoProbe => live.age = 0 /\ live.due = ProbePeriod)
    /\ phase \in {"draining", "exiting", "closing"} =>
         (live.strikes + (IF live.age = NoProbe THEN 0 ELSE 1)) * ProbePeriod <= term + live.due

-----------------------------------------------------------------------------
(* Requests.                                                               *)

\* A request that only changes its state is still a request.
LEMMA Restated ==
    ASSUME NEW q \in Request, NEW st \in States
    PROVE  [q EXCEPT !.st = st] \in Request
BY DEF Request

\* Ending the process leaves requests that are not under way as they are.
LEMMA CutOffTypes == TypeInv => CutOff \in [Requests -> Request]
<1> SUFFICES ASSUME TypeInv, NEW r \in Requests PROVE CutOff[r] \in Request
  BY DEF CutOff
<1> DEFINE q == req[r]
<1>1. q \in Request
  BY DEF TypeInv
<1>2. CutOff[r] = q \/ CutOff[r] = [q EXCEPT !.st = "cut"] \/ CutOff[r] = [q EXCEPT !.st = "reset"]
  BY DEF CutOff
<1> HIDE DEF q
<1>3. "cut" \in States /\ "reset" \in States
  BY DEF States
<1> QED BY <1>1, <1>2, <1>3, Restated, Zenon

\* What a tick does to a request.
LEMMA AgedTypes ==
    ASSUME NEW q \in Request
    PROVE  /\ aged(q) \in Request
           /\ aged(q).st = q.st
           /\ q.st = "running" => aged(q).ran = IF LoopRuns THEN q.ran + 1 ELSE q.ran
<1> DEFINE w == [q EXCEPT !.wait = @ + 1]
           n == IF LoopRuns THEN q.ran + 1 ELSE q.ran
<1>1. w \in Request /\ w.st = q.st /\ w.ran = q.ran /\ n \in Nat
  BY DEF Request
<1>2. q.st = "running" => aged(q) = [w EXCEPT !.ran = n]
  BY DEF aged, Request
<1>3. q.st # "running" => aged(q) \in {q, w}
  BY DEF aged
<1> HIDE DEF w, n
<1>4. [w EXCEPT !.ran = n] \in Request /\ [w EXCEPT !.ran = n].st = w.st /\ [w EXCEPT !.ran = n].ran = n
  BY <1>1 DEF Request
<1>5. q.st = "running" => aged(q).ran = n
  BY <1>2, <1>4
<1> QED BY <1>1, <1>2, <1>3, <1>4, <1>5 DEF n
-----------------------------------------------------------------------------
(* The liveness probe.                                                     *)

\* x is the probe's record with these fields.
Is(x, d, a, s) == x \in Live /\ x.due = d /\ x.age = a /\ x.strikes = s

\* The fields of a record of the probe when a step sets two of them.
LEMMA LiveRecord ==
    ASSUME NEW l \in Live, NEW d \in Nat, NEW a \in Nat \cup {NoProbe}, NEW s \in Nat
    PROVE  /\ Is([l EXCEPT !.due = d, !.age = a], d, a, l.strikes)
           /\ Is([l EXCEPT !.due = d, !.strikes = s], d, l.age, s)
           /\ Is([l EXCEPT !.age = a, !.strikes = s], l.due, a, s)
<1> DEFINE u == [l EXCEPT !.due = d]
           v == [l EXCEPT !.age = a]
<1>1. Is(u, d, l.age, l.strikes) /\ Is(v, l.due, a, l.strikes)
  BY DEF Live, Is
<1>2. /\ [l EXCEPT !.due = d, !.age = a] = [u EXCEPT !.age = a]
      /\ [l EXCEPT !.due = d, !.strikes = s] = [u EXCEPT !.strikes = s]
      /\ [l EXCEPT !.age = a, !.strikes = s] = [v EXCEPT !.strikes = s]
  BY DEF Live
<1> HIDE DEF u, v
<1>3. /\ Is([u EXCEPT !.age = a], d, a, l.strikes)
      /\ Is([u EXCEPT !.strikes = s], d, l.age, s)
      /\ Is([v EXCEPT !.strikes = s], l.due, a, s)
  BY <1>1 DEF Live, Is
<1> QED BY <1>2, <1>3

LEMMA LiveFields ==
    ASSUME live \in Live
    PROVE  /\ healthz => Is(live', live.due, NoProbe, 0)
           /\ Probe => IF Listening THEN Is(live', ProbePeriod, 0, live.strikes)
                                    ELSE Is(live', ProbePeriod, live.age, live.strikes + 1)
           /\ ProbeFails => Is(live', live.due, NoProbe, live.strikes + 1)
           /\ CloseListener => IF live.age = NoProbe THEN live' = live
                                                   ELSE Is(live', live.due, NoProbe, live.strikes + 1)
<1>1. live.strikes + 1 \in Nat /\ 0 \in Nat /\ ProbePeriod \in Nat /\ live.due \in Nat
  BY ScorerAssumption DEF Live
<1>2. healthz => live' = [live EXCEPT !.age = NoProbe, !.strikes = 0]
  BY DEF healthz
<1>3. Probe => live' = IF Listening
                       THEN [live EXCEPT !.due = ProbePeriod, !.age = 0]
                       ELSE [live EXCEPT !.due = ProbePeriod, !.strikes = live.strikes + 1]
  BY DEF Probe
<1>4. ProbeFails => live' = [live EXCEPT !.age = NoProbe, !.strikes = live.strikes + 1]
  BY DEF ProbeFails
<1>5. CloseListener => live' = IF live.age = NoProbe
                               THEN live
                               ELSE [live EXCEPT !.age = NoProbe, !.strikes = live.strikes + 1]
  BY DEF CloseListener
<1>6. /\ Is([live EXCEPT !.age = NoProbe, !.strikes = 0], live.due, NoProbe, 0)
      /\ Is([live EXCEPT !.due = ProbePeriod, !.age = 0], ProbePeriod, 0, live.strikes)
      /\ Is([live EXCEPT !.due = ProbePeriod, !.strikes = live.strikes + 1], ProbePeriod, live.age, live.strikes + 1)
      /\ Is([live EXCEPT !.age = NoProbe, !.strikes = live.strikes + 1], live.due, NoProbe, live.strikes + 1)
  BY <1>1, LiveRecord
<1> QED BY <1>2, <1>3, <1>4, <1>5, <1>6, Zenon

\* The step of the clock, as the probe sees it.
LEMMA TickFields ==
    ASSUME live \in Live, Tick
    PROVE  Is(live', IF probes.started THEN live.due - 1 ELSE live.due,
                     IF live.age = NoProbe THEN NoProbe ELSE live.age + 1, live.strikes)
<1> DEFINE d == IF probes.started THEN live.due - 1 ELSE live.due
           a == IF live.age = NoProbe THEN NoProbe ELSE live.age + 1
<1>1. live.due > 0 /\ live.due \in Nat /\ live.age \in Nat \cup {NoProbe} /\ live.strikes \in Nat
  BY DEF Tick, Live
<1>2. d \in Nat /\ a \in Nat \cup {NoProbe}
  BY <1>1
<1>3. live' = [live EXCEPT !.due = d, !.age = a]
  BY DEF Tick, Live
<1> HIDE DEF d, a
<1>4. Is(live', d, a, live.strikes)
  BY <1>1, <1>2, <1>3, LiveRecord
<1> QED BY <1>4 DEF d, a

-----------------------------------------------------------------------------
(* Types.                                                                  *)

LEMMA InitTypes == Init => TypeInv
<1> SUFFICES ASSUME Init PROVE TypeInv
  OBVIOUS
<1>1. Unsent \in Request
  BY DEF Unsent, Request, States, Readings
<1>2. req \in [Requests -> Request]
  BY <1>1 DEF Init
<1>3. live \in Live
  BY ScorerAssumption DEF Init, Live
<1> QED BY <1>2, <1>3 DEF Init, TypeInv

LEMMA NextTypes == TypeInv /\ [Next]_vars => TypeInv'
<1> SUFFICES ASSUME TypeInv, [Next]_vars PROVE TypeInv'
  OBVIOUS
<1> USE DEF process, pod, cluster
<1>0. UNCHANGED vars => TypeInv'
  BY DEF TypeInv, vars
<1>1. ASSUME Start \/ Wake \/ readyz \/ Route \/ Unroute \/ Sigterm PROVE TypeInv'
  <2>1. /\ [probes EXCEPT !.started = TRUE] \in [started : BOOLEAN, draining : BOOLEAN]
        /\ [probes EXCEPT !.draining = TRUE] \in [started : BOOLEAN, draining : BOOLEAN]
    BY DEF TypeInv
  <2>2. probes' \in [started : BOOLEAN, draining : BOOLEAN]
    BY <1>1, <2>1, Zenon DEF TypeInv, Start, Wake, readyz, Route, Unroute, Sigterm
  <2>3. /\ phase' \in {"serving", "exiting", "exited", "draining", phase}
        /\ timer' \in {timer, 0} /\ term' \in {term, 0} /\ grace' = grace
        /\ req' = req /\ live' = live
    BY <1>1 DEF Start, Wake, readyz, Route, Unroute, Sigterm
  <2>4. ready' \in BOOLEAN /\ routed' \in BOOLEAN
    BY <1>1, Zenon DEF TypeInv, Start, Wake, readyz, Route, Unroute, Sigterm
  <2>5. phase' \in {"starting", "serving", "draining", "exiting", "closing", "exited", "killed"}
    BY <2>3 DEF TypeInv
  <2>6. timer' \in Nat /\ term' \in Nat \cup {NotSent} /\ grace' \in TerminationGraces
    BY <2>3 DEF TypeInv
  <2> QED BY <2>2, <2>3, <2>4, <2>5, <2>6, Zenon DEF TypeInv
<1>2. ASSUME CloseListener PROVE TypeInv'
  <2>1. ASSUME NEW r \in Requests PROVE [req[r] EXCEPT !.st = "reset"] \in Request /\ req[r] \in Request
    BY Restated DEF TypeInv, States
  <2>2. req' \in [Requests -> Request]
    BY <1>2, <2>1, Zenon DEF CloseListener
  <2>3. live' \in Live
    BY <1>2, LiveFields, Zenon DEF TypeInv, Is
  <2> QED BY <1>2, <2>2, <2>3 DEF CloseListener, TypeInv
<1>3. ASSUME Exit \/ Kill PROVE TypeInv'
  <2>1. req' \in [Requests -> Request]
    BY <1>3, CutOffTypes DEF Exit, Kill
  <2> QED BY <1>3, <2>1 DEF Exit, Kill, TypeInv
<1>4. ASSUME healthz \/ Probe \/ ProbeFails PROVE TypeInv'
  <2>1. live' \in Live
    BY <1>4, LiveFields, Zenon DEF TypeInv, Is
  <2> QED BY <1>4, <2>1 DEF healthz, Probe, ProbeFails, TypeInv
<1>5. ASSUME NEW r \in Requests, Read(r) \/ Respond(r) \/ GiveUp(r) PROVE TypeInv'
  <2>1. PICK st \in States : req' = [req EXCEPT ![r].st = st]
    BY <1>5 DEF Read, Respond, GiveUp, States
  <2>2. [req[r] EXCEPT !.st = st] \in Request
    BY Restated DEF TypeInv
  <2>3. req' \in [Requests -> Request]
    BY <2>1, <2>2 DEF TypeInv
  <2> QED BY <1>5, <2>3 DEF Read, Respond, GiveUp, TypeInv
<1>6. ASSUME NEW r \in Requests, NEW readings \in Windows[r], Arrive(r, readings) PROVE TypeInv'
  <2> DEFINE st == IF Listening THEN "sent" ELSE "refused"
             a == [req[r] EXCEPT !.st = st]
             b == [a EXCEPT !.readings = readings]
  <2>1. readings \in Readings /\ st \in States /\ req[r] \in Request
    BY <1>6 DEF Readings, States, TypeInv
  <2>2. a \in Request
    BY <2>1, Restated
  <2>3. b \in Request
    <3> HIDE DEF a
    <3> QED BY <2>1, <2>2 DEF Request
  <2>4. req' = [req EXCEPT ![r] = b]
    BY <1>6, <2>1 DEF Arrive, TypeInv, Request
  <2> HIDE DEF b
  <2>5. req' \in [Requests -> Request]
    BY <2>3, <2>4 DEF TypeInv
  <2> QED BY <1>6, <2>5 DEF Arrive, TypeInv
<1>7. ASSUME Tick PROVE TypeInv'
  <2>1. req' \in [Requests -> Request]
    BY <1>7, AgedTypes DEF Tick, TypeInv
  <2>2. live' \in Live
    BY <1>7, TickFields, Zenon DEF TypeInv, Is
  <2>3. term' \in Nat \cup {NotSent} /\ timer' \in Nat
    BY <1>7 DEF Tick, TypeInv, NotSent
  <2> QED BY <1>7, <2>1, <2>2, <2>3 DEF Tick, TypeInv
<1> QED BY <1>0, <1>1, <1>2, <1>3, <1>4, <1>5, <1>6, <1>7, Zenon DEF Next, Loop

\* A shutdown leaves every part of the pod's state in its set.
THEOREM ScorerTypes == Spec => []TypeInv
BY InitTypes, NextTypes, PTL DEF Spec

-----------------------------------------------------------------------------
(* The clock of the shutdown.                                              *)

LEMMA NextClock == TypeInv /\ ClockInv /\ [Next]_vars => ClockInv'
<1> SUFFICES ASSUME TypeInv, ClockInv, [Next]_vars PROVE ClockInv'
  OBVIOUS
<1> USE DEF process, pod, cluster
<1>0. UNCHANGED <<process, pod, cluster>> => ClockInv'
  BY DEF ClockInv
<1>1. ASSUME Start \/ Wake \/ readyz \/ Route \/ Unroute \/ Sigterm PROVE ClockInv'
  BY <1>1, ScorerAssumption DEF TypeInv, ClockInv, Start, Wake, readyz, Route, Unroute, Sigterm, NotSent, slept
<1>2. ASSUME CloseListener \/ Exit \/ Kill PROVE ClockInv'
  BY <1>2, ScorerAssumption DEF TypeInv, ClockInv, CloseListener, Exit, Kill
<1>3. ASSUME Tick PROVE ClockInv'
  BY <1>3, ScorerAssumption, SMTT(40) DEF TypeInv, ClockInv, Tick, NotSent, slept
<1>4. UNCHANGED vars \/ healthz \/ Probe \/ ProbeFails => UNCHANGED <<process, pod, cluster>>
  BY DEF vars, healthz, Probe, ProbeFails
<1>5. ASSUME NEW r \in Requests,
             Read(r) \/ Respond(r) \/ GiveUp(r) \/ \E readings \in Windows[r] : Arrive(r, readings)
      PROVE  UNCHANGED <<process, pod, cluster>>
  BY <1>5 DEF Read, Respond, GiveUp, Arrive
<1> QED BY <1>0, <1>1, <1>2, <1>3, <1>4, <1>5, Zenon DEF Next, Loop

LEMMA InitClock == Init => ClockInv
BY DEF Init, ClockInv, NotSent

\* While the process runs, and once it has been told to stop, it is where the
\* time since says.
LEMMA ClockHolds == Spec => []ClockInv
BY ScorerTypes, InitClock, NextClock, PTL DEF Spec

\* A routing that ends before the hook wakes has ended when the socket closes.
LEMMA ClosedIsUnrouted ==
    ASSUME TypeInv, ClockInv, RouteDelay < DrainDelay, ~Over, ~Listening
    PROVE  ~routed
BY ScorerAssumption DEF TypeInv, ClockInv, Over, Listening, NotSent

-----------------------------------------------------------------------------
(* Handlers.                                                               *)

\* What a step may do to a request q that becomes x: nothing, an end that
\* keeps its times, the start of its handler, its arrival, or a tick.
Ends(q, x) == x.st \notin {"idle", "sent", "running"}
Begins(q, x) == q.st = "sent" /\ x.st = "running" /\ x.ran = q.ran /\ phase \in {"serving", "exiting"}
Arrives(q, x) == q.st = "idle" /\ x.st = "sent" /\ x.ran = q.ran
Ages(q, x) == Tick /\ x = aged(q)

LEMMA RequestSteps ==
    ASSUME TypeInv, [Next]_vars, NEW r \in Requests
    PROVE  LET q == req[r]
               x == req'[r]
           IN  x = q \/ Ends(q, x) \/ Begins(q, x) \/ Arrives(q, x) \/ Ages(q, x)
<1> DEFINE q == req[r]
           x == req'[r]
           Goal == x = q \/ Ends(q, x) \/ Begins(q, x) \/ Arrives(q, x) \/ Ages(q, x)
<1>0. q \in Request /\ req \in [Requests -> Request]
  BY DEF TypeInv
<1>1. ASSUME req' = req PROVE Goal
  BY <1>1
<1>2. ASSUME CloseListener \/ Exit \/ Kill PROVE Goal
  <2>1. x = q \/ x = [q EXCEPT !.st = "cut"] \/ x = [q EXCEPT !.st = "reset"]
    BY <1>2 DEF CloseListener, Exit, Kill, CutOff
  <2> QED BY <1>0, <2>1 DEF Ends, Request
<1>3. ASSUME NEW s \in Requests, Read(s) \/ Respond(s) \/ GiveUp(s) PROVE Goal
  <2>1. CASE s # r
    BY <1>0, <1>3, <2>1 DEF Read, Respond, GiveUp
  <2>2. CASE s = r
    <3>1. CASE Read(r)
      BY <1>0, <3>1 DEF Read, Begins, Request
    <3>2. CASE Respond(r) \/ GiveUp(r)
      BY <1>0, <3>2 DEF Respond, GiveUp, Ends, Request
    <3> QED BY <1>3, <2>2, <3>1, <3>2
  <2> QED BY <2>1, <2>2
<1>4. ASSUME NEW s \in Requests, NEW readings \in Windows[s], Arrive(s, readings) PROVE Goal
  <2>1. CASE s # r
    BY <1>0, <1>4, <2>1 DEF Arrive
  <2>2. CASE s = r
    <3> DEFINE st == IF Listening THEN "sent" ELSE "refused"
               a == [q EXCEPT !.st = st]
    <3>1. a.st = st /\ a.ran = q.ran /\ a \in Request
      BY <1>0 DEF Request, States
    <3>2. x = [a EXCEPT !.readings = readings] /\ q.st = "idle"
      BY <1>0, <1>4, <2>2 DEF Arrive, Request
    <3> HIDE DEF a
    <3>3. x.st = st /\ x.ran = q.ran
      BY <3>1, <3>2 DEF Request
    <3> QED BY <3>2, <3>3 DEF Arrives, Ends
  <2> QED BY <2>1, <2>2
<1>5. ASSUME Tick PROVE Goal
  BY <1>5 DEF Tick, Ages
<1>6. UNCHANGED vars \/ Start \/ Wake \/ readyz \/ healthz \/ Sigterm \/ Route \/ Unroute \/ Probe \/ ProbeFails
      => req' = req
  BY DEF vars, Start, Wake, readyz, healthz, Sigterm, Route, Unroute, Probe, ProbeFails
<1> HIDE DEF Goal
<1>7. Goal
  BY <1>1, <1>2, <1>3, <1>4, <1>5, <1>6, Zenon DEF Next, Loop
<1> QED BY <1>7 DEF Goal

\* How the closing goes on.
LEMMA Closing ==
    ASSUME TypeInv, [Next]_vars, phase' = "closing"
    PROVE  \/ CloseListener /\ timer' = 0
           \/ phase = "closing" /\ timer' = timer /\ ~Tick
           \/ phase = "closing" /\ Tick
<1> USE DEF process, pod, cluster
<1>1. Start \/ Wake \/ Exit \/ Sigterm \/ Kill => FALSE
  BY DEF Start, Wake, Exit, Sigterm, Kill
<1>2. CloseListener => timer' = 0
  BY DEF CloseListener
<1>3. UNCHANGED vars \/ readyz \/ healthz \/ Route \/ Unroute \/ Probe \/ ProbeFails
      => phase' = phase /\ timer' = timer
  BY DEF vars, readyz, healthz, Route, Unroute, Probe, ProbeFails
<1>4. ASSUME NEW r \in Requests,
             Read(r) \/ Respond(r) \/ GiveUp(r) \/ \E readings \in Windows[r] : Arrive(r, readings)
      PROVE  phase' = phase /\ timer' = timer
  BY <1>4 DEF Read, Respond, GiveUp, Arrive
<1>5. Tick => phase' = phase
  BY DEF Tick
<1> QED BY <1>1, <1>2, <1>3, <1>4, <1>5, Zenon DEF Next, Loop

LEMMA NextHandlers == TypeInv /\ ClockInv /\ HandlerInv /\ [Next]_vars => HandlerInv'
<1> SUFFICES ASSUME TypeInv, ClockInv, HandlerInv, [Next]_vars PROVE HandlerInv'
  OBVIOUS
<1> USE ScorerAssumption
<1>0. TypeInv'
  BY NextTypes
<1>1. ASSUME NEW r \in Requests
      PROVE  /\ req'[r].st \in {"idle", "sent"} => req'[r].ran = 0
             /\ req'[r].st = "running" => req'[r].ran <= HandlerTime
  <2> DEFINE q == req[r]
             x == req'[r]
  <2>1. x = q \/ Ends(q, x) \/ Begins(q, x) \/ Arrives(q, x) \/ Ages(q, x)
    BY RequestSteps
  <2>2. q \in Request /\ (q.st \in {"idle", "sent"} => q.ran = 0) /\ (q.st = "running" => q.ran <= HandlerTime)
    BY DEF TypeInv, HandlerInv
  <2>3. Ages(q, x) /\ q.st = "running" /\ LoopRuns => q.ran < HandlerTime
    BY DEF Ages, Tick, With
  <2> HIDE DEF q, x
  <2>4. ASSUME Ages(q, x)
        PROVE  (x.st \in {"idle", "sent"} => x.ran = 0) /\ (x.st = "running" => x.ran <= HandlerTime)
    <3>1. x = aged(q) /\ x.st = q.st /\ (q.st = "running" => x.ran = IF LoopRuns THEN q.ran + 1 ELSE q.ran)
      BY <2>2, <2>4, AgedTypes DEF Ages
    <3>2. q.st \in {"idle", "sent"} => x.ran = q.ran
      BY <2>2, <3>1 DEF aged, Request
    <3> QED BY <2>2, <2>3, <2>4, <3>1, <3>2 DEF Request
  <2>5. (x.st \in {"idle", "sent"} => x.ran = 0) /\ (x.st = "running" => x.ran <= HandlerTime)
    BY <2>1, <2>2, <2>4 DEF Ends, Begins, Arrives
  <2> QED BY <2>5 DEF x
<1>2. ASSUME phase' = "closing"
      PROVE  timer' <= HandlerTime /\ \A r \in Requests : req'[r].st = "running" => timer' <= req'[r].ran
  <2>1. CASE CloseListener /\ timer' = 0
    BY <1>0, <2>1 DEF TypeInv, Request
  <2>2. CASE phase = "closing" /\ timer' = timer /\ ~Tick
    <3>1. ASSUME NEW r \in Requests, req'[r].st = "running" PROVE timer' <= req'[r].ran
      <4> DEFINE q == req[r]
                 x == req'[r]
      <4>1. x = q \/ Ends(q, x) \/ Begins(q, x) \/ Arrives(q, x) \/ Ages(q, x)
        BY RequestSteps
      <4>2. x = q
        BY <2>2, <3>1, <4>1 DEF Ends, Begins, Arrives, Ages
      <4> QED BY <2>2, <3>1, <4>2 DEF HandlerInv
    <3> QED BY <2>2, <3>1 DEF HandlerInv
  <2>3. CASE phase = "closing" /\ Tick
    <3>1. LoopRuns /\ timer \in Nat
      BY <2>3 DEF LoopRuns, TypeInv
    <3>2. timer' \in {0, timer + 1}
      BY <2>3 DEF Tick
    <3>3. PICK d \in Requests : req[d].st = "running"
      BY <2>3 DEF Tick, With
    <3>4. req[d].ran < HandlerTime /\ timer <= req[d].ran /\ req[d].ran \in Nat
      BY <2>3, <3>1, <3>3 DEF Tick, With, HandlerInv, TypeInv, Request
    <3>5. timer' <= HandlerTime
      BY <3>1, <3>2, <3>4
    <3>6. ASSUME NEW r \in Requests, req'[r].st = "running" PROVE timer' <= req'[r].ran
      <4>1. req[r] \in Request /\ req'[r] = aged(req[r])
        BY <2>3 DEF Tick, TypeInv
      <4>2. req[r].st = "running" /\ req'[r].ran = req[r].ran + 1 /\ req[r].ran \in Nat
        BY <3>1, <3>6, <4>1, AgedTypes DEF Request
      <4>3. timer <= req[r].ran
        BY <2>3, <4>2 DEF HandlerInv
      <4> QED BY <3>1, <3>2, <4>2, <4>3
    <3> QED BY <3>5, <3>6
  <2> QED BY <1>2, <2>1, <2>2, <2>3, Closing
<1> QED BY <1>1, <1>2 DEF HandlerInv

LEMMA InitHandlers == Init => HandlerInv
BY ScorerAssumption DEF Init, HandlerInv, Unsent

LEMMA HandlersHold == Spec => []HandlerInv
BY ScorerTypes, ClockHolds, InitHandlers, NextHandlers, PTL DEF Spec
-----------------------------------------------------------------------------
(* The kubelet's patience.                                                 *)

\* The probe under way, if there is one, as the strike it may become.
pending(l) == IF l.age = NoProbe THEN 0 ELSE 1

\* The drain and the handlers that run after it end before the kubelet, probing
\* from the SIGTERM on, can have counted enough failures.
Patient == DrainDelay + HandlerTime < (FailureThreshold - 1) * ProbePeriod /\ ProbeTimeout > 0

\* Strikes that are a ProbePeriod apart are few in that time.
LEMMA FewStrikes ==
    ASSUME Patient, NEW s \in Nat, NEW p \in {0, 1}, NEW t \in Nat, NEW d \in Nat,
           (s + p) * ProbePeriod <= t + d, d <= ProbePeriod, t <= DrainDelay + HandlerTime
    PROVE  s < FailureThreshold
<1> DEFINE P == ProbePeriod
           F == FailureThreshold
<1>1. P \in Nat /\ P > 0 /\ F \in Nat /\ F > 0 /\ DrainDelay + HandlerTime \in Nat
  BY ScorerAssumption
<1>2. (s + p) * P < (F - 1) * P + P
  <2>1. (F - 1) * P \in Int /\ (s + p) * P \in Int
    BY <1>1
  <2> QED BY <1>1, <2>1 DEF Patient
<1> HIDE DEF P, F
<1>3. (F - 1) * P + P = F * P
  BY <1>1
<1>4. ASSUME s >= F PROVE FALSE
  <2>1. PICK k \in Nat : s + p = F + k
    <3>1. s + p - F \in Nat /\ s + p = F + (s + p - F)
      BY <1>1, <1>4
    <3> QED BY <3>1
  <2>2. (s + p) * P = F * P + k * P /\ k * P \in Nat /\ F * P \in Nat
    BY <1>1, <2>1
  <2> QED BY <1>2, <1>3, <2>2
<1> QED BY <1>1, <1>4 DEF F

LEMMA NextLive == Patient /\ TypeInv /\ ClockInv /\ HandlerInv /\ LiveInv /\ [Next]_vars => LiveInv'
<1> SUFFICES ASSUME Patient, TypeInv, ClockInv, HandlerInv, LiveInv, [Next]_vars PROVE LiveInv'
  OBVIOUS
<1> USE DEF process, pod, cluster
<1> DEFINE P == ProbePeriod
           Stopping == phase \in {"draining", "exiting", "closing"}
           NewStopping == phase' \in {"draining", "exiting", "closing"}
<1>a. TypeInv' /\ ClockInv' /\ HandlerInv'
  BY NextTypes, NextClock, NextHandlers
<1>b. /\ live \in Live /\ live' \in Live /\ live.due \in Nat /\ live.strikes \in Nat
      /\ live'.due \in Nat /\ live'.strikes \in Nat /\ P \in Nat /\ P > 0
      /\ term \in Nat \cup {NotSent} /\ term' \in Nat \cup {NotSent}
      /\ FailureThreshold \in Nat /\ FailureThreshold > 0
  BY <1>a, ScorerAssumption DEF TypeInv, Live
\* The account of the strikes carries the bound on them.
<1>c. ASSUME live'.due <= P,
             NewStopping => (live'.strikes + pending(live')) * P <= term' + live'.due,
             ~NewStopping => live'.strikes \in {live.strikes, 0},
             phase' = "starting" => live'.due = P /\ live'.age = NoProbe,
             phase' \in {"starting", "serving"} =>
                 live'.strikes = 0 /\ (live'.age # NoProbe => live'.age = 0 /\ live'.due = P)
      PROVE  LiveInv'
  <2>1. ASSUME NewStopping PROVE live'.strikes < FailureThreshold
    <3>1. term' \in Nat /\ term' <= DrainDelay + HandlerTime
      <4>1. /\ phase' = "draining" => term' = timer' /\ timer' <= DrainDelay
            /\ phase' = "exiting" => term' = DrainDelay
            /\ phase' = "closing" => term' = DrainDelay + timer' /\ timer' <= HandlerTime
            /\ timer' \in Nat
        BY <1>a DEF TypeInv, ClockInv, HandlerInv
      <4> QED BY <2>1, <4>1, ScorerAssumption
    <3>2. pending(live') \in {0, 1}
      BY DEF pending
    <3> QED BY <1>b, <1>c, <2>1, <3>1, <3>2, FewStrikes
  <2>2. live'.strikes < FailureThreshold
    BY <1>b, <1>c, <2>1 DEF LiveInv
  <2> QED BY <1>c, <2>2 DEF LiveInv, pending
<1>d. Stopping => (live.strikes + pending(live)) * P <= term + live.due
  BY DEF LiveInv, pending
<1>e. \A n \in Nat : n * P \in Nat /\ (n + 1) * P = n * P + P
  BY <1>b
<1>0. UNCHANGED <<phase, term, live>> => LiveInv'
  BY DEF LiveInv
<1>1. ASSUME Start \/ Wake \/ (CloseListener /\ live.age = NoProbe) \/ Exit \/ Kill PROVE LiveInv'
  <2>1. live' = live /\ term' = term
    BY <1>1 DEF Start, Wake, CloseListener, Exit, Kill
  <2>2. \/ phase = "starting" /\ phase' = "serving"
        \/ Stopping /\ NewStopping
        \/ phase' \in {"exited", "killed"}
    BY <1>1 DEF Start, Wake, CloseListener, Exit, Kill
  <2> QED BY <2>1, <2>2 DEF LiveInv
<1>2. ASSUME Sigterm PROVE LiveInv'
  <2>1. live' = live /\ term' = 0 /\ live.strikes = 0 /\ phase' \in {"exited", "draining"}
    BY <1>2 DEF Sigterm, LiveInv
  <2>2. pending(live) * P <= live.due
    BY <1>2, <1>b DEF Sigterm, LiveInv, pending
  <2>3. (0 + pending(live)) * P <= 0 + live.due
    BY <1>b, <2>2 DEF pending
  <2>4. live.due <= P
    BY DEF LiveInv
  <2>5. (live'.strikes + pending(live')) * P <= term' + live'.due
    BY <2>1, <2>3
  <2> HIDE DEF P
  <2> QED BY <1>c, <2>1, <2>4, <2>5
<1>3. ASSUME healthz PROVE LiveInv'
  <2>1. live'.due = live.due /\ live'.age = NoProbe /\ live'.strikes = 0
    BY <1>3, <1>b, LiveFields DEF Is
  <2>2. phase' = phase /\ term' = term /\ phase \in {"serving", "exiting"} /\ live.due <= P
    BY <1>3 DEF healthz, LiveInv
  <2>3. Stopping => (live'.strikes + pending(live')) * P <= term' + live'.due
    BY <1>b, <2>1, <2>2, ScorerAssumption DEF pending, ClockInv
  <2> HIDE DEF P
  <2> QED BY <1>c, <2>1, <2>2, <2>3
<1>4. ASSUME Probe PROVE LiveInv'
  <2>1. phase' = phase /\ term' = term /\ live.due = 0 /\ ~Over
    BY <1>4 DEF Probe
  <2>2. phase # "starting"
    BY <1>b, <2>1 DEF LiveInv
  <2>3. CASE Listening
    <3>1. live'.due = P /\ live'.age = 0 /\ live'.strikes = live.strikes
      BY <1>4, <1>b, <2>3, LiveFields DEF Is
    <3>2. pending(live') = 1 /\ pending(live) \in {0, 1}
      BY <3>1 DEF pending, NoProbe
    <3>3. Stopping => term \in Nat /\ live.strikes * P <= term
      BY <1>b, <1>d, <1>e, <2>1, <3>2, ScorerAssumption DEF ClockInv, TypeInv
    <3>4. Stopping => (live'.strikes + pending(live')) * P <= term' + live'.due
      BY <1>b, <1>e, <2>1, <3>1, <3>2, <3>3
    <3>5. phase = "serving" => live.strikes = 0
      BY DEF LiveInv
    <3> HIDE DEF P
    <3> QED BY <1>b, <1>c, <2>1, <2>2, <3>1, <3>4, <3>5
  <2>4. CASE ~Listening
    <3>1. phase = "closing"
      BY <2>1, <2>2, <2>4 DEF Listening, Over, TypeInv
    <3>2. live'.due = P /\ live'.age = live.age /\ live'.strikes = live.strikes + 1
      BY <1>4, <1>b, <2>4, LiveFields DEF Is
    <3>3. pending(live') = pending(live) /\ pending(live) \in {0, 1}
      BY <3>2 DEF pending
    <3>4. term \in Nat
      BY <3>1, ScorerAssumption DEF ClockInv, TypeInv
    <3> DEFINE n == live.strikes + pending(live)
    <3>5. n \in Nat /\ n * P <= term /\ live'.strikes + pending(live') = n + 1
      BY <1>b, <1>d, <2>1, <3>1, <3>2, <3>3, <3>4
    <3> HIDE DEF n
    <3>6. (n + 1) * P <= term + P
      BY <1>b, <1>e, <3>4, <3>5
    <3>7. (live'.strikes + pending(live')) * P <= term' + live'.due
      BY <2>1, <3>2, <3>5, <3>6
    <3> HIDE DEF P
    <3> QED BY <1>b, <1>c, <2>1, <3>1, <3>2, <3>7
  <2> QED BY <2>3, <2>4
\* A probe fails: it is not answered in time, or it is reset.
<1>5. ASSUME ProbeFails \/ (CloseListener /\ live.age # NoProbe) PROVE LiveInv'
  <2>1. term' = term /\ (ProbeFails => phase' = phase /\ live.age = ProbeTimeout /\ ~Over)
    BY <1>5 DEF ProbeFails, CloseListener
  <2>2. live.age # NoProbe /\ (ProbeFails => live.age # 0)
    BY <1>5, <2>1, ScorerAssumption DEF Patient, NoProbe
  <2>3. Stopping /\ NewStopping
    BY <1>5, <2>1, <2>2 DEF Over, TypeInv, LiveInv, CloseListener
  <2>4. live'.due = live.due /\ live'.age = NoProbe /\ live'.strikes = live.strikes + 1
    BY <1>5, <1>b, LiveFields DEF Is
  <2>5. pending(live') = 0 /\ pending(live) = 1
    BY <2>2, <2>4 DEF pending
  <2>6. live'.strikes + pending(live') = live.strikes + pending(live)
    BY <1>b, <2>4, <2>5
  <2>7. (live'.strikes + pending(live')) * P <= term' + live'.due
    BY <1>d, <2>1, <2>3, <2>4, <2>6
  <2>8. live.due <= P
    BY DEF LiveInv
  <2> HIDE DEF P
  <2> QED BY <1>c, <2>3, <2>4, <2>7, <2>8
<1>6. ASSUME Tick PROVE LiveInv'
  <2>1. /\ live'.due = IF probes.started THEN live.due - 1 ELSE live.due
        /\ live'.age = IF live.age = NoProbe THEN NoProbe ELSE live.age + 1
        /\ live'.strikes = live.strikes
    BY <1>6, <1>b, TickFields DEF Is
  <2>2. phase' = phase /\ live.due > 0 /\ live.due <= P /\ ~Over
    BY <1>6 DEF Tick, LiveInv
  <2>3. phase = "starting" => ~probes.started
    BY DEF ClockInv
  <2>4. phase = "serving" => live.age = NoProbe
    BY <1>6 DEF Tick, LoopRuns
  <2>5. pending(live') = pending(live)
    BY <1>b, <2>1 DEF pending, Live, NoProbe
  <2>6. live'.due <= P /\ live'.due >= live.due - 1
    BY <1>b, <2>1, <2>2
  <2>7. ASSUME Stopping PROVE (live'.strikes + pending(live')) * P <= term' + live'.due
    <3>1. term \in Nat /\ term # NotSent
      BY <2>7, ScorerAssumption DEF ClockInv, TypeInv, NotSent
    <3>2. term' = term + 1
      BY <1>6, <3>1 DEF Tick
    <3> DEFINE w == (live.strikes + pending(live)) * P
    <3>3. w <= term + live.due /\ w = (live'.strikes + pending(live')) * P
      BY <1>d, <2>1, <2>5, <2>7
    <3>4. w \in Int
      BY <1>b DEF pending
    <3> HIDE DEF w
    <3>5. w <= term' + live'.due
      BY <1>b, <2>6, <3>1, <3>2, <3>3, <3>4
    <3> QED BY <3>3, <3>5
  <2>8. phase \in {"starting", "serving"} =>
           live'.strikes = 0 /\ (live'.age # NoProbe => live'.age = 0 /\ live'.due = P)
    <3>1. CASE phase = "serving"
      BY <2>1, <2>4, <3>1 DEF LiveInv
    <3>2. CASE phase = "starting"
      <4>1. live.age = NoProbe
        BY <3>2 DEF LiveInv
      <4> QED BY <2>1, <3>2, <4>1 DEF LiveInv
    <3> QED BY <3>1, <3>2
  <2>9. phase = "starting" => live'.due = P /\ live'.age = NoProbe
    BY <2>1, <2>3 DEF LiveInv
  <2> HIDE DEF P
  <2> QED BY <1>c, <2>1, <2>2, <2>6, <2>7, <2>8, <2>9
<1>7. UNCHANGED vars \/ readyz \/ Route \/ Unroute => UNCHANGED <<phase, term, live>>
  BY DEF vars, readyz, Route, Unroute
<1>8. ASSUME NEW r \in Requests,
             Read(r) \/ Respond(r) \/ GiveUp(r) \/ \E readings \in Windows[r] : Arrive(r, readings)
      PROVE  UNCHANGED <<phase, term, live>>
  BY <1>8 DEF Read, Respond, GiveUp, Arrive
<1> QED BY <1>0, <1>1, <1>2, <1>3, <1>4, <1>5, <1>6, <1>7, <1>8, Zenon DEF Next, Loop
LEMMA InitLive == Init => LiveInv
BY ScorerAssumption DEF Init, LiveInv

\* The loop sleeps through the drain delay and answers no probe in that time,
\* but the kubelet never counts so many failures that it restarts the pod, if
\* the drain delay and one handler together are shorter than all but one of
\* the periods in which failureThreshold probes fail.
THEOREM KubeletWaits ==
    ASSUME Patient
    PROVE  Spec => []LivenessSurvives
<1>1. LiveInv => LivenessSurvives
  BY DEF LiveInv, LivenessSurvives
<1>2. TypeInv /\ ClockInv /\ HandlerInv /\ LiveInv /\ [Next]_vars => LiveInv'
  BY NextLive
<1> QED BY <1>1, <1>2, ScorerTypes, ClockHolds, HandlersHold, InitLive, PTL DEF Spec

-----------------------------------------------------------------------------
(* Requests that are dropped.                                              *)

\* Until the process is over little time has passed since the SIGTERM.
LEMMA ShortShutdown ==
    ASSUME TypeInv, ClockInv, HandlerInv, ~Over, term # NotSent
    PROVE  term \in Nat /\ term <= DrainDelay + HandlerTime
BY ScorerAssumption DEF TypeInv, ClockInv, HandlerInv, Over

\* A request is refused or cut off by a step only for one of three reasons.
LEMMA DropSteps ==
    ASSUME TypeInv, [Next]_vars, NEW r \in Requests
    PROVE  /\ req'[r].st = "refused" =>
                req[r].st = "refused" \/ (routed /\ ~Listening)
           /\ req'[r].st = "cut" =>
                req[r].st = "cut" \/ (req[r].st = "running" /\ (Exit \/ Kill))
<1> DEFINE q == req[r]
           x == req'[r]
           Goal == /\ x.st = "refused" => q.st = "refused" \/ (routed /\ ~Listening)
                   /\ x.st = "cut" => q.st = "cut" \/ (q.st = "running" /\ (Exit \/ Kill))
<1>0. q \in Request /\ req \in [Requests -> Request]
  BY DEF TypeInv
<1>1. ASSUME req' = req PROVE Goal
  BY <1>1
<1>2. ASSUME CloseListener PROVE Goal
  <2>1. x = q \/ x = [q EXCEPT !.st = "reset"]
    BY <1>2 DEF CloseListener
  <2> QED BY <1>0, <2>1 DEF Request
<1>3. ASSUME Exit \/ Kill PROVE Goal
  <2>1. x = q \/ (q.st = "running" /\ x = [q EXCEPT !.st = "cut"]) \/ x = [q EXCEPT !.st = "reset"]
    BY <1>3 DEF Exit, Kill, CutOff
  <2>2. x = q \/ (q.st = "running" /\ x.st = "cut") \/ x.st = "reset"
    BY <1>0, <2>1 DEF Request
  <2> HIDE DEF q, x
  <2> QED BY <1>3, <2>2
<1>4. ASSUME NEW s \in Requests, Read(s) \/ Respond(s) \/ GiveUp(s) PROVE Goal
  <2>1. x = q \/ x.st \in {"running", "answered", "timedOut"}
    BY <1>0, <1>4 DEF Read, Respond, GiveUp, Request
  <2> HIDE DEF q, x
  <2> QED BY <2>1
<1>5. ASSUME NEW s \in Requests, NEW readings \in Windows[s], Arrive(s, readings) PROVE Goal
  <2>1. CASE s # r
    BY <1>0, <1>5, <2>1 DEF Arrive
  <2>2. CASE s = r
    <3> DEFINE st == IF Listening THEN "sent" ELSE "refused"
               a == [q EXCEPT !.st = st]
    <3>1. a.st = st /\ a \in Request
      BY <1>0 DEF Request, States
    <3>2. x = [a EXCEPT !.readings = readings] /\ routed
      BY <1>0, <1>5, <2>2 DEF Arrive, Request
    <3> HIDE DEF a
    <3>3. x.st = st
      BY <3>1, <3>2 DEF Request
    <3> QED BY <3>2, <3>3
  <2> QED BY <2>1, <2>2
<1>6. ASSUME Tick PROVE Goal
  <2>1. x.st = q.st
    BY <1>0, <1>6, AgedTypes DEF Tick
  <2> HIDE DEF q, x
  <2> QED BY <2>1
<1>7. UNCHANGED vars \/ Start \/ Wake \/ readyz \/ healthz \/ Sigterm \/ Route \/ Unroute \/ Probe \/ ProbeFails
      => req' = req
  BY DEF vars, Start, Wake, readyz, healthz, Sigterm, Route, Unroute, Probe, ProbeFails
<1> HIDE DEF Goal
<1>8. Goal
  BY <1>1, <1>2, <1>3, <1>4, <1>5, <1>6, <1>7, Zenon DEF Next, Loop
<1> QED BY <1>8 DEF Goal

\* A pod with a generous grace is gone only after the routing has ended.
GoneInv == Generous /\ Over => ~routed /\ term # NotSent

\* Such a pod is not killed: neither the grace nor the kubelet's patience ends
\* before the process does.
LEMMA NeverKilled ==
    ASSUME HandlerTime < GracefulTimeout, TypeInv, ClockInv, HandlerInv, LivenessSurvives, Generous
    PROVE  ~Kill
<1> SUFFICES ASSUME Kill PROVE FALSE
  OBVIOUS
<1>1. ~Over /\ term = grace /\ grace \in Nat
  BY ScorerAssumption DEF Kill, LivenessSurvives, TypeInv, Live
<1>2. term <= DrainDelay + HandlerTime
  BY <1>1, ShortShutdown DEF NotSent
<1> QED BY <1>1, <1>2, ScorerAssumption DEF Generous

\* A process that is over stays so, and the grace of its pod is what it was.
LEMMA OverSteps ==
    ASSUME TypeInv, [Next]_vars
    PROVE  /\ grace' = grace /\ (Over => Over')
           /\ Over' => \/ Over /\ term' = term /\ routed' \in {routed, FALSE}
                       \/ Over /\ Route
                       \/ Exit \/ Kill \/ (Sigterm /\ phase = "starting")
<1> USE DEF process, pod, cluster, Over
<1>1. ASSUME Start \/ Wake \/ CloseListener \/ readyz \/ healthz \/ Unroute \/ Probe \/ ProbeFails \/ Tick \/ UNCHANGED vars
      PROVE  grace' = grace /\ (Over => Over') /\ (Over' => Over /\ term' = term /\ routed' \in {routed, FALSE})
  BY <1>1 DEF vars, Start, Wake, CloseListener, readyz, healthz, Unroute, Probe, ProbeFails, Tick
<1>2. ASSUME Route PROVE grace' = grace /\ (Over => Over') /\ (Over' => Over /\ Route)
  BY <1>2 DEF Route
<1>3. ASSUME Exit \/ Kill \/ Sigterm
      PROVE  grace' = grace /\ (Over => Over') /\ (Over' => Exit \/ Kill \/ (Sigterm /\ phase = "starting"))
  BY <1>3 DEF Exit, Kill, Sigterm
<1>4. ASSUME NEW r \in Requests,
             Read(r) \/ Respond(r) \/ GiveUp(r) \/ \E readings \in Windows[r] : Arrive(r, readings)
      PROVE  grace' = grace /\ (Over => Over') /\ (Over' => Over /\ term' = term /\ routed' \in {routed, FALSE})
  BY <1>4 DEF Read, Respond, GiveUp, Arrive
<1> HIDE DEF process, pod, cluster, Over
<1> QED BY <1>1, <1>2, <1>3, <1>4, Zenon DEF Next, Loop

LEMMA NextGone ==
    ASSUME RouteDelay < DrainDelay, HandlerTime < GracefulTimeout,
           TypeInv, ClockInv, HandlerInv, LivenessSurvives, GoneInv, [Next]_vars
    PROVE  GoneInv'
<1> SUFFICES ASSUME Generous', Over' PROVE routed' = FALSE /\ term' # NotSent
  BY DEF GoneInv
<1>1. Generous
  BY OverSteps DEF Generous
<1>2. CASE Over /\ term' = term /\ routed' \in {routed, FALSE}
  BY <1>1, <1>2 DEF GoneInv, TypeInv
<1>3. CASE Over /\ Route
  BY <1>1, <1>3 DEF GoneInv, Route
<1>4. CASE Exit
  <2>1. ~Over /\ ~Listening /\ phase = "closing" /\ routed' = routed /\ term' = term
    BY <1>4 DEF Exit, Over, Listening, pod, cluster
  <2>2. routed = FALSE
    BY <2>1, ClosedIsUnrouted DEF TypeInv
  <2>3. term # NotSent
    BY <2>1, ScorerAssumption DEF ClockInv, TypeInv, NotSent
  <2> QED BY <2>1, <2>2, <2>3
<1>5. CASE Kill
  BY <1>1, <1>5, NeverKilled
<1>6. CASE Sigterm /\ phase = "starting"
  BY <1>6 DEF Sigterm, ClockInv, TypeInv, cluster, NotSent
<1> QED BY <1>2, <1>3, <1>4, <1>5, <1>6, OverSteps

\* No request is refused by a closed socket, because the routing has ended when
\* the hook wakes; and, in a pod whose grace covers the sleep and uvicorn's
\* graceful timeout, none is sent to a pod that is gone, because it is gone
\* later still, and no request is cut off in its handler, because the longest
\* handler ends within the graceful timeout and neither the grace nor the
\* kubelet's patience ends before it.
THEOREM DrainDropsNone ==
    ASSUME RouteDelay < DrainDelay, HandlerTime < GracefulTimeout, Patient
    PROVE  Spec => []NoneDropped
<1>1. Init => NoneDropped /\ GoneInv
  BY DEF Init, NoneDropped, GoneInv, With, Unsent, Over
<1>2. ASSUME TypeInv, ClockInv, HandlerInv, LivenessSurvives, NoneDropped, GoneInv, [Next]_vars
      PROVE  NoneDropped'
  <2>1. ASSUME NEW r \in Requests, req'[r].st = "refused" PROVE Over' /\ ~Generous'
    <3>1. Over => Over'
      BY <1>2, OverSteps
    <3>2. Generous' => Generous
      BY <1>2, OverSteps DEF Generous
    <3>3. CASE req[r].st = "refused"
      BY <1>2, <3>1, <3>2, <3>3 DEF NoneDropped, With
    <3>4. CASE routed /\ ~Listening
      BY <1>2, <3>1, <3>2, <3>4, ClosedIsUnrouted DEF GoneInv
    <3> QED BY <1>2, <2>1, <3>3, <3>4, DropSteps
  <2>2. ASSUME Generous', NEW r \in Requests, req'[r].st = "cut" PROVE FALSE
    <3>1. Generous
      BY <1>2, <2>2, OverSteps DEF Generous
    <3>2. req[r].st # "cut"
      BY <1>2, <3>1 DEF NoneDropped, With
    <3>3. req[r].st = "running" /\ (Exit \/ Kill)
      BY <1>2, <2>2, <3>2, DropSteps
    <3>4. CASE Exit
      <4>1. phase = "closing" /\ timer = GracefulTimeout
        BY <3>3, <3>4 DEF Exit, With
      <4>2. timer <= HandlerTime
        BY <1>2, <4>1 DEF HandlerInv
      <4> QED BY <4>1, <4>2, ScorerAssumption
    <3>5. CASE Kill
      BY <1>2, <3>1, <3>5, NeverKilled
    <3> QED BY <3>3, <3>4, <3>5
  <2> QED BY <2>1, <2>2 DEF NoneDropped, With
<1>3. TypeInv /\ ClockInv /\ HandlerInv /\ LivenessSurvives /\ GoneInv /\ [Next]_vars => GoneInv'
  BY NextGone
<1> QED BY <1>1, <1>2, <1>3, ScorerTypes, ClockHolds, HandlersHold, KubeletWaits, PTL DEF Spec

-----------------------------------------------------------------------------
(* Order statistics.  Smallest takes the place of an induction over the    *)
(* length of a list.                                                       *)

LEMMA Smallest ==
    ASSUME NEW S, S \subseteq Nat, S # {}
    PROVE  \E x \in S : \A y \in S : x <= y
<1> DEFINE R == {ss \in Nat \X Nat : ss[1] < ss[2]}
<1>1. IsWellFoundedOn(R, Nat)
  BY NatLessThanWellFounded, Zenon DEF OpToRel
<1>2. PICK x \in S : \A y \in S : <<y, x>> \notin R
  <2> HIDE DEF R
  <2> QED BY <1>1, WFMin
<1>3. ASSUME NEW y \in S PROVE x <= y
  <2>1. x \in Nat /\ y \in Nat /\ <<y, x>> \notin R
    BY <1>2
  <2>2. ~(y < x)
    BY <2>1
  <2> QED BY <2>1, <2>2
<1> QED BY <1>2, <1>3

\* A part of a finite set, and a smaller part of it.
LEMMA Counts ==
    ASSUME NEW S, IsFiniteSet(S), NEW T \in SUBSET S
    PROVE  /\ IsFiniteSet(T) /\ Cardinality(T) \in Nat /\ Cardinality(S) \in Nat
           /\ Cardinality(T) <= Cardinality(S)
           /\ Cardinality(S \ T) = Cardinality(S) - Cardinality(T)
           /\ T # S => Cardinality(T) < Cardinality(S)
<1>1. IsFiniteSet(T) /\ Cardinality(T) <= Cardinality(S) /\ (Cardinality(S) = Cardinality(T) => S = T)
  BY FS_Subset
<1>2. Cardinality(T) \in Nat /\ Cardinality(S) \in Nat
  BY <1>1, FS_CardinalityType
<1>3. S \cap T = T
  OBVIOUS
<1>4. Cardinality(S \ T) = Cardinality(S) - Cardinality(T)
  BY <1>3, FS_Difference
<1> QED BY <1>1, <1>2, <1>4

\* Of the values at the places I one is the largest: the one that the fewest
\* exceed.
LEMMA LargestAt ==
    ASSUME NEW I, IsFiniteSet(I), I # {}, NEW v, \A i \in I : v[i] \in Int
    PROVE  \E j \in I : \A i \in I : v[i] <= v[j]
<1> DEFINE Exceeding(j) == {i \in I : v[i] > v[j]}
           N == {Cardinality(Exceeding(j)) : j \in I}
<1>1. N \subseteq Nat /\ N # {}
  <2>1. ASSUME NEW j \in I PROVE Cardinality(Exceeding(j)) \in Nat
    BY Counts
  <2> QED BY <2>1
<1>2. PICK j \in I : \A i \in I : Cardinality(Exceeding(j)) <= Cardinality(Exceeding(i))
  <2>1. PICK m \in N : \A y \in N : m <= y
    <3> HIDE DEF N
    <3> QED BY <1>1, Smallest
  <2>2. PICK j \in I : m = Cardinality(Exceeding(j))
    OBVIOUS
  <2> HIDE DEF Exceeding
  <2> QED BY <2>1, <2>2
<1>3. ASSUME NEW i \in I, v[i] > v[j] PROVE FALSE
  <2>1. Exceeding(i) \subseteq Exceeding(j) /\ i \in Exceeding(j) /\ i \notin Exceeding(i)
    <3>1. ASSUME NEW k \in I, v[k] > v[i] PROVE v[k] > v[j]
      <4>1. v[k] \in Int /\ v[i] \in Int /\ v[j] \in Int
        OBVIOUS
      <4> QED BY <1>3, <3>1, <4>1
    <3>2. ~(v[i] > v[i])
      <4>1. v[i] \in Int
        OBVIOUS
      <4> QED BY <4>1
    <3> QED BY <1>3, <3>1, <3>2
  <2>2. IsFiniteSet(Exceeding(j)) /\ Exceeding(i) \in SUBSET Exceeding(j) /\ Exceeding(i) # Exceeding(j)
    BY <2>1, Counts
  <2>3. /\ Cardinality(Exceeding(i)) < Cardinality(Exceeding(j))
        /\ Cardinality(Exceeding(i)) \in Nat /\ Cardinality(Exceeding(j)) \in Nat
    <3> HIDE DEF Exceeding
    <3> QED BY <2>2, Counts
  <2>4. Cardinality(Exceeding(j)) <= Cardinality(Exceeding(i))
    BY <1>2
  <2> HIDE DEF Exceeding
  <2> QED BY <2>3, <2>4
<1>4. ASSUME NEW i \in I PROVE v[i] <= v[j]
  <2>1. v[i] \in Int /\ v[j] \in Int /\ ~(v[i] > v[j])
    BY <1>3
  <2> QED BY <2>1
<1> QED BY <1>4

\* x is the k-th of the values v in order.
IsKth(v, k, x) == Cardinality(Below(v, x)) < k /\ k <= Cardinality(UpTo(v, x))

\* A list of numbers.
Lists(n) == [1 .. n -> Int]

LEMMA Counted ==
    ASSUME NEW n \in Nat, NEW v \in Lists(n), NEW P \in SUBSET (1 .. n)
    PROVE  /\ IsFiniteSet(P) /\ Cardinality(P) \in 0 .. n /\ Cardinality(1 .. n) = n
           /\ Cardinality((1 .. n) \ P) = n - Cardinality(P)
           /\ \A Q \in SUBSET P : Cardinality(Q) <= Cardinality(P)
           /\ \A Q \in SUBSET P : Q # P => Cardinality(Q) < Cardinality(P)
<1>1. IsFiniteSet(1 .. n) /\ Cardinality(1 .. n) = n
  BY FS_Interval
<1>2. /\ IsFiniteSet(P) /\ Cardinality(P) \in Nat /\ Cardinality(P) <= n
      /\ Cardinality((1 .. n) \ P) = n - Cardinality(P)
  BY <1>1, Counts
<1>3. Cardinality(P) \in 0 .. n
  BY <1>2
<1> QED BY <1>1, <1>2, <1>3, Counts

LEMMA KthExists ==
    ASSUME NEW n \in Nat, NEW v \in Lists(n), NEW k \in 1 .. n
    PROVE  \E i \in 1 .. n : IsKth(v, k, v[i])
<1> DEFINE I == 1 .. n
           lt(i) == Cardinality(Below(v, v[i]))
           le(i) == Cardinality(UpTo(v, v[i]))
           A == {i \in I : k <= le(i)}
           N == {lt(i) : i \in A}
<1>0. ASSUME NEW i \in I
      PROVE  /\ v[i] \in Int /\ Below(v, v[i]) = {j \in I : v[j] < v[i]}
             /\ UpTo(v, v[i]) = {j \in I : v[j] <= v[i]}
             /\ lt(i) \in Nat /\ le(i) \in Nat
  <2>1. v[i] \in Int /\ DOMAIN v = I
    BY DEF Lists
  <2>2. Below(v, v[i]) = {j \in I : v[j] < v[i]} /\ UpTo(v, v[i]) = {j \in I : v[j] <= v[i]}
    BY <2>1 DEF Below, UpTo
  <2>3. Below(v, v[i]) \in SUBSET I /\ UpTo(v, v[i]) \in SUBSET I
    BY <2>2
  <2>4. lt(i) \in 0 .. n /\ le(i) \in 0 .. n
    BY <2>3, Counted
  <2> QED BY <2>1, <2>2, <2>4
<1>1. IsFiniteSet(I) /\ I # {} /\ k \in Nat /\ k >= 1 /\ k <= n /\ Cardinality(I) = n
  <2>1. k \in Nat /\ k >= 1 /\ k <= n /\ k \in I
    OBVIOUS
  <2>2. IsFiniteSet(I) /\ Cardinality(I) = n
    BY FS_Interval
  <2> QED BY <2>1, <2>2
<1>2. A # {}
  <2>1. PICK j \in I : \A i \in I : v[i] <= v[j]
    BY <1>0, <1>1, LargestAt
  <2>2. UpTo(v, v[j]) = I
    BY <1>0, <2>1
  <2> QED BY <1>1, <2>2
<1>3. PICK i \in A : \A j \in A : lt(i) <= lt(j)
  <2>1. N \subseteq Nat /\ N # {}
    BY <1>0, <1>2
  <2>2. PICK m \in N : \A y \in N : m <= y
    <3> HIDE DEF N
    <3> QED BY <2>1, Smallest
  <2>3. PICK i \in A : m = lt(i)
    OBVIOUS
  <2> HIDE DEF A, lt
  <2> QED BY <2>2, <2>3
<1>4. ASSUME k <= lt(i) PROVE FALSE
  <2> DEFINE B == Below(v, v[i])
  <2>1. i \in I /\ B \in SUBSET I /\ IsFiniteSet(B) /\ B = {j \in I : v[j] < v[i]}
    BY <1>0, <1>3, Counted
  <2>2. B # {}
    <3>1. Cardinality({}) = 0
      BY FS_EmptySet
    <3>2. ASSUME B = {} PROVE FALSE
      <4>1. lt(i) = 0
        BY <3>1, <3>2
      <4> HIDE DEF lt
      <4> QED BY <1>1, <1>4, <4>1
    <3> QED BY <3>2
  <2>3. PICK j \in B : \A l \in B : v[l] <= v[j]
    <3> HIDE DEF B
    <3> QED BY <1>0, <2>1, <2>2, LargestAt
  <2>4. j \in I /\ v[j] < v[i] /\ v[j] \in Int /\ v[i] \in Int
    BY <1>0, <2>1, <2>3
  <2>5. B \in SUBSET UpTo(v, v[j]) /\ UpTo(v, v[j]) \in SUBSET I
    BY <1>0, <2>1, <2>3, <2>4
  <2>6. lt(i) <= le(j)
    BY <2>5, Counted
  <2>7. j \in A
    <3>1. lt(i) \in Nat /\ le(j) \in Nat
      BY <1>0, <2>1, <2>4
    <3>2. k <= le(j)
      <4> HIDE DEF lt, le
      <4> QED BY <1>1, <1>4, <2>6, <3>1
    <3> QED BY <2>4, <3>2
  <2>8. Below(v, v[j]) \in SUBSET B /\ Below(v, v[j]) # B
    <3>1. ASSUME NEW l \in I, v[l] < v[j] PROVE v[l] < v[i]
      <4>1. v[l] \in Int
        BY <1>0
      <4> QED BY <2>4, <3>1, <4>1
    <3>2. j \notin Below(v, v[j])
      BY <1>0, <2>4
    <3> QED BY <1>0, <2>1, <2>3, <2>4, <3>1, <3>2
  <2>9. lt(j) < lt(i)
    BY <2>1, <2>8, Counted
  <2>10. lt(i) <= lt(j)
    BY <1>3, <2>7
  <2>11. lt(i) \in Nat /\ lt(j) \in Nat
    BY <1>0, <2>1, <2>4
  <2> HIDE DEF lt
  <2> QED BY <2>9, <2>10, <2>11
<1>5. i \in I /\ k <= le(i) /\ lt(i) < k
  BY <1>0, <1>1, <1>3, <1>4
<1> QED BY <1>5 DEF IsKth

\* The k-th value is not above the l-th, for k <= l; so there is only one.
LEMMA KthOrder ==
    ASSUME NEW n \in Nat, NEW v \in Lists(n), NEW k \in 1 .. n, NEW l \in 1 .. n, k <= l,
           NEW x \in Int, NEW y \in Int, IsKth(v, k, x), IsKth(v, l, y)
    PROVE  x <= y
<1> SUFFICES ASSUME y < x PROVE FALSE
  OBVIOUS
<1>1. DOMAIN v = 1 .. n /\ \A i \in 1 .. n : v[i] \in Int
  BY DEF Lists
<1>2. Below(v, x) \in SUBSET (1 .. n) /\ UpTo(v, y) \in SUBSET Below(v, x)
  BY <1>1 DEF Below, UpTo
<1>3. Cardinality(UpTo(v, y)) <= Cardinality(Below(v, x))
  BY <1>2, Counted
<1>4. Cardinality(UpTo(v, y)) \in Nat /\ Cardinality(Below(v, x)) \in Nat
  <2>1. UpTo(v, y) \in SUBSET (1 .. n)
    BY <1>2
  <2>2. Cardinality(UpTo(v, y)) \in 0 .. n /\ Cardinality(Below(v, x)) \in 0 .. n
    BY <1>2, <2>1, Counted
  <2> QED BY <2>2
<1> QED BY <1>3, <1>4 DEF IsKth

LEMMA Sorted ==
    ASSUME NEW n \in Nat, NEW v \in Lists(n), NEW k \in 1 .. n
    PROVE  /\ IsKth(v, k, sorted(v)[k])
           /\ \E i \in 1 .. n : sorted(v)[k] = v[i]
           /\ sorted(v)[k] \in Int
<1>1. DOMAIN v = 1 .. n /\ \A i \in 1 .. n : v[i] \in Int
  BY DEF Lists
<1> DEFINE V == {v[i] : i \in DOMAIN v}
<1>2. sorted(v)[k] = CHOOSE x \in V : IsKth(v, k, x)
  BY <1>1 DEF sorted, IsKth
<1>3. \E x \in V : IsKth(v, k, x)
  BY <1>1, KthExists
<1>4. sorted(v)[k] \in V /\ IsKth(v, k, sorted(v)[k])
  <2> HIDE DEF V
  <2> QED BY <1>2, <1>3
<1> QED BY <1>1, <1>4

-----------------------------------------------------------------------------
(* Medians.                                                                *)

LEMMA Sequence ==
    ASSUME NEW n \in Nat, NEW v \in Lists(n)
    PROVE  v \in Seq(Int) /\ Len(v) = n /\ DOMAIN v = 1 .. n /\ \A i \in 1 .. n : v[i] \in Int
BY DEF Lists

LEMMA Parity ==
    ASSUME NEW n \in Nat, n >= 1
    PROVE  LET k == (n + 1) \div 2
               l == n \div 2 + 1
           IN  /\ k \in 1 .. n /\ l \in 1 .. n /\ k <= l /\ k + l = n + 1
               /\ 2 * k >= n /\ 2 * k <= n + 1 /\ 2 * l <= n + 2 /\ 2 * l >= n + 1
               /\ n % 2 = 1 => k = l
               /\ n % 2 # 1 => k = n \div 2
OBVIOUS

\* a and b are the two values in the middle of v, or the one.
Middle(v, n, a, b) ==
    /\ a \in Int /\ b \in Int
    /\ IsKth(v, (n + 1) \div 2, a) /\ IsKth(v, n \div 2 + 1, b)

LEMMA MiddleOrder ==
    ASSUME NEW n \in Nat, n >= 1, NEW v \in Lists(n), NEW a, NEW b, Middle(v, n, a, b)
    PROVE  /\ a \in Int /\ b \in Int /\ a <= b
           /\ n % 2 = 1 => a = b
           /\ \A c, d : Middle(v, n, c, d) => c = a /\ d = b
<1> DEFINE k == (n + 1) \div 2
           l == n \div 2 + 1
<1>1. k \in 1 .. n /\ l \in 1 .. n /\ k <= l /\ k <= k /\ l <= l /\ (n % 2 = 1 => l <= k)
  BY Parity
<1>2. a \in Int /\ b \in Int /\ IsKth(v, k, a) /\ IsKth(v, l, b)
  BY DEF Middle
<1>3. ASSUME NEW c, NEW d, Middle(v, n, c, d)
      PROVE  c \in Int /\ d \in Int /\ IsKth(v, k, c) /\ IsKth(v, l, d)
  BY <1>3 DEF Middle
<1> HIDE DEF k, l
<1>4. a <= b /\ (n % 2 = 1 => b <= a)
  BY <1>1, <1>2, KthOrder
<1>5. ASSUME NEW c, NEW d, Middle(v, n, c, d) PROVE c = a /\ d = b
  <2>1. c \in Int /\ d \in Int /\ c <= a /\ a <= c /\ b <= d /\ d <= b
    BY <1>1, <1>2, <1>3, <1>5, KthOrder
  <2> QED BY <1>2, <2>1
<1> QED BY <1>2, <1>4, <1>5

LEMMA Median ==
    ASSUME NEW n \in Nat, n >= 1, NEW v \in Lists(n), NEW u
    PROVE  \E a, b : /\ Middle(v, n, a, b)
                     /\ \E i, j \in 1 .. n : a = v[i] /\ b = v[j]
                     /\ median(v, u) = IF n % 2 = 1 THEN a + b ELSE float(a + b, u)
<1> DEFINE k == (n + 1) \div 2
           l == n \div 2 + 1
           a == sorted(v)[k]
           b == sorted(v)[l]
<1>1. k \in 1 .. n /\ l \in 1 .. n /\ (n % 2 = 1 => k = l) /\ (n % 2 # 1 => k = n \div 2)
  BY Parity
<1>2. /\ IsKth(v, k, a) /\ a \in Int /\ \E i \in 1 .. n : a = v[i]
      /\ IsKth(v, l, b) /\ b \in Int /\ \E i \in 1 .. n : b = v[i]
  <2> HIDE DEF k, l
  <2> QED BY <1>1, Sorted
<1>3. Middle(v, n, a, b)
  BY <1>2 DEF Middle
<1>4. median(v, u) = IF n % 2 = 1 THEN 2 * b ELSE float(sorted(v)[n \div 2] + b, u)
  BY Sequence DEF median
<1>5. median(v, u) = IF n % 2 = 1 THEN a + b ELSE float(a + b, u)
  <2>1. CASE n % 2 = 1
    <3>1. a = b
      BY <1>1, <2>1
    <3> HIDE DEF a, b
    <3> QED BY <1>2, <1>4, <2>1, <3>1
  <2>2. CASE n % 2 # 1
    <3>1. a = sorted(v)[n \div 2]
      BY <1>1, <2>2
    <3> HIDE DEF a, b
    <3> QED BY <1>4, <2>2, <3>1
  <2> QED BY <2>1, <2>2
<1> HIDE DEF a, b
<1> QED BY <1>2, <1>3, <1>5

\* The places of the values on either side of m / 2.
LowHalf(v, n, m) == {i \in 1 .. n : 2 * v[i] <= m}
HighHalf(v, n, m) == {i \in 1 .. n : 2 * v[i] >= m}

\* Half of the values are on either side of the middle.
LEMMA Halves ==
    ASSUME NEW n \in Nat, n >= 1, NEW v \in Lists(n), NEW a, NEW b, Middle(v, n, a, b)
    PROVE  /\ 2 * Cardinality(LowHalf(v, n, a + b)) >= n
           /\ 2 * Cardinality(HighHalf(v, n, a + b)) >= n
<1> DEFINE k == (n + 1) \div 2
           l == n \div 2 + 1
           L == {i \in 1 .. n : 2 * v[i] <= a + b}
           H == {i \in 1 .. n : 2 * v[i] >= a + b}
<1>1. a \in Int /\ b \in Int /\ a <= b
  BY MiddleOrder
<1>2. k \in Nat /\ l \in Nat /\ 2 * k >= n /\ 2 * l <= n + 2
  BY Parity
<1>3. Cardinality(Below(v, b)) < l /\ k <= Cardinality(UpTo(v, a))
  BY DEF Middle, IsKth
<1>4. DOMAIN v = 1 .. n /\ \A i \in 1 .. n : v[i] \in Int
  BY Sequence
<1>5. /\ UpTo(v, a) \in SUBSET L /\ L \in SUBSET (1 .. n)
      /\ (1 .. n) \ Below(v, b) \in SUBSET H /\ H \in SUBSET (1 .. n)
      /\ Below(v, b) \in SUBSET (1 .. n) /\ UpTo(v, a) \in SUBSET (1 .. n)
  <2>1. ASSUME NEW i \in 1 .. n, v[i] <= a PROVE 2 * v[i] <= a + b
    <3>1. v[i] \in Int
      BY <1>4
    <3> QED BY <1>1, <2>1, <3>1
  <2>2. ASSUME NEW i \in 1 .. n, ~(v[i] < b) PROVE 2 * v[i] >= a + b
    <3>1. v[i] \in Int
      BY <1>4
    <3> QED BY <1>1, <2>2, <3>1
  <2> QED BY <1>4, <2>1, <2>2 DEF UpTo, Below
<1> HIDE DEF k, l, L, H
<1>6. Cardinality(L) \in 0 .. n /\ Cardinality(UpTo(v, a)) \in 0 .. n
      /\ Cardinality(UpTo(v, a)) <= Cardinality(L)
  BY <1>5, Counted
<1>7. Cardinality(H) \in 0 .. n /\ Cardinality(Below(v, b)) \in 0 .. n
      /\ n - Cardinality(Below(v, b)) <= Cardinality(H)
  BY <1>5, Counted
<1>8. 2 * Cardinality(L) >= n
  BY <1>2, <1>3, <1>6
<1>9. 2 * Cardinality(H) >= n
  BY <1>2, <1>3, <1>7
<1> QED BY <1>8, <1>9 DEF L, H, LowHalf, HighHalf

\* What half of the values do not exceed the lower middle does not exceed.
LEMMA HalfBelow ==
    ASSUME NEW n \in Nat, n >= 1, NEW v \in Lists(n), NEW a, NEW b, Middle(v, n, a, b),
           NEW P \in SUBSET (1 .. n), 2 * Cardinality(P) >= n, NEW x \in Int,
           \A i \in P : v[i] <= x
    PROVE  a <= x
<1> SUFFICES ASSUME ~(a <= x) PROVE FALSE
  OBVIOUS
<1> DEFINE k == (n + 1) \div 2
<1>1. a \in Int /\ Cardinality(Below(v, a)) < k
  BY DEF Middle, IsKth
<1>2. DOMAIN v = 1 .. n /\ \A i \in 1 .. n : v[i] \in Int
  BY Sequence
<1>3. P \in SUBSET Below(v, a) /\ Below(v, a) \in SUBSET (1 .. n)
  <2>1. ASSUME NEW i \in P PROVE v[i] < a
    <3>1. v[i] \in Int /\ v[i] <= x
      BY <1>2
    <3> QED BY <1>1, <3>1
  <2> QED BY <1>2, <2>1 DEF Below
<1>4. Cardinality(P) <= Cardinality(Below(v, a)) /\ Cardinality(Below(v, a)) \in 0 .. n
      /\ Cardinality(P) \in 0 .. n
  BY <1>3, Counted
<1>5. k \in Nat /\ 2 * k <= n + 1
  BY Parity
<1> HIDE DEF k
<1> QED BY <1>1, <1>4, <1>5

\* At the places P the values are between x and y.
Between(v, P, x, y) == \A i \in P : x <= v[i] /\ v[i] <= y

\* The middle lies where most of the values lie.
LEMMA Majority ==
    ASSUME NEW n \in Nat, n >= 1, NEW v \in Lists(n), NEW a, NEW b, Middle(v, n, a, b),
           NEW P \in SUBSET (1 .. n), 2 * Cardinality(P) > n, NEW x \in Int, NEW y \in Int,
           Between(v, P, x, y)
    PROVE  x <= a /\ b <= y
<1> DEFINE k == (n + 1) \div 2
           l == n \div 2 + 1
<1>1. /\ a \in Int /\ b \in Int
      /\ Cardinality(Below(v, b)) < l /\ k <= Cardinality(UpTo(v, a))
  BY DEF Middle, IsKth
<1>2. DOMAIN v = 1 .. n /\ \A i \in 1 .. n : v[i] \in Int
  BY Sequence
<1>3. k \in Nat /\ l \in Nat /\ 2 * l <= n + 2 /\ 2 * k >= n
  BY Parity
<1>4. Cardinality(P) \in 0 .. n /\ Cardinality((1 .. n) \ P) = n - Cardinality(P)
  BY Counted
<1> HIDE DEF k, l
<1>5. ASSUME ~(b <= y) PROVE FALSE
  <2>1. P \in SUBSET Below(v, b) /\ Below(v, b) \in SUBSET (1 .. n)
    <3>1. ASSUME NEW i \in P PROVE v[i] < b
      <4>1. v[i] \in Int /\ v[i] <= y
        BY <1>2 DEF Between
      <4> QED BY <1>1, <1>5, <4>1
    <3> QED BY <1>2, <3>1 DEF Below
  <2>2. Cardinality(P) <= Cardinality(Below(v, b)) /\ Cardinality(Below(v, b)) \in 0 .. n
    BY <2>1, Counted
  <2> QED BY <1>1, <1>3, <1>4, <2>2
<1>6. ASSUME ~(x <= a) PROVE FALSE
  <2>1. UpTo(v, a) \in SUBSET ((1 .. n) \ P) /\ (1 .. n) \ P \in SUBSET (1 .. n)
        /\ UpTo(v, a) \in SUBSET (1 .. n)
    <3>1. ASSUME NEW i \in P PROVE ~(v[i] <= a)
      <4>1. v[i] \in Int /\ x <= v[i]
        BY <1>2 DEF Between
      <4> QED BY <1>1, <1>6, <4>1
    <3> QED BY <1>2, <3>1 DEF UpTo
  <2> DEFINE Q == (1 .. n) \ P
             U == UpTo(v, a)
  <2>2. Q \in SUBSET (1 .. n) /\ U \in SUBSET Q /\ U \in SUBSET (1 .. n) /\ Cardinality(Q) = n - Cardinality(P)
    BY <1>4, <2>1
  <2>3. Cardinality(U) <= n - Cardinality(P) /\ Cardinality(U) \in 0 .. n
    <3> HIDE DEF Q, U
    <3>1. Cardinality(U) <= Cardinality(Q) /\ Cardinality(U) \in 0 .. n
      BY <2>2, Counted
    <3> QED BY <2>2, <3>1
  <2> QED BY <1>1, <1>3, <1>4, <2>3
<1> QED BY <1>5, <1>6

\* The middle in other units, and with the order reversed.
LEMMA Scaled ==
    ASSUME NEW n \in Nat, n >= 1, NEW v \in Lists(n), NEW a, NEW b, Middle(v, n, a, b),
           NEW w \in Lists(n), \A i \in 1 .. n : w[i] = 3 * v[i]
    PROVE  Middle(w, n, 3 * a, 3 * b)
<1>1. a \in Int /\ b \in Int
  BY DEF Middle
<1>2. /\ DOMAIN v = 1 .. n /\ \A i \in 1 .. n : v[i] \in Int
      /\ DOMAIN w = 1 .. n
  BY Sequence
<1>3. ASSUME NEW x \in Int PROVE Below(w, 3 * x) = Below(v, x) /\ UpTo(w, 3 * x) = UpTo(v, x)
  BY <1>2 DEF Below, UpTo
<1> QED BY <1>1, <1>3 DEF Middle, IsKth

LEMMA Mirrored ==
    ASSUME NEW n \in Nat, n >= 1, NEW v \in Lists(n), NEW a, NEW b, Middle(v, n, a, b),
           NEW w \in Lists(n), \A i \in 1 .. n : w[i] = 2 - 3 * v[i]
    PROVE  Middle(w, n, 2 - 3 * b, 2 - 3 * a)
<1> DEFINE k == (n + 1) \div 2
           l == n \div 2 + 1
<1>1. a \in Int /\ b \in Int /\ IsKth(v, k, a) /\ IsKth(v, l, b)
  BY DEF Middle
<1>2. /\ DOMAIN v = 1 .. n /\ \A i \in 1 .. n : v[i] \in Int
      /\ DOMAIN w = 1 .. n
  BY Sequence
<1>3. k \in Nat /\ l \in Nat /\ k + l = n + 1
  BY Parity
<1> HIDE DEF k, l
<1>4. ASSUME NEW x \in Int, NEW p \in Nat, NEW q \in Nat, p + q = n + 1, IsKth(v, p, x)
      PROVE  IsKth(w, q, 2 - 3 * x)
  <2>1. /\ Below(w, 2 - 3 * x) = (1 .. n) \ UpTo(v, x)
        /\ UpTo(w, 2 - 3 * x) = (1 .. n) \ Below(v, x)
    <3>1. \A i \in 1 .. n : w[i] = 2 - 3 * v[i] /\ v[i] \in Int
      BY <1>2
    <3>2. Below(w, 2 - 3 * x) = (1 .. n) \ UpTo(v, x)
      BY <1>2, <3>1, SMTT(30) DEF Below, UpTo
    <3>3. UpTo(w, 2 - 3 * x) = (1 .. n) \ Below(v, x)
      BY <1>2, <3>1, SMTT(30) DEF Below, UpTo
    <3> QED BY <3>2, <3>3
  <2>2. UpTo(v, x) \in SUBSET (1 .. n) /\ Below(v, x) \in SUBSET (1 .. n)
    BY <1>2 DEF Below, UpTo
  <2>3. /\ Cardinality(Below(w, 2 - 3 * x)) = n - Cardinality(UpTo(v, x))
        /\ Cardinality(UpTo(w, 2 - 3 * x)) = n - Cardinality(Below(v, x))
        /\ Cardinality(UpTo(v, x)) \in 0 .. n /\ Cardinality(Below(v, x)) \in 0 .. n
    BY <2>1, <2>2, Counted, ZenonT(60)
  <2>4. Cardinality(Below(v, x)) < p /\ p <= Cardinality(UpTo(v, x))
    BY <1>4 DEF IsKth
  <2> QED BY <1>4, <2>3, <2>4 DEF IsKth
<1>5. IsKth(w, l, 2 - 3 * a) /\ IsKth(w, k, 2 - 3 * b)
  BY <1>1, <1>3, <1>4
<1> QED BY <1>1, <1>5 DEF Middle, k, l

-----------------------------------------------------------------------------
(* Floats.                                                                 *)

LEMMA Limits ==
    /\ FloatMax \in Nat /\ FloatMax >= 8 /\ Threshold \in Nat
    /\ MIN_WINDOW \in Nat /\ MIN_WINDOW >= 2
    /\ Infinity \in Nat /\ Infinity = 10 * FloatMax
BY ScoringAssumption DEF Infinity

\* A number that is not too large is kept.
LEMMA Fits ==
    ASSUME NEW x \in Int, NEW u \in {1, 2}
    PROVE  /\ float(x, u) \in Int
           /\ float(x, u) = x \/ float(x, u) = Infinity \/ float(x, u) = -Infinity
           /\ x >= 0 => float(x, u) = x \/ float(x, u) = Infinity
           /\ -(u * FloatMax) <= x /\ x <= u * FloatMax => float(x, u) = x
           /\ float(x, u) # Infinity /\ float(x, u) # -Infinity =>
                -(u * FloatMax) <= x /\ x <= u * FloatMax
<1>1. CASE u = 1
  BY <1>1, Limits DEF float, abs
<1>2. CASE u = 2
  BY <1>2, Limits DEF float, abs
<1> QED BY <1>1, <1>2

LEMMA Deviation ==
    ASSUME NEW x \in Int, NEW c \in Int
    PROVE  /\ deviation(x, c) \in Nat
           /\ deviation(x, c) = abs(2 * x - c) \/ deviation(x, c) = Infinity
           /\ abs(2 * x - c) \in Nat
           /\ abs(2 * x - c) <= 2 * FloatMax => deviation(x, c) = abs(2 * x - c)
           /\ deviation(x, c) # Infinity => deviation(x, c) <= 2 * FloatMax
<1> DEFINE y == abs(2 * x - c)
<1>1. y \in Int /\ y >= 0
  BY DEF abs
<1>2. deviation(x, c) = float(y, 2)
  BY DEF deviation
<1> HIDE DEF y
<1>3. /\ float(y, 2) \in Int /\ (float(y, 2) = y \/ float(y, 2) = Infinity)
      /\ y <= 2 * FloatMax => float(y, 2) = y
      /\ float(y, 2) # Infinity /\ float(y, 2) # -Infinity => y <= 2 * FloatMax
  BY <1>1, Fits, Limits
<1>4. float(y, 2) \in Nat
  BY <1>1, <1>3, Limits
<1>5. float(y, 2) # Infinity => float(y, 2) <= 2 * FloatMax
  BY <1>1, <1>3, <1>4, Limits
<1> QED BY <1>1, <1>2, <1>3, <1>4, <1>5 DEF y

\* A median that is a finite number is the sum of the two in the middle.
LEMMA Summed ==
    ASSUME NEW n \in Nat, n >= 1, NEW v \in Lists(n), NEW u \in {1, 2}
    PROVE  \E a, b : /\ Middle(v, n, a, b)
                     /\ \E i, j \in 1 .. n : a = v[i] /\ b = v[j]
                     /\ a \in Int /\ b \in Int /\ a <= b /\ median(v, u) \in Int
                     /\ median(v, u) \in {a + b, Infinity, -Infinity}
                     /\ a + b >= 0 => median(v, u) \in {a + b, Infinity}
                     /\ -(u * FloatMax) <= a + b /\ a + b <= u * FloatMax => median(v, u) = a + b
<1>1. PICK a, b : /\ Middle(v, n, a, b)
                  /\ \E i, j \in 1 .. n : a = v[i] /\ b = v[j]
                  /\ median(v, u) = IF n % 2 = 1 THEN a + b ELSE float(a + b, u)
  BY Median
<1>2. a \in Int /\ b \in Int /\ a <= b
  BY <1>1, MiddleOrder
<1> DEFINE x == a + b
<1>3. x \in Int
  BY <1>2
<1> HIDE DEF x
<1>4. median(v, u) = x \/ median(v, u) = float(x, u)
  BY <1>1 DEF x
<1>5. /\ median(v, u) \in Int /\ median(v, u) \in {x, Infinity, -Infinity}
      /\ x >= 0 => median(v, u) \in {x, Infinity}
      /\ -(u * FloatMax) <= x /\ x <= u * FloatMax => median(v, u) = x
  BY <1>3, <1>4, Fits
<1> QED BY <1>1, <1>2, <1>5 DEF x

-----------------------------------------------------------------------------
(* What score_window computes.                                             *)

Center(s) == median(baseline(s), 1)
Deviations(s) == absolute_deviations(baseline(s), Center(s))
Spread(s) == median(Deviations(s), 2)
Distance(s) == deviation(s[Len(s)], Center(s))

\* sigma, which is made of the spread m, is a finite number.
FiniteSigma(m) == 2000 * m <= 4 * MAD_TO_SIGMA * FloatMax

LEMMA Baseline ==
    ASSUME NEW s \in Seq(Int), ~(Len(s) < MIN_WINDOW)
    PROVE  /\ Len(s) - 1 \in Nat /\ Len(s) - 1 >= 1 /\ s[Len(s)] \in Int
           /\ baseline(s) \in Lists(Len(s) - 1) /\ DOMAIN baseline(s) = 1 .. Len(s) - 1
           /\ Len(baseline(s)) = Len(s) - 1 /\ Len(s) \in 1 .. Len(s)
           /\ \A i \in 1 .. Len(s) - 1 : baseline(s)[i] = s[i] /\ s[i] \in Int /\ i \in 1 .. Len(s)
<1>1. Len(s) \in Nat /\ Len(s) >= 2
  BY Limits
<1>2. Len(s) - 1 \in Nat /\ Len(s) - 1 >= 1 /\ Len(s) \in 1 .. Len(s) /\ 1 .. Len(s) - 1 \subseteq 1 .. Len(s)
  BY <1>1
<1>3. \A i \in 1 .. Len(s) : s[i] \in Int
  OBVIOUS
<1>4. baseline(s) = [i \in 1 .. Len(s) - 1 |-> s[i]]
  BY <1>1 DEF baseline
<1>5. baseline(s) \in Lists(Len(s) - 1) /\ \A i \in 1 .. Len(s) - 1 : baseline(s)[i] = s[i]
  BY <1>2, <1>3, <1>4 DEF Lists
<1>6. Len(baseline(s)) = Len(s) - 1 /\ DOMAIN baseline(s) = 1 .. Len(s) - 1
  BY <1>2, <1>5, Sequence
<1> QED BY <1>2, <1>3, <1>5, <1>6

LEMMA DeviationList ==
    ASSUME NEW n \in Nat, NEW v \in Lists(n), NEW c \in Int
    PROVE  /\ absolute_deviations(v, c) \in Lists(n)
           /\ \A i \in 1 .. n : /\ absolute_deviations(v, c)[i] = deviation(v[i], c)
                                /\ absolute_deviations(v, c)[i] \in Nat
<1>1. DOMAIN v = 1 .. n /\ \A i \in 1 .. n : v[i] \in Int
  BY Sequence
<1>2. \A i \in 1 .. n : deviation(v[i], c) \in Nat
  BY <1>1, Deviation
<1>3. absolute_deviations(v, c) = [i \in 1 .. n |-> deviation(v[i], c)]
  BY <1>1 DEF absolute_deviations
<1>4. \A i \in 1 .. n : absolute_deviations(v, c)[i] = deviation(v[i], c)
  BY <1>3
<1>5. absolute_deviations(v, c) \in Lists(n)
  BY <1>2, <1>3 DEF Lists
<1> QED BY <1>2, <1>4, <1>5

\* The parts of the result.
LEMMA Parts ==
    ASSUME NEW s \in Seq(Int), ~(Len(s) < MIN_WINDOW)
    PROVE  /\ score_window(s).median = Center(s) /\ score_window(s).method # "insufficient_data"
           /\ Spread(s) = 0 =>
                /\ score_window(s).score.num = IF Distance(s) = 0 THEN 0 ELSE SATURATED_SCORE
                /\ score_window(s).score.den = 1
                /\ score_window(s).anomaly = (Distance(s) # 0)
                /\ score_window(s).finite = TRUE
           /\ Spread(s) # 0 =>
                /\ score_window(s).score = capped(zscore(Distance(s), Spread(s)))
                /\ score_window(s).anomaly = (zscore(Distance(s), Spread(s)).num >=
                                              Threshold * zscore(Distance(s), Spread(s)).den)
                /\ score_window(s).finite = FiniteSigma(Spread(s))
<1> DEFINE m == Spread(s)
           d == Distance(s)
           z == zscore(d, m)
           one == [score |-> [num |-> IF d = 0 THEN 0 ELSE SATURATED_SCORE, den |-> 1],
                   anomaly |-> d # 0, method |-> "robust_zscore_flat",
                   median |-> Center(s), finite |-> TRUE]
           two == [score |-> capped(z), anomaly |-> z.num >= Threshold * z.den,
                   method |-> "robust_zscore", median |-> Center(s),
                   finite |-> 2000 * m <= 4 * MAD_TO_SIGMA * FloatMax]
           f == d # 0
           g == z.num >= Threshold * z.den
           h == FiniteSigma(m)
<1>1. score_window(s) = IF m = 0 THEN one ELSE two
  BY DEF score_window, Center, Deviations, Spread, Distance, flat
<1>2. /\ one.score.num = IF d = 0 THEN 0 ELSE SATURATED_SCORE
      /\ one.score.den = 1 /\ one.anomaly = f
      /\ one.method # "insufficient_data" /\ one.median = Center(s) /\ one.finite = TRUE
  <2> HIDE DEF f
  <2> QED BY DEF f
<1>3. /\ two.score = capped(z) /\ two.anomaly = g /\ two.method # "insufficient_data"
      /\ two.median = Center(s) /\ two.finite = h
  <2> HIDE DEF z, m
  <2> QED BY DEF g, h, FiniteSigma
<1> HIDE DEF m, d, z, one, two
<1>4. CASE m = 0
  BY <1>1, <1>2, <1>4 DEF m, d, z
<1>5. CASE m # 0
  BY <1>1, <1>3, <1>5 DEF m, d, z
<1> QED BY <1>4, <1>5

\* The numbers the parts are made of: two from the middle of the baseline and
\* two from the middle of the deviations.
Made(s, n, a, b, p, q) ==
    /\ Middle(baseline(s), n, a, b) /\ a \in Int /\ b \in Int
    /\ \E i, j \in 1 .. n : a = s[i] /\ b = s[j]
    /\ Center(s) \in Int /\ Center(s) \in {a + b, Infinity, -Infinity}
    /\ -FloatMax <= a + b /\ a + b <= FloatMax => Center(s) = a + b
    /\ Deviations(s) \in Lists(n)
    /\ \A i \in 1 .. n : Deviations(s)[i] = deviation(s[i], Center(s)) /\ Deviations(s)[i] \in Nat
    /\ Middle(Deviations(s), n, p, q) /\ p \in Nat /\ q \in Nat /\ p <= q
    /\ \E i, j \in 1 .. n : p = Deviations(s)[i] /\ q = Deviations(s)[j]
    /\ Spread(s) \in Nat /\ Spread(s) \in {p + q, Infinity}
    /\ p + q <= 2 * FloatMax => Spread(s) = p + q
    /\ Distance(s) \in Nat

LEMMA Making ==
    ASSUME NEW s \in Seq(Int), ~(Len(s) < MIN_WINDOW)
    PROVE  \E a, b, p, q : Made(s, Len(s) - 1, a, b, p, q)
<1> DEFINE n == Len(s) - 1
           v == baseline(s)
           c == Center(s)
           w == Deviations(s)
<1>1. /\ n \in Nat /\ n >= 1 /\ s[Len(s)] \in Int /\ v \in Lists(n)
      /\ \A i \in 1 .. n : v[i] = s[i] /\ s[i] \in Int
  BY Baseline
<1>2. c = median(v, 1) /\ w = absolute_deviations(v, c) /\ Spread(s) = median(w, 2)
      /\ Distance(s) = deviation(s[Len(s)], c)
  BY DEF Center, Deviations, Spread, Distance
<1> HIDE DEF n, v, c, w
<1>3. PICK a, b : /\ Middle(v, n, a, b)
                  /\ \E i, j \in 1 .. n : a = v[i] /\ b = v[j]
                  /\ a \in Int /\ b \in Int /\ a <= b /\ median(v, 1) \in Int
                  /\ median(v, 1) \in {a + b, Infinity, -Infinity}
                  /\ -(1 * FloatMax) <= a + b /\ a + b <= 1 * FloatMax => median(v, 1) = a + b
  BY <1>1, Summed
<1>4. c \in Int
  BY <1>2, <1>3
<1>5. w \in Lists(n) /\ \A i \in 1 .. n : w[i] = deviation(v[i], c) /\ w[i] \in Nat
  BY <1>1, <1>2, <1>4, DeviationList
<1>6. PICK p, q : /\ Middle(w, n, p, q)
                  /\ \E i, j \in 1 .. n : p = w[i] /\ q = w[j]
                  /\ p \in Int /\ q \in Int /\ p <= q /\ median(w, 2) \in Int
                  /\ median(w, 2) \in {p + q, Infinity, -Infinity}
                  /\ p + q >= 0 => median(w, 2) \in {p + q, Infinity}
                  /\ -(2 * FloatMax) <= p + q /\ p + q <= 2 * FloatMax => median(w, 2) = p + q
  BY <1>1, <1>5, Summed, Zenon
<1>7. p \in Nat /\ q \in Nat
  BY <1>5, <1>6
<1>8. /\ Spread(s) \in {p + q, Infinity} /\ Spread(s) \in Nat
      /\ p + q <= 2 * FloatMax => Spread(s) = p + q
  <2>1. p + q \in Nat /\ p + q >= 0 /\ -(2 * FloatMax) <= p + q
    BY <1>7, Limits
  <2>2. Spread(s) \in {p + q, Infinity}
    BY <1>2, <1>6, <2>1
  <2>3. Spread(s) \in Nat
    BY <2>1, <2>2, Limits
  <2> QED BY <1>2, <1>6, <2>1, <2>2, <2>3
<1>9. -FloatMax <= a + b /\ a + b <= FloatMax => c = a + b
  BY <1>2, <1>3, Limits
<1>10. Distance(s) \in Nat
  BY <1>1, <1>2, <1>4, Deviation
<1>11. /\ \E i, j \in 1 .. n : a = s[i] /\ b = s[j]
       /\ \A i \in 1 .. n : w[i] = deviation(s[i], c) /\ w[i] \in Nat
  BY <1>1, <1>3, <1>5
<1>12. Made(s, n, a, b, p, q)
  BY <1>2, <1>3, <1>4, <1>5, <1>6, <1>7, <1>8, <1>9, <1>10, <1>11 DEF Made, v, c, w
<1> QED BY <1>12 DEF n

\* What an answer says of the result.
LEMMA Reply ==
    ASSUME NEW s
    PROVE  /\ score(s).status = 200 =>
                /\ valid(s) /\ score(s).result = score_window(s)
                /\ abs(score_window(s).median) < Infinity /\ score_window(s).finite
           /\ score(s).status = 500 /\ _finite(s) =>
                valid(s) /\ ~(abs(score_window(s).median) < Infinity /\ score_window(s).finite)
<1> DEFINE r == score_window(s)
           ok == abs(r.median) < Infinity /\ r.finite
<1>1. score(s) = IF ~_finite(s) THEN [status |-> 500] ELSE IF ~valid(s) THEN [status |-> 422]
                 ELSE IF ok THEN [status |-> 200, result |-> r] ELSE [status |-> 500]
  BY DEF score
<1> HIDE DEF r, ok
<1>2. score(s).status = 200 => valid(s) /\ ok /\ score(s).result = r
  BY <1>1
<1>3. score(s).status = 500 /\ _finite(s) => valid(s) /\ ~ok
  BY <1>1
<1> QED BY <1>2, <1>3 DEF r, ok

-----------------------------------------------------------------------------
(* The answers.                                                            *)

\* A median that is reported is finite, so it is not clipped.
LEMMA Unclipped ==
    ASSUME NEW x \in Int, NEW y \in Int, y \in {x, Infinity, -Infinity}, abs(y) < Infinity
    PROVE  y = x
BY Limits DEF abs

\* The reported median halves the sample.
LEMMA HalvedSample ==
    ASSUME NEW s \in Seq(Int), score(s).status = 200
    PROVE  LET v == IF Len(s) < MIN_WINDOW THEN s ELSE baseline(s)
               m == score(s).result.median
           IN  /\ 2 * Cardinality(LowHalf(v, Len(v), m)) >= Len(v)
               /\ 2 * Cardinality(HighHalf(v, Len(v), m)) >= Len(v)
<1>1. valid(s) /\ score(s).result = score_window(s) /\ abs(score_window(s).median) < Infinity
  BY Reply
<1>2. CASE Len(s) < MIN_WINDOW
  <2> DEFINE n == Len(s)
  <2>1. n \in Nat /\ n >= 1 /\ s \in Lists(n) /\ DOMAIN s = 1 .. n
    BY <1>1 DEF valid, Lists
  <2>2. score_window(s).median = median(s, 1)
    BY <1>2 DEF score_window
  <2> HIDE DEF n
  <2>3. PICK a, b : /\ Middle(s, n, a, b) /\ a \in Int /\ b \in Int
                    /\ median(s, 1) \in Int /\ median(s, 1) \in {a + b, Infinity, -Infinity}
    BY <2>1, Summed
  <2>4. a + b \in Int
    BY <2>3
  <2>5. median(s, 1) = a + b
    <3>1. abs(median(s, 1)) < Infinity
      BY <1>1, <2>2
    <3> QED BY <2>3, <2>4, <3>1, Unclipped
  <2>6. /\ 2 * Cardinality(LowHalf(s, n, a + b)) >= n
        /\ 2 * Cardinality(HighHalf(s, n, a + b)) >= n
    BY <2>1, <2>3, Halves, Zenon
  <2> QED BY <1>1, <1>2, <2>1, <2>2, <2>5, <2>6, Zenon DEF n
<1>3. CASE ~(Len(s) < MIN_WINDOW)
  <2> DEFINE n == Len(s) - 1
             v == baseline(s)
  <2>1. n \in Nat /\ n >= 1 /\ v \in Lists(n) /\ DOMAIN v = 1 .. n /\ Len(v) = n
    BY <1>3, Baseline
  <2>2. score_window(s).median = Center(s)
    BY <1>3, Parts, Zenon
  <2>3. PICK a, b, p, q : Made(s, n, a, b, p, q)
    BY <1>3, Making
  <2>4. /\ Middle(v, n, a, b) /\ a \in Int /\ b \in Int
        /\ Center(s) \in Int /\ Center(s) \in {a + b, Infinity, -Infinity}
    BY <2>3 DEF Made
  <2>5. a + b \in Int
    BY <2>4
  <2>6. Center(s) = a + b
    <3>1. abs(Center(s)) < Infinity
      BY <1>1, <2>2
    <3> QED BY <2>4, <2>5, <3>1, Unclipped
  <2> HIDE DEF n, v
  <2>7. /\ 2 * Cardinality(LowHalf(v, n, a + b)) >= n
        /\ 2 * Cardinality(HighHalf(v, n, a + b)) >= n
    BY <2>1, <2>4, Halves, Zenon
  <2> QED BY <1>1, <1>3, <2>1, <2>2, <2>6, <2>7, Zenon DEF v
<1> QED BY <1>2, <1>3

\* The places up to n of values between lo and hi.
Inside(s, n, lo, hi) == {i \in 1 .. n : lo <= s[i] /\ s[i] <= hi}

LEMMA Apart ==
    ASSUME NEW x \in Int, NEW c \in Int, NEW lo \in Int, NEW hi \in Int,
           lo <= x, x <= hi, 2 * lo <= c, c <= 2 * hi
    PROVE  abs(2 * x - c) \in Nat /\ abs(2 * x - c) <= 2 * (hi - lo)
BY DEF abs

\* When most of the baseline lies between lo and hi, so does its median, and
\* half of the deviations from it are at most twice their distance.
LEMMA NarrowSpread ==
    ASSUME NEW s \in Seq(Int), ~(Len(s) < MIN_WINDOW), NEW lo \in Int, NEW hi \in Int, lo <= hi,
           2 * Cardinality(Inside(s, Len(s) - 1, lo, hi)) > Len(s) - 1,
           abs(Center(s)) < Infinity, Spread(s) # 0 => FiniteSigma(Spread(s))
    PROVE  /\ 2 * lo <= Center(s) /\ Center(s) <= 2 * hi /\ Center(s) \in Int
           /\ Spread(s) \in Nat /\ Spread(s) <= 4 * (hi - lo)
<1> DEFINE n == Len(s) - 1
           v == baseline(s)
           w == Deviations(s)
           c == Center(s)
           m == Spread(s)
           P == Inside(s, n, lo, hi)
<1>1. /\ n \in Nat /\ n >= 1 /\ v \in Lists(n)
      /\ \A i \in 1 .. n : v[i] = s[i] /\ s[i] \in Int
  BY Baseline
<1>2. PICK a, b, p, q : Made(s, n, a, b, p, q)
  BY Making
<1>3. /\ Middle(v, n, a, b) /\ a \in Int /\ b \in Int /\ c \in Int /\ c \in {a + b, Infinity, -Infinity}
      /\ w \in Lists(n) /\ Middle(w, n, p, q) /\ p \in Nat /\ q \in Nat /\ p <= q
      /\ \A i \in 1 .. n : w[i] = deviation(s[i], c)
      /\ \E i \in 1 .. n : q = w[i]
      /\ m \in Nat /\ m \in {p + q, Infinity}
  BY <1>2, Zenon DEF Made
<1>4. P \in SUBSET (1 .. n) /\ 2 * Cardinality(P) > n
      /\ Between(v, P, lo, hi)
  BY <1>1 DEF Between, Inside
<1>5. abs(c) < Infinity /\ (m # 0 => FiniteSigma(m))
  OBVIOUS
<1>6. \A i \in P : i \in 1 .. n /\ s[i] \in Int /\ lo <= s[i] /\ s[i] <= hi
  BY <1>1 DEF Inside
<1> HIDE DEF n, v, w, c, m, P
<1>7. lo <= a /\ b <= hi
  BY <1>1, <1>3, <1>4, Majority
<1>8. c = a + b
  <2>1. a + b \in Int
    BY <1>3
  <2> QED BY <1>3, <1>5, <2>1, Unclipped, Zenon
<1>9. a <= b
  BY <1>1, <1>3, MiddleOrder
<1>10. 2 * lo <= c /\ c <= 2 * hi
  BY <1>3, <1>7, <1>8, <1>9
<1>n. p \in Nat /\ q \in Nat /\ p <= q /\ m \in Nat /\ m \in {p + q, Infinity}
  BY <1>3, Zenon
<1>11. m = p + q /\ q <= 2 * FloatMax
  <2>1. m < Infinity
    BY <1>n, <1>5, Limits DEF FiniteSigma, MAD_TO_SIGMA
  <2>2. m = p + q /\ q # Infinity
    BY <1>n, <2>1, Limits
  <2>3. PICK i \in 1 .. n : q = deviation(s[i], c) /\ s[i] \in Int
    BY <1>1, <1>3
  <2> QED BY <1>3, <2>2, <2>3, Deviation, Zenon
<1>12. q <= 2 * (hi - lo)
  <2>1. CASE hi - lo <= FloatMax
    <3>1. ASSUME NEW i \in P PROVE 0 <= w[i] /\ w[i] <= 2 * (hi - lo)
      <4>1. s[i] \in Int /\ lo <= s[i] /\ s[i] <= hi /\ w[i] = deviation(s[i], c)
        BY <1>3, <1>6
      <4> DEFINE y == abs(2 * s[i] - c)
      <4>2. y \in Nat /\ y <= 2 * (hi - lo)
        BY <1>3, <1>10, <4>1, Apart
      <4>3. y <= 2 * FloatMax
        BY <2>1, <4>2, Limits
      <4>4. w[i] = y
        BY <1>3, <4>1, <4>3, Deviation, Zenon
      <4> HIDE DEF y
      <4> QED BY <4>2, <4>4
    <3>2. 0 \in Int /\ 2 * (hi - lo) \in Int /\ Between(w, P, 0, 2 * (hi - lo))
      BY <3>1 DEF Between
    <3> QED BY <1>1, <1>3, <1>4, <3>2, Majority
  <2>2. CASE hi - lo > FloatMax
    BY <1>n, <1>11, <2>2, Limits
  <2> QED BY <2>1, <2>2, Limits
<1>13. m <= 4 * (hi - lo)
  BY <1>n, <1>11, <1>12
<1> QED BY <1>3, <1>10, <1>13 DEF c, m

LEMMA Multiply ==
    ASSUME NEW t \in Nat, NEW x \in Int, NEW y \in Int, x <= y
    PROVE  t * x <= t * y /\ t * x \in Int /\ t * y \in Int
<1>1. PICK k \in Nat : y = x + k
  <2>1. y - x \in Nat /\ y = x + (y - x)
    OBVIOUS
  <2> QED BY <2>1
<1>2. t * y = t * x + t * k /\ t * k \in Nat /\ t * x \in Int
  BY <1>1
<1> QED BY <1>2

\* A reading that far above is an anomaly.
LEMMA SpikeFound ==
    ASSUME NEW s \in Seq(Int), ~(Len(s) < MIN_WINDOW), score(s).status = 200,
           NEW lo \in Int, NEW hi \in Int, lo <= hi,
           2 * Cardinality(Inside(s, Len(s) - 1, lo, hi)) > Len(s) - 1,
           s[Len(s)] > hi, MAD_TO_SIGMA * (s[Len(s)] - hi) >= Threshold * (hi - lo)
    PROVE  score(s).result.anomaly
<1> DEFINE r == score_window(s)
           c == Center(s)
           m == Spread(s)
           d == Distance(s)
           x == s[Len(s)]
           T == Threshold
           z == zscore(d, m)
<1>1. score(s).result = r /\ abs(r.median) < Infinity /\ r.finite
  BY Reply
<1>2. /\ r.median = c
      /\ m = 0 => r.anomaly = (d # 0)
      /\ m # 0 => r.anomaly = (z.num >= T * z.den) /\ r.finite = FiniteSigma(m)
  BY Parts, Zenon
<1>3. x \in Int /\ d = deviation(x, c)
  BY Baseline DEF Distance
<1>4. abs(c) < Infinity /\ (m # 0 => FiniteSigma(m))
  BY <1>1, <1>2, Zenon
<1>5. c <= 2 * hi /\ c \in Int /\ m \in Nat /\ m <= 4 * (hi - lo)
  BY <1>4, NarrowSpread, Zenon
<1>6. x > hi /\ 1349 * (x - hi) >= T * (hi - lo) /\ T \in Nat
  BY Limits DEF MAD_TO_SIGMA
<1> HIDE DEF r, c, m, d, x, T
<1>7. d \in Nat /\ (d = Infinity \/ d = 2 * x - c)
  <2>1. abs(2 * x - c) = 2 * x - c
    BY <1>3, <1>5, <1>6 DEF abs
  <2> QED BY <1>3, <1>5, <2>1, Deviation
<1>8. d = Infinity \/ d >= 2 * (x - hi)
  BY <1>3, <1>5, <1>7
<1>9. d # 0
  BY <1>3, <1>6, <1>7, <1>8, Limits
<1>10. CASE m = 0
  BY <1>1, <1>2, <1>9, <1>10, Zenon
<1>11. CASE m # 0
  <2>1. z.num >= T * z.den
    <3>1. CASE d = Infinity
      <4>1. z.num = 1 /\ z.den = 0
        BY <3>1 DEF zscore
      <4> HIDE DEF z
      <4> QED BY <1>6, <4>1
    <3>2. CASE d # Infinity
      <4>1. z.num = 2 * 1349 * d /\ z.den = m
        BY <3>2 DEF zscore, MAD_TO_SIGMA
      <4>2. 4 * (hi - lo) \in Int /\ m \in Int
        BY <1>5
      <4>3. T * m <= T * (4 * (hi - lo)) /\ T * m \in Int
        BY <1>5, <1>6, <4>2, Multiply
      <4>4. T * (4 * (hi - lo)) = 4 * (T * (hi - lo)) /\ T * (hi - lo) \in Int
        BY <1>6
      <4>5. 2 * 1349 * d >= 4 * (1349 * (x - hi))
        BY <1>3, <1>7, <1>8, <3>2
      <4>6. 2 * 1349 * d >= T * m
        <5> DEFINE e == T * m
                   f == T * (hi - lo)
        <5>1. e <= 4 * f /\ e \in Int /\ f \in Int /\ 1349 * (x - hi) >= f
          BY <1>6, <4>3, <4>4
        <5> HIDE DEF e, f
        <5>2. 2 * 1349 * d >= e
          BY <1>3, <1>7, <4>5, <5>1
        <5> QED BY <5>2 DEF e
      <4> HIDE DEF z
      <4> QED BY <4>1, <4>6
    <3> QED BY <3>1, <3>2
  <2> HIDE DEF z
  <2> QED BY <1>1, <1>2, <1>11, <2>1, Zenon
<1> QED BY <1>10, <1>11

-----------------------------------------------------------------------------
(* Scores that can be encoded.                                             *)

LEMMA Cap ==
    ASSUME NEW d \in Nat, NEW m \in Nat, m # 0
    PROVE  LET z == zscore(d, m)
           IN  capped(z).den > 0 /\ capped(z).num <= SATURATED_SCORE * capped(z).den
<1> DEFINE z == zscore(d, m)
           x == z.num
           y == z.den
<1>1. x \in Nat /\ y \in Nat /\ (y = 0 => x = 1)
  BY DEF zscore, MAD_TO_SIGMA
<1>2. capped(z) = IF x \div 2000000 >= y THEN [num |-> 2000000, den |-> 1] ELSE z
  BY DEF capped, SATURATED_SCORE
<1> HIDE DEF x, y
<1>3. CASE x \div 2000000 >= y
  <2>1. capped(z).num = 2000000 /\ capped(z).den = 1
    BY <1>2, <1>3
  <2> QED BY <2>1 DEF SATURATED_SCORE
<1>4. CASE ~(x \div 2000000 >= y)
  <2>1. capped(z).num = x /\ capped(z).den = y
    BY <1>2, <1>4 DEF x, y
  <2>2. x <= 2000000 * y /\ y > 0
    BY <1>1, <1>4
  <2> HIDE DEF z
  <2> QED BY <2>1, <2>2 DEF SATURATED_SCORE, z
<1> QED BY <1>3, <1>4

LEMMA ScoreCapped ==
    ASSUME NEW s \in Seq(Int)
    PROVE  /\ score_window(s).score.den > 0
           /\ score_window(s).score.num <= SATURATED_SCORE * score_window(s).score.den
<1>1. CASE Len(s) < MIN_WINDOW
  <2>1. score_window(s).score = [num |-> 0, den |-> 1]
    BY <1>1 DEF score_window
  <2>2. score_window(s).score.num = 0 /\ score_window(s).score.den = 1
    BY <2>1
  <2> QED BY <2>2 DEF SATURATED_SCORE
<1>2. CASE ~(Len(s) < MIN_WINDOW)
  <2>1. PICK a, b, p, q : Made(s, Len(s) - 1, a, b, p, q)
    BY <1>2, Making
  <2>2. Spread(s) \in Nat /\ Distance(s) \in Nat
    BY <2>1, Zenon DEF Made
  <2>3. CASE Spread(s) = 0
    <3>1. score_window(s).score.num \in {0, SATURATED_SCORE} /\ score_window(s).score.den = 1
      BY <1>2, <2>3, Parts, Zenon
    <3> QED BY <3>1 DEF SATURATED_SCORE
  <2>4. CASE Spread(s) # 0
    <3>1. score_window(s).score = capped(zscore(Distance(s), Spread(s)))
      BY <1>2, <2>4, Parts, Zenon
    <3> QED BY <2>2, <2>4, <3>1, Cap, Zenon
  <2> QED BY <2>3, <2>4
<1> QED BY <1>1, <1>2

\* Half of the deviations from a median of numbers up to F / 3 are within
\* 2 F / 3: those on the far side of it from zero.
LEMMA NearHalf ==
    ASSUME NEW n \in Nat, n >= 1, NEW v \in Lists(n), NEW a, NEW b, Middle(v, n, a, b),
           \A i \in 1 .. n : -FloatMax <= 3 * v[i] /\ 3 * v[i] <= FloatMax
    PROVE  \E P \in SUBSET (1 .. n) : /\ 2 * Cardinality(P) >= n
                                      /\ \A i \in P : 3 * abs(2 * v[i] - (a + b)) <= 2 * FloatMax
<1> DEFINE c == a + b
           L == LowHalf(v, n, c)
           H == HighHalf(v, n, c)
<1>1. c \in Int
  BY DEF Middle
<1>2. 2 * Cardinality(L) >= n /\ 2 * Cardinality(H) >= n
  BY Halves
<1>3. \A i \in 1 .. n : v[i] \in Int
  BY Sequence
<1>4. L \in SUBSET (1 .. n) /\ H \in SUBSET (1 .. n)
  BY DEF LowHalf, HighHalf
<1>5. /\ \A i \in L : i \in 1 .. n /\ 2 * v[i] <= c
      /\ \A i \in H : i \in 1 .. n /\ 2 * v[i] >= c
  BY DEF LowHalf, HighHalf
<1> HIDE DEF c, L, H
<1>6. ASSUME NEW i \in 1 .. n, c >= 0, 2 * v[i] >= c PROVE 3 * abs(2 * v[i] - c) <= 2 * FloatMax
  BY <1>1, <1>3, <1>6, Limits DEF abs
<1>7. ASSUME NEW i \in 1 .. n, ~(c >= 0), 2 * v[i] <= c PROVE 3 * abs(2 * v[i] - c) <= 2 * FloatMax
  BY <1>1, <1>3, <1>7, Limits DEF abs
<1>8. CASE c >= 0
  <2>1. \A i \in H : 3 * abs(2 * v[i] - c) <= 2 * FloatMax
    BY <1>5, <1>6, <1>8
  <2> QED BY <1>2, <1>4, <2>1 DEF c
<1>9. CASE ~(c >= 0)
  <2>1. \A i \in L : 3 * abs(2 * v[i] - c) <= 2 * FloatMax
    BY <1>5, <1>7, <1>9
  <2> QED BY <1>2, <1>4, <2>1 DEF c
<1> QED BY <1>8, <1>9

LEMMA Thirds ==
    ASSUME NEW a \in Int, NEW b \in Int,
           -FloatMax <= 3 * a, 3 * a <= FloatMax, -FloatMax <= 3 * b, 3 * b <= FloatMax
    PROVE  /\ a + b \in Int /\ -FloatMax <= a + b /\ a + b <= FloatMax /\ abs(a + b) < Infinity
           /\ -(2 * FloatMax) <= 3 * (a + b) /\ 3 * (a + b) <= 2 * FloatMax
BY Limits DEF abs

LEMMA FourThirds ==
    ASSUME NEW x \in Int, NEW c \in Int,
           -FloatMax <= 3 * x, 3 * x <= FloatMax, -(2 * FloatMax) <= 3 * c, 3 * c <= 2 * FloatMax
    PROVE  /\ abs(2 * x - c) \in Nat /\ abs(2 * x - c) <= 2 * FloatMax
           /\ 3 * abs(2 * x - c) <= 4 * FloatMax
BY Limits DEF abs

\* Readings up to F / 3 have a finite median and a finite dispersion.
LEMMA Moderate ==
    ASSUME NEW s \in Seq(Int), valid(s),
           \A i \in 1 .. Len(s) : -FloatMax <= 3 * s[i] /\ 3 * s[i] <= FloatMax
    PROVE  abs(score_window(s).median) < Infinity /\ score_window(s).finite
<1>1. CASE Len(s) < MIN_WINDOW
  <2> DEFINE n == Len(s)
  <2>1. n \in Nat /\ n >= 1 /\ s \in Lists(n)
    BY DEF valid, Lists
  <2>2. score_window(s).median = median(s, 1) /\ score_window(s).finite
    BY <1>1 DEF score_window
  <2>3. PICK a, b : /\ a \in Int /\ b \in Int /\ \E i, j \in 1 .. n : a = s[i] /\ b = s[j]
                    /\ -FloatMax <= a + b /\ a + b <= FloatMax => median(s, 1) = a + b
    <3> HIDE DEF n
    <3>1. PICK a, b : /\ Middle(s, n, a, b)
                      /\ \E i, j \in 1 .. n : a = s[i] /\ b = s[j]
                      /\ a \in Int /\ b \in Int /\ a <= b /\ median(s, 1) \in Int
                      /\ median(s, 1) \in {a + b, Infinity, -Infinity}
                      /\ -(1 * FloatMax) <= a + b /\ a + b <= 1 * FloatMax => median(s, 1) = a + b
      BY <2>1, Summed
    <3>2. 1 * FloatMax = FloatMax
      BY Limits
    <3> QED BY <3>1, <3>2
  <2>4. -FloatMax <= 3 * a /\ 3 * a <= FloatMax /\ -FloatMax <= 3 * b /\ 3 * b <= FloatMax
    BY <2>3
  <2>5. median(s, 1) = a + b /\ abs(a + b) < Infinity
    BY <2>3, <2>4, Thirds
  <2> QED BY <2>2, <2>5
<1>2. CASE ~(Len(s) < MIN_WINDOW)
  <2> DEFINE n == Len(s) - 1
             v == baseline(s)
             w == Deviations(s)
             c == Center(s)
             m == Spread(s)
  <2>1. /\ n \in Nat /\ n >= 1 /\ v \in Lists(n)
        /\ \A i \in 1 .. n : v[i] = s[i] /\ s[i] \in Int /\ i \in 1 .. Len(s)
    BY <1>2, Baseline
  <2>2. PICK a, b, p, q : Made(s, n, a, b, p, q)
    BY <1>2, Making
  <2>3. /\ Middle(v, n, a, b) /\ a \in Int /\ b \in Int /\ \E i, j \in 1 .. n : a = s[i] /\ b = s[j]
        /\ -FloatMax <= a + b /\ a + b <= FloatMax => c = a + b
        /\ w \in Lists(n) /\ Middle(w, n, p, q)
        /\ \A i \in 1 .. n : w[i] = deviation(s[i], c)
        /\ \E i \in 1 .. n : q = w[i]
    BY <2>2, Zenon DEF Made
  <2>n. /\ p \in Nat /\ q \in Nat /\ m \in Nat
        /\ p + q <= 2 * FloatMax => m = p + q
    BY <2>2, Zenon DEF Made
  <2>4. /\ score_window(s).median = c
        /\ m = 0 => score_window(s).finite
        /\ m # 0 => score_window(s).finite = FiniteSigma(m)
    BY <1>2, Parts, Zenon
  <2>5. \A i \in 1 .. n : -FloatMax <= 3 * s[i] /\ 3 * s[i] <= FloatMax
    BY <2>1
  <2>6. \A i \in 1 .. n : -FloatMax <= 3 * v[i] /\ 3 * v[i] <= FloatMax
    BY <2>1, <2>5
  <2> HIDE DEF n, v, w, c, m
  <2>7. -FloatMax <= 3 * a /\ 3 * a <= FloatMax /\ -FloatMax <= 3 * b /\ 3 * b <= FloatMax
    BY <2>3, <2>5
  <2>8. c = a + b /\ abs(c) < Infinity /\ c \in Int /\ -(2 * FloatMax) <= 3 * c /\ 3 * c <= 2 * FloatMax
    <3>1. /\ a + b \in Int /\ -FloatMax <= a + b /\ a + b <= FloatMax /\ abs(a + b) < Infinity
          /\ -(2 * FloatMax) <= 3 * (a + b) /\ 3 * (a + b) <= 2 * FloatMax
      BY <2>3, <2>7, Thirds, Zenon
    <3>2. c = a + b
      BY <2>3, <3>1, Zenon
    <3> QED BY <3>1, <3>2
  <2>9. ASSUME NEW i \in 1 .. n
        PROVE  w[i] = abs(2 * v[i] - c) /\ 3 * w[i] <= 4 * FloatMax /\ w[i] \in Nat
    <3>1. v[i] \in Int /\ -FloatMax <= 3 * v[i] /\ 3 * v[i] <= FloatMax /\ w[i] = deviation(v[i], c)
      BY <2>1, <2>3, <2>6
    <3>2. abs(2 * v[i] - c) \in Nat /\ 3 * abs(2 * v[i] - c) <= 4 * FloatMax
      BY <2>8, <3>1, FourThirds
    <3>3. abs(2 * v[i] - c) <= 2 * FloatMax
      BY <2>8, <3>1, FourThirds
    <3>4. w[i] = abs(2 * v[i] - c)
      BY <2>8, <3>1, <3>3, Deviation
    <3> QED BY <3>2, <3>4
  <2>10. 3 * q <= 4 * FloatMax
    BY <2>3, <2>9
  <2>11. PICK P \in SUBSET (1 .. n) : /\ 2 * Cardinality(P) >= n
                                      /\ \A i \in P : 3 * abs(2 * v[i] - (a + b)) <= 2 * FloatMax
    BY <2>1, <2>3, <2>6, NearHalf
  <2>12. 3 * p <= 2 * FloatMax
    <3> DEFINE x == (2 * FloatMax) \div 3
    <3>1. x \in Int /\ \A y \in Int : 3 * y <= 2 * FloatMax <=> y <= x
      BY Limits
    <3> HIDE DEF x
    <3>2. \A i \in P : w[i] <= x
      <4> SUFFICES ASSUME NEW i \in P PROVE w[i] <= x
        OBVIOUS
      <4>1. w[i] = abs(2 * v[i] - (a + b)) /\ w[i] \in Nat
        BY <2>8, <2>9, <2>11
      <4>2. 3 * w[i] <= 2 * FloatMax
        BY <2>11, <4>1
      <4> QED BY <3>1, <4>1, <4>2
    <3>3. p <= x
      BY <2>1, <2>3, <2>11, <3>1, <3>2, HalfBelow, ZenonT(60)
    <3> QED BY <2>n, <3>1, <3>3
  <2>13. p + q <= 2 * FloatMax
    BY <2>n, <2>10, <2>12, Limits
  <2>14. FiniteSigma(m)
    BY <2>n, <2>13, Limits DEF FiniteSigma, MAD_TO_SIGMA
  <2> QED BY <2>4, <2>8, <2>14, Zenon
<1> QED BY <1>1, <1>2

-----------------------------------------------------------------------------
(* Other units.                                                            *)

LEMMA Restretched ==
    ASSUME NEW x \in Int, NEW c \in Int,
           -FloatMax <= 12 * x, 12 * x <= FloatMax, -FloatMax <= 6 * c, 6 * c <= FloatMax
    PROVE  /\ deviation(x, c) \in Nat /\ 3 * deviation(x, c) <= FloatMax
           /\ deviation(2 - 3 * x, 4 - 3 * c) = 3 * deviation(x, c)
<1> DEFINE y == abs(2 * x - c)
           x2 == 2 - 3 * x
           c2 == 4 - 3 * c
<1>1. y \in Nat /\ 3 * y <= FloatMax
  BY Limits DEF abs
<1>2. x2 \in Int /\ c2 \in Int /\ abs(2 * x2 - c2) = 3 * y
  BY DEF abs
<1>3. y <= 2 * FloatMax /\ 3 * y <= 2 * FloatMax
  BY <1>1, Limits
<1>4. deviation(x, c) = y
  BY <1>3, Deviation
<1> HIDE DEF x2, c2, y
<1>5. abs(2 * x2 - c2) <= 2 * FloatMax
  BY <1>2, <1>3
<1>6. deviation(x2, c2) = 3 * y
  BY <1>2, <1>5, Deviation
<1> QED BY <1>1, <1>4, <1>6 DEF x2, c2

LEMMA Twelfths ==
    ASSUME NEW a \in Int, NEW b \in Int,
           -FloatMax <= 12 * a, 12 * a <= FloatMax, -FloatMax <= 12 * b, 12 * b <= FloatMax
    PROVE  /\ a + b \in Int /\ -FloatMax <= a + b /\ a + b <= FloatMax
           /\ -FloatMax <= 6 * (a + b) /\ 6 * (a + b) <= FloatMax
           /\ (2 - 3 * b) + (2 - 3 * a) = 4 - 3 * (a + b)
           /\ -FloatMax <= 4 - 3 * (a + b) /\ 4 - 3 * (a + b) <= FloatMax
BY Limits

\* Readings in other units: every number of the detector changes its unit.
LEMMA Gauge ==
    ASSUME NEW s \in Seq(Int), ~(Len(s) < MIN_WINDOW),
           NEW t \in Seq(Int), Len(t) = Len(s),
           \A i \in 1 .. Len(s) : -FloatMax <= 12 * s[i] /\ 12 * s[i] <= FloatMax,
           \A i \in 1 .. Len(s) : t[i] = 2 - 3 * s[i]
    PROVE  /\ Spread(s) \in Nat /\ Spread(t) = 3 * Spread(s)
           /\ Distance(s) \in Nat /\ Distance(t) = 3 * Distance(s) /\ 3 * Distance(s) <= FloatMax
<1> DEFINE n == Len(s) - 1
           v == baseline(s)
           w == baseline(t)
           e == Deviations(s)
           f == Deviations(t)
           c == Center(s)
           x == s[Len(s)]
<1>1. /\ n \in Nat /\ n >= 1 /\ v \in Lists(n) /\ x \in Int /\ Len(s) \in 1 .. Len(s)
      /\ \A i \in 1 .. n : v[i] = s[i] /\ s[i] \in Int /\ i \in 1 .. Len(s)
  BY Baseline
<1>2. w \in Lists(n) /\ \A i \in 1 .. n : w[i] = t[i]
  BY Baseline
<1>3. PICK a, b, p, q : Made(s, n, a, b, p, q)
  BY Making
<1>4. PICK a2, b2, p2, q2 : Made(t, n, a2, b2, p2, q2)
  BY Making
<1>5. /\ Middle(v, n, a, b) /\ a \in Int /\ b \in Int /\ \E i, j \in 1 .. n : a = s[i] /\ b = s[j]
      /\ -FloatMax <= a + b /\ a + b <= FloatMax => c = a + b
  BY <1>3, Zenon DEF Made
<1>6. /\ e \in Lists(n) /\ Middle(e, n, p, q) /\ \E i, j \in 1 .. n : p = e[i] /\ q = e[j]
      /\ \A i \in 1 .. n : e[i] = deviation(s[i], c)
      /\ p \in Nat /\ q \in Nat
      /\ p + q <= 2 * FloatMax => Spread(s) = p + q
  BY <1>3, Zenon DEF Made
<1>7. /\ Middle(w, n, a2, b2)
      /\ -FloatMax <= a2 + b2 /\ a2 + b2 <= FloatMax => Center(t) = a2 + b2
  BY <1>4, Zenon DEF Made
<1>8. /\ f \in Lists(n) /\ Middle(f, n, p2, q2)
      /\ \A i \in 1 .. n : f[i] = deviation(t[i], Center(t))
      /\ p2 + q2 <= 2 * FloatMax => Spread(t) = p2 + q2
  BY <1>4, Zenon DEF Made
<1>9. \A i \in 1 .. n : s[i] \in Int /\ -FloatMax <= 12 * s[i] /\ 12 * s[i] <= FloatMax /\ t[i] = 2 - 3 * s[i]
  BY <1>1
<1>10. -FloatMax <= 12 * x /\ 12 * x <= FloatMax /\ t[Len(t)] = 2 - 3 * x
  BY <1>1
<1>11. Distance(s) = deviation(x, c) /\ Distance(t) = deviation(t[Len(t)], Center(t))
  BY DEF Distance
<1> HIDE DEF n, v, w, e, f, c, x
<1>12. a2 = 2 - 3 * b /\ b2 = 2 - 3 * a
  <2>1. \A i \in 1 .. n : w[i] = 2 - 3 * v[i]
    BY <1>1, <1>2, <1>9
  <2>2. Middle(w, n, 2 - 3 * b, 2 - 3 * a)
    BY <1>1, <1>2, <1>5, <2>1, Mirrored
  <2> QED BY <1>1, <1>2, <1>7, <2>2, MiddleOrder
<1>13. -FloatMax <= 12 * a /\ 12 * a <= FloatMax /\ -FloatMax <= 12 * b /\ 12 * b <= FloatMax
  BY <1>5, <1>9
<1>14. /\ a + b \in Int /\ -FloatMax <= a + b /\ a + b <= FloatMax
       /\ -FloatMax <= 6 * (a + b) /\ 6 * (a + b) <= FloatMax
       /\ (2 - 3 * b) + (2 - 3 * a) = 4 - 3 * (a + b)
       /\ -FloatMax <= 4 - 3 * (a + b) /\ 4 - 3 * (a + b) <= FloatMax
  BY <1>5, <1>13, Twelfths
<1>15. c = a + b /\ Center(t) = 4 - 3 * c
  BY <1>5, <1>7, <1>12, <1>14
<1>16. c \in Int /\ -FloatMax <= 6 * c /\ 6 * c <= FloatMax
  BY <1>14, <1>15
<1>17. ASSUME NEW i \in 1 .. n PROVE f[i] = 3 * e[i] /\ e[i] \in Nat /\ 3 * e[i] <= FloatMax
  <2>1. f[i] = deviation(2 - 3 * s[i], 4 - 3 * c) /\ e[i] = deviation(s[i], c)
    BY <1>6, <1>8, <1>9, <1>15
  <2>2. s[i] \in Int /\ -FloatMax <= 12 * s[i] /\ 12 * s[i] <= FloatMax
    BY <1>9
  <2> QED BY <1>16, <2>1, <2>2, Restretched
<1>18. p2 = 3 * p /\ q2 = 3 * q
  <2>1. Middle(f, n, 3 * p, 3 * q)
    BY <1>1, <1>6, <1>8, <1>17, Scaled
  <2> QED BY <1>1, <1>8, <2>1, MiddleOrder
<1>19. 3 * p <= FloatMax /\ 3 * q <= FloatMax
  BY <1>6, <1>17
<1>20. p + q \in Nat /\ p2 + q2 = 3 * (p + q) /\ p + q <= 2 * FloatMax /\ p2 + q2 <= 2 * FloatMax
  <2>1. p \in Nat /\ q \in Nat
    BY <1>6
  <2> QED BY <1>18, <1>19, <2>1, Limits
<1>21. Spread(s) \in Nat /\ Spread(t) = 3 * Spread(s)
  BY <1>6, <1>8, <1>20
<1>22. Distance(s) \in Nat /\ Distance(t) = 3 * Distance(s) /\ 3 * Distance(s) <= FloatMax
  BY <1>1, <1>10, <1>11, <1>15, <1>16, Restretched
<1> QED BY <1>21, <1>22

\* A fraction that is extended is the same fraction, capped or not.
LEMMA Extended ==
    ASSUME NEW d \in Nat, NEW m \in Nat, m # 0, 3 * d <= FloatMax
    PROVE  LET z == zscore(d, m)
               y == zscore(3 * d, 3 * m)
           IN  /\ y.num >= Threshold * y.den <=> z.num >= Threshold * z.den
               /\ capped(y).num * capped(z).den = capped(z).num * capped(y).den
<1> DEFINE z == zscore(d, m)
           y == zscore(3 * d, 3 * m)
           k == 2 * 1349 * d
           T == Threshold
<1>1. d # Infinity /\ 3 * d # Infinity
  BY Limits
<1>2. k \in Nat /\ T \in Nat /\ 2 * 1349 * (3 * d) = 3 * k
  BY Limits
<1>3. z = [num |-> k, den |-> m] /\ y = [num |-> 3 * k, den |-> 3 * m]
  BY <1>1, <1>2 DEF zscore, MAD_TO_SIGMA
<1>4. z.num = k /\ z.den = m /\ y.num = 3 * k /\ y.den = 3 * m
  <2> HIDE DEF k, y, z
  <2> QED BY <1>3
<1> HIDE DEF k, T, y, z
<1>5. y.num >= T * y.den <=> z.num >= T * z.den
  <2>1. T * (3 * m) = 3 * (T * m) /\ T * m \in Int
    BY <1>2
  <2>2. 3 * k >= 3 * (T * m) <=> k >= T * m
    <3> DEFINE u == T * m
    <3>1. u \in Int
      BY <2>1
    <3> HIDE DEF u
    <3>2. 3 * k >= 3 * u <=> k >= u
      BY <1>2, <3>1
    <3> QED BY <3>2 DEF u
  <2> QED BY <1>4, <2>1, <2>2
<1>6. (3 * k) \div 2000000 >= 3 * m <=> k \div 2000000 >= m
  BY <1>2
<1>7. /\ capped(z) = IF k \div 2000000 >= m THEN [num |-> 2000000, den |-> 1] ELSE z
      /\ capped(y) = IF (3 * k) \div 2000000 >= 3 * m THEN [num |-> 2000000, den |-> 1] ELSE y
  BY <1>4 DEF capped, SATURATED_SCORE
<1>8. capped(y).num * capped(z).den = capped(z).num * capped(y).den
  <2>1. CASE k \div 2000000 >= m
    <3>1. capped(z) = [num |-> 2000000, den |-> 1] /\ capped(y) = [num |-> 2000000, den |-> 1]
      BY <1>6, <1>7, <2>1
    <3> QED BY <3>1
  <2>2. CASE ~(k \div 2000000 >= m)
    <3>1. capped(z) = z /\ capped(y) = y
      BY <1>6, <1>7, <2>2
    <3>2. (3 * k) * m = k * (3 * m)
      BY <1>2
    <3> QED BY <1>4, <3>1, <3>2
  <2> QED BY <2>1, <2>2
<1> QED BY <1>5, <1>8 DEF y, z, T

\* The verdict and the score are the same.
LEMMA SameVerdict ==
    ASSUME NEW s \in Seq(Int), ~(Len(s) < MIN_WINDOW),
           NEW t \in Seq(Int), Len(t) = Len(s),
           \A i \in 1 .. Len(s) : -FloatMax <= 12 * s[i] /\ 12 * s[i] <= FloatMax,
           \A i \in 1 .. Len(s) : t[i] = 2 - 3 * s[i]
    PROVE  /\ score_window(t).anomaly = score_window(s).anomaly
           /\ score_window(t).score.num * score_window(s).score.den =
                score_window(s).score.num * score_window(t).score.den
<1> DEFINE m == Spread(s)
           d == Distance(s)
           z == zscore(d, m)
           y == zscore(3 * d, 3 * m)
<1>1. m \in Nat /\ d \in Nat /\ Spread(t) = 3 * m /\ Distance(t) = 3 * d /\ 3 * d <= FloatMax
  BY Gauge
<1>2. /\ m = 0 => /\ score_window(s).score.num = IF d = 0 THEN 0 ELSE SATURATED_SCORE
                  /\ score_window(s).score.den = 1 /\ score_window(s).anomaly = (d # 0)
      /\ m # 0 => /\ score_window(s).score = capped(z)
                  /\ score_window(s).anomaly = (z.num >= Threshold * z.den)
  BY Parts, Zenon
<1>3. /\ 3 * m = 0 => /\ score_window(t).score.num = IF 3 * d = 0 THEN 0 ELSE SATURATED_SCORE
                      /\ score_window(t).score.den = 1 /\ score_window(t).anomaly = (3 * d # 0)
      /\ 3 * m # 0 => /\ score_window(t).score = capped(y)
                      /\ score_window(t).anomaly = (y.num >= Threshold * y.den)
  <2>1. ~(Len(t) < MIN_WINDOW)
    OBVIOUS
  <2> QED BY <1>1, <2>1, Parts, Zenon
<1>4. (3 * m = 0 <=> m = 0) /\ (3 * d = 0 <=> d = 0)
  BY <1>1
<1> HIDE DEF m, d
<1>5. CASE m = 0
  <2>1. score_window(t).anomaly = score_window(s).anomaly
    BY <1>2, <1>3, <1>4, <1>5, Zenon
  <2>2. /\ score_window(t).score.num = score_window(s).score.num
        /\ score_window(t).score.den = 1 /\ score_window(s).score.den = 1
    BY <1>2, <1>3, <1>4, <1>5, Zenon
  <2> QED BY <2>1, <2>2
<1>6. CASE m # 0
  <2>1. /\ y.num >= Threshold * y.den <=> z.num >= Threshold * z.den
        /\ capped(y).num * capped(z).den = capped(z).num * capped(y).den
    BY <1>1, <1>6, Extended
  <2> HIDE DEF y, z
  <2>2. score_window(t).anomaly = score_window(s).anomaly
    <3> DEFINE g == y.num >= Threshold * y.den
               h == z.num >= Threshold * z.den
    <3>1. score_window(t).anomaly = g /\ score_window(s).anomaly = h
      BY <1>2, <1>3, <1>4, <1>6, Zenon
    <3>2. g = h
      BY <2>1
    <3> HIDE DEF g, h
    <3> QED BY <3>1, <3>2, Zenon
  <2>3. score_window(t).score = capped(y) /\ score_window(s).score = capped(z)
    BY <1>2, <1>3, <1>4, <1>6, Zenon
  <2> QED BY <2>1, <2>2, <2>3
<1> QED BY <1>5, <1>6

-----------------------------------------------------------------------------
(* What the pod answers.                                                   *)

LEMMA AnswerTypes ==
    ASSUME TypeInv, NEW a \in Answers
    PROVE  a.readings \in Seq(Int) /\ a.reply = score(a.readings)
<1>1. PICK r \in Requests : a = [readings |-> req[r].readings, reply |-> score(req[r].readings)]
  BY DEF Answers, With
<1>2. a.readings = req[r].readings /\ a.reply = score(req[r].readings)
  BY <1>1
<1>3. req[r].readings \in Readings
  BY DEF TypeInv, Request
<1>4. Readings \subseteq Seq(Int)
  <2>1. \A q \in Requests : Windows[q] \subseteq Seq(Int)
    BY ScorerAssumption
  <2>2. ASSUME NEW t \in Readings PROVE t \in Seq(Int)
    <3>1. t = << >> \/ \E q \in Requests : t \in Windows[q]
      BY <2>2, Zenon DEF Readings
    <3>2. << >> \in Seq(Int)
      OBVIOUS
    <3> QED BY <2>1, <3>1, <3>2
  <2> QED BY <2>2
<1> QED BY <1>2, <1>3, <1>4

\* The sample of an answer and the part of score_window that made it.
LEMMA Samples ==
    ASSUME TypeInv, NEW a \in Scored
    PROVE  /\ a.readings \in Seq(Int) /\ a.reply = score(a.readings) /\ a.reply.status = 200
           /\ a.reply.result = score_window(a.readings)
           /\ a \in Judged <=> ~(Len(a.readings) < MIN_WINDOW)
           /\ Sample(a) = IF Len(a.readings) < MIN_WINDOW THEN a.readings ELSE baseline(a.readings)
<1> DEFINE s == a.readings
<1>1. s \in Seq(Int) /\ a.reply = score(s) /\ a.reply.status = 200
  BY AnswerTypes DEF Scored
<1>2. a.reply.result = score_window(s)
  BY <1>1, Reply
<1>3. a \in Judged <=> score_window(s).method # "insufficient_data"
  BY <1>2 DEF Judged
<1>4. Len(s) < MIN_WINDOW => score_window(s).method = "insufficient_data"
  BY DEF score_window
<1>5. ~(Len(s) < MIN_WINDOW) => score_window(s).method # "insufficient_data"
  BY <1>1, Parts
<1> QED BY <1>1, <1>2, <1>3, <1>4, <1>5 DEF Sample, baseline

LEMMA RobustAnswers == TypeInv => RobustScore
<1> SUFFICES ASSUME TypeInv PROVE MedianHalves /\ SpikeNotMasked
  BY DEF RobustScore
<1>1. MedianHalves
  <2> SUFFICES ASSUME NEW a \in Scored
               PROVE  /\ 2 * Cardinality({i \in DOMAIN Sample(a) : 2 * Sample(a)[i] <= a.reply.result.median}) >= Len(Sample(a))
                      /\ 2 * Cardinality({i \in DOMAIN Sample(a) : 2 * Sample(a)[i] >= a.reply.result.median}) >= Len(Sample(a))
    BY DEF MedianHalves
  <2> DEFINE s == a.readings
             v == Sample(a)
             m == a.reply.result.median
  <2>1. /\ s \in Seq(Int) /\ score(s).status = 200 /\ m = score(s).result.median
        /\ v = IF Len(s) < MIN_WINDOW THEN s ELSE baseline(s)
    BY Samples
  <2>2. DOMAIN v = 1 .. Len(v)
    <3>1. CASE Len(s) < MIN_WINDOW
      BY <2>1, <3>1
    <3>2. CASE ~(Len(s) < MIN_WINDOW)
      BY <2>1, <3>2, Baseline
    <3> QED BY <3>1, <3>2
  <2> HIDE DEF s, v, m
  <2>3. 2 * Cardinality(LowHalf(v, Len(v), m)) >= Len(v) /\ 2 * Cardinality(HighHalf(v, Len(v), m)) >= Len(v)
    BY <2>1, HalvedSample
  <2>4. /\ {i \in DOMAIN v : 2 * v[i] <= m} = LowHalf(v, Len(v), m)
        /\ {i \in DOMAIN v : 2 * v[i] >= m} = HighHalf(v, Len(v), m)
    BY <2>2 DEF LowHalf, HighHalf
  <2> QED BY <2>3, <2>4, Zenon DEF v, m
<1>2. SpikeNotMasked
  <2> SUFFICES ASSUME NEW a \in Judged,
                      NEW lo \in {Sample(a)[i] : i \in DOMAIN Sample(a)},
                      NEW hi \in {Sample(a)[i] : i \in DOMAIN Sample(a)},
                      lo <= hi, 2 * CountIn(Sample(a), lo, hi) > Len(Sample(a)),
                      a.readings[Len(a.readings)] > hi,
                      MAD_TO_SIGMA * (a.readings[Len(a.readings)] - hi) >= Threshold * (hi - lo)
               PROVE  a.reply.result.anomaly
    BY DEF SpikeNotMasked
  <2> DEFINE s == a.readings
             v == Sample(a)
             n == Len(s) - 1
  <2>1. /\ s \in Seq(Int) /\ score(s).status = 200 /\ a.reply = score(s)
        /\ v = baseline(s) /\ ~(Len(s) < MIN_WINDOW)
    BY Samples DEF Judged
  <2>2. /\ n \in Nat /\ DOMAIN v = 1 .. n /\ Len(v) = n
        /\ \A i \in 1 .. n : v[i] = s[i] /\ s[i] \in Int
    <3> HIDE DEF v, s
    <3>1. /\ n \in Nat /\ DOMAIN baseline(s) = 1 .. n /\ Len(baseline(s)) = n
          /\ \A i \in 1 .. n : baseline(s)[i] = s[i] /\ s[i] \in Int
      BY <2>1, Baseline, SMTT(40)
    <3> QED BY <2>1, <3>1
  <2>3. lo \in Int /\ hi \in Int
    BY <2>2
  <2>c. 2 * CountIn(v, lo, hi) > Len(v)
    OBVIOUS
  <2>4. 2 * Cardinality(Inside(s, n, lo, hi)) > n
    <3>1. {i \in DOMAIN v : lo <= v[i] /\ v[i] <= hi} = Inside(s, n, lo, hi)
      BY <2>2 DEF Inside
    <3>2. CountIn(v, lo, hi) = Cardinality(Inside(s, n, lo, hi))
      BY <3>1 DEF CountIn
    <3> HIDE DEF v, s, n
    <3> QED BY <2>2, <2>c, <3>2
  <2>5. score(s).result.anomaly
    BY <2>1, <2>3, <2>4, SpikeFound
  <2> QED BY <2>1, <2>5
<1> QED BY <1>1, <1>2

\* Every score that the pod answers with is a robust one: half of the readings
\* it was compared with lie on either side of the reported median, and no
\* outliers among them, be they large or many, mask a spike.
THEOREM ScoresAreRobust == Spec => []RobustScore
BY ScorerTypes, RobustAnswers, PTL

LEMMA FreeUnits == TypeInv => UnitsDoNotMatter
<1> SUFFICES ASSUME TypeInv, NEW a \in Judged,
                    \A i \in DOMAIN a.readings : 12 * abs(a.readings[i]) <= FloatMax
             PROVE  LET other == score_window([i \in DOMAIN a.readings |-> 2 - 3 * a.readings[i]])
                        this  == a.reply.result
                    IN  /\ other.anomaly = this.anomaly
                        /\ other.score.num * this.score.den = this.score.num * other.score.den
  BY DEF UnitsDoNotMatter
<1> DEFINE s == a.readings
           t == [i \in DOMAIN s |-> 2 - 3 * s[i]]
<1>1. s \in Seq(Int) /\ ~(Len(s) < MIN_WINDOW) /\ a.reply.result = score_window(s)
  BY Samples DEF Judged
<1>2. DOMAIN s = 1 .. Len(s) /\ Len(s) \in Nat /\ \A i \in 1 .. Len(s) : s[i] \in Int
  BY <1>1
<1>3. \A i \in 1 .. Len(s) : -FloatMax <= 12 * s[i] /\ 12 * s[i] <= FloatMax
  <2> SUFFICES ASSUME NEW i \in 1 .. Len(s) PROVE -FloatMax <= 12 * s[i] /\ 12 * s[i] <= FloatMax
    OBVIOUS
  <2>1. s[i] \in Int /\ 12 * abs(s[i]) <= FloatMax
    BY <1>2
  <2> HIDE DEF s
  <2> QED BY <2>1, Limits DEF abs
<1>4. t \in Seq(Int) /\ Len(t) = Len(s) /\ \A i \in 1 .. Len(s) : t[i] = 2 - 3 * s[i]
  BY <1>2
<1> HIDE DEF t
<1>5. /\ score_window(t).anomaly = score_window(s).anomaly
      /\ score_window(t).score.num * score_window(s).score.den =
           score_window(s).score.num * score_window(t).score.den
  BY <1>1, <1>3, <1>4, SameVerdict
<1> QED BY <1>1, <1>5 DEF t

\* Readings in other units, with another origin and with the sign reversed, get
\* the same score and the same verdict.
THEOREM UnitsAreFree == Spec => []UnitsDoNotMatter
BY ScorerTypes, FreeUnits, PTL

LEMMA EncodableAnswers == TypeInv => AlwaysEncodable
<1> SUFFICES ASSUME TypeInv PROVE AlwaysEncodable
  OBVIOUS
<1>1. ASSUME NEW a \in Scored
      PROVE  a.reply.result.score.den > 0 /\ a.reply.result.score.num <= SATURATED_SCORE * a.reply.result.score.den
  <2>1. a.readings \in Seq(Int) /\ a.reply.result = score_window(a.readings)
    BY Samples
  <2> QED BY <2>1, ScoreCapped
<1>2. ASSUME NEW a \in Answers, a.reply.status = 500,
             ~ \E i \in DOMAIN a.readings : 3 * abs(a.readings[i]) > FloatMax
      PROVE  FALSE
  <2> DEFINE s == a.readings
  <2>1. s \in Seq(Int) /\ score(s).status = 500
    BY <1>2, AnswerTypes
  <2>2. \A i \in 1 .. Len(s) : -FloatMax <= 3 * s[i] /\ 3 * s[i] <= FloatMax
    <3> SUFFICES ASSUME NEW i \in 1 .. Len(s) PROVE -FloatMax <= 3 * s[i] /\ 3 * s[i] <= FloatMax
      OBVIOUS
    <3>1. s[i] \in Int /\ ~(3 * abs(s[i]) > FloatMax)
      BY <1>2, <2>1
    <3> HIDE DEF s
    <3> QED BY <3>1, Limits DEF abs
  <2> HIDE DEF s
  <2>4. _finite(s)
    <3> SUFFICES ASSUME NEW i \in 1 .. Len(s) PROVE s[i] # NotFinite
      BY <2>1 DEF _finite
    <3> QED BY <2>1, <2>2, Limits DEF NotFinite, Infinity
  <2>3. valid(s) /\ ~(abs(score_window(s).median) < Infinity /\ score_window(s).finite)
    BY <2>1, <2>4, Reply
  <2> QED BY <2>1, <2>2, <2>3, Moderate
<1> QED BY <1>1, <1>2 DEF AlwaysEncodable

\* No score is out of the range of JSON numbers, and no numbers within a third
\* of that range make the answer fail.
THEOREM AnswersEncode == Spec => []AlwaysEncodable
BY ScorerTypes, EncodableAnswers, PTL
==============================================================================
