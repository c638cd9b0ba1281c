-------------------------------- MODULE Scorer -------------------------------
(***************************************************************************)
(* One pod of the scorer (services/scorer/app/main.py) from start to exit: *)
(* the process is a single event loop, run by uvicorn, that answers        *)
(* requests and probes, and a SIGTERM hook that runs on the loop's thread. *)
(* The hook sets the drain flag and sleeps: until it returns nothing is    *)
(* read and nothing is answered, while the kernel goes on accepting        *)
(* connections for the listener.                                           *)
(***************************************************************************)
EXTENDS Scoring

CONSTANTS
    Requests,          \* requests the gateway sends to this pod, one each
    Windows,           \* the readings each of them may carry
    DrainDelay,        \* DRAIN_DELAY_SECONDS
    HandlerTime,       \* longest time the loop takes over one request
    GracefulTimeout,   \* uvicorn --timeout-graceful-shutdown
    TerminationGraces, \* values of the pod's terminationGracePeriodSeconds
    RouteDelay,        \* time the data plane takes to stop routing to the pod
    Patience,          \* the gateway's UPSTREAM_TIMEOUT
    ProbePeriod, ProbeTimeout, FailureThreshold  \* the liveness probe

ASSUME ScorerAssumption ==
    /\ DrainDelay \in Nat /\ HandlerTime \in Nat /\ GracefulTimeout \in Nat
    /\ Windows \in [Requests -> SUBSET Seq(Int)]
    /\ TerminationGraces \subseteq Nat /\ RouteDelay \in Nat /\ Patience \in Nat
    /\ ProbePeriod \in Nat \ {0} /\ ProbeTimeout \in Nat /\ FailureThreshold \in Nat \ {0}

VARIABLES
    phase,    \* where the process is
    probes,   \* ProbeState: started and draining
    timer,    \* time spent in the current phase, from the SIGTERM on
    term,     \* time since SIGTERM, or NotSent
    grace,    \* terminationGracePeriodSeconds of this pod
    ready,    \* the kubelet's view of readiness
    routed,   \* the data plane sends requests here
    req,      \* the state of each request
    live      \* the kubelet's liveness probe

process == <<phase, probes, timer>>
cluster == <<ready, routed>>
pod == <<term, grace>>
vars == <<process, pod, cluster, req, live>>

NotSent == -1
NoProbe == -1

\* The process is starting, serving, draining (the hook sleeps), exiting (until
\* uvicorn closes the socket), closing (until its handlers have ended), and over.
Over == phase \in {"exited", "killed"}

\* The socket listens until uvicorn closes it, also while the hook sleeps.
Listening == phase \in {"serving", "draining", "exiting"}

\* The loop's thread is running callbacks.
LoopRuns == phase \in {"serving", "exiting", "closing"}

\* A request that has not been sent.  Later it is sent and waits to be read,
\* running in its handler, answered; or refused by a closed socket, reset
\* unread, timedOut by its caller, or cut off in its handler.
Unsent == [st |-> "idle", wait |-> 0, ran |-> 0, readings |-> << >>]
With(st) == {r \in Requests : req[r].st = st}

Init ==
    /\ phase = "starting"
    /\ probes = [started |-> FALSE, draining |-> FALSE]
    /\ timer = 0 /\ term = NotSent /\ grace \in TerminationGraces
    /\ ready = FALSE /\ routed = FALSE
    /\ req = [r \in Requests |-> Unsent]
    /\ live = [due |-> ProbePeriod, age |-> NoProbe, strikes |-> 0]

-----------------------------------------------------------------------------
(* The process.                                                            *)

\* lifespan up to its yield; uvicorn then opens the listener.
Start ==
    /\ phase = "starting"
    /\ phase' = "serving"
    /\ probes' = [probes EXCEPT !.started = TRUE]
    /\ UNCHANGED <<timer, pod, cluster, req, live>>

\* Seeded fault: the hook is installed over itself and sleeps twice.
Fault_sleptTwice == timer = 2 * DrainDelay + 1

\* time.sleep(drain_delay_seconds) is over.
slept == timer = DrainDelay

\* Seeded fault: the hook is installed without remembering uvicorn's handler.
Fault_WakeWithoutPrevious ==
    /\ phase = "draining" /\ slept
    /\ phase' = "serving" /\ timer' = 0
    /\ UNCHANGED <<probes, pod, cluster, req, live>>

\* The hook calls the previous handler, which tells uvicorn to exit, and
\* returns; the loop runs again.
Wake ==
    /\ phase = "draining" /\ slept
    /\ phase' = "exiting" /\ timer' = 0
    /\ UNCHANGED <<probes, pod, cluster, req, live>>

\* uvicorn's main loop notices, closes the listener and the connections that
\* have no request under way.  What was still unread is reset, the kubelet's
\* probe included, which has then failed.
CloseListener ==
    /\ phase = "exiting"
    /\ phase' = "closing" /\ timer' = 0
    /\ req' = [r \in Requests |-> IF r \in With("sent") THEN [req[r] EXCEPT !.st = "reset"] ELSE req[r]]
    /\ live' = IF live.age = NoProbe THEN live ELSE [live EXCEPT !.age = NoProbe, !.strikes = @ + 1]
    /\ UNCHANGED <<probes, pod, cluster>>

\* The process ends: its handlers are cut off, what is unread is reset.
CutOff == [r \in Requests |-> CASE req[r].st = "running" -> [req[r] EXCEPT !.st = "cut"]
                               [] req[r].st = "sent"    -> [req[r] EXCEPT !.st = "reset"]
                               [] OTHER                 -> req[r]]

\* Seeded fault: uvicorn is told not to wait for running handlers.
Fault_ExitAtOnce ==
    /\ phase = "closing"
    /\ phase' = "exited"
    /\ probes' = [probes EXCEPT !.draining = TRUE]
    /\ req' = CutOff
    /\ UNCHANGED <<timer, pod, cluster, live>>

\* uvicorn has waited for the running handlers, or long enough; lifespan
\* resumes after its yield and the process exits.
Exit ==
    /\ phase = "closing"
    /\ With("running") = {} \/ timer = GracefulTimeout
    /\ phase' = "exited"
    /\ probes' = [probes EXCEPT !.draining = TRUE]
    /\ req' = CutOff
    /\ UNCHANGED <<timer, pod, cluster, live>>

\* The loop reads a request and starts its handler.
Read(r) ==
    /\ phase \in {"serving", "exiting"} /\ req[r].st = "sent"
    /\ req' = [req EXCEPT ![r].st = "running"]
    /\ UNCHANGED <<process, pod, cluster, live>>

\* The handler answers, with score(req[r].readings).
Respond(r) ==
    /\ LoopRuns /\ req[r].st = "running"
    /\ req' = [req EXCEPT ![r].st = "answered"]
    /\ UNCHANGED <<process, pod, cluster, live>>

\* /readyz, asked by the kubelet and answered by the loop.
readyz ==
    /\ phase \in {"serving", "exiting"}
    /\ ready' = (probes.started /\ ~probes.draining)
    /\ UNCHANGED <<process, pod, routed, req, live>>

\* /healthz answers the liveness probe that is under way.
healthz ==
    /\ phase \in {"serving", "exiting"} /\ live.age # NoProbe
    /\ live' = [live EXCEPT !.age = NoProbe, !.strikes = 0]
    /\ UNCHANGED <<process, pod, cluster, req>>

-----------------------------------------------------------------------------
(* The cluster and the callers.                                            *)

\* The pod is deleted.  The hook, once installed, sets the drain flag and goes
\* to sleep; before that uvicorn's own handler ends the process.
Sigterm ==
    /\ phase \in {"starting", "serving"} /\ term = NotSent
    /\ term' = 0 /\ timer' = 0
    /\ IF phase = "starting"
       THEN phase' = "exited" /\ UNCHANGED probes
       ELSE phase' = "draining" /\ probes' = [probes EXCEPT !.draining = TRUE]
    /\ UNCHANGED <<grace, cluster, req, live>>

\* The grace is over, or the liveness probe has failed too often.
Kill ==
    /\ ~Over
    /\ term = grace \/ live.strikes >= FailureThreshold
    /\ phase' = "killed"
    /\ req' = CutOff
    /\ UNCHANGED <<probes, timer, pod, cluster, live>>

Route ==
    /\ ready /\ ~routed /\ term = NotSent
    /\ routed' = TRUE
    /\ UNCHANGED <<process, pod, ready, req, live>>

Unroute ==
    /\ routed /\ (~ready \/ term # NotSent)
    /\ routed' = FALSE
    /\ UNCHANGED <<process, pod, ready, req, live>>

\* The kubelet sends a liveness probe, once the startup probe has passed; a
\* closed socket refuses it.
Probe ==
    /\ ~Over /\ live.due = 0
    /\ live' = IF Listening
               THEN [live EXCEPT !.due = ProbePeriod, !.age = 0]
               ELSE [live EXCEPT !.due = ProbePeriod, !.strikes = @ + 1]
    /\ UNCHANGED <<process, pod, cluster, req>>

\* The probe is not answered in time.
ProbeFails ==
    /\ ~Over /\ live.age = ProbeTimeout
    /\ live' = [live EXCEPT !.age = NoProbe, !.strikes = @ + 1]
    /\ UNCHANGED <<process, pod, cluster, req>>

\* A request is routed here, perhaps to a pod that is gone.
Arrive(r, readings) ==
    /\ routed /\ req[r].st = "idle"
    /\ req' = [req EXCEPT ![r].st = IF Listening THEN "sent" ELSE "refused",
                          ![r].readings = readings]
    /\ UNCHANGED <<process, pod, cluster, live>>

\* Its caller has waited long enough.
GiveUp(r) ==
    /\ req[r].st \in {"sent", "running"} /\ req[r].wait = Patience
    /\ req' = [req EXCEPT ![r].st = "timedOut"]
    /\ UNCHANGED <<process, pod, cluster, live>>

\* A request a tick later.
aged(q) ==
    CASE q.st = "sent"    -> [q EXCEPT !.wait = @ + 1]
      [] q.st = "running" -> [q EXCEPT !.wait = @ + 1, !.ran = IF LoopRuns THEN @ + 1 ELSE @]
      [] OTHER            -> q

\* The clock.  It waits for whoever is due; a loop that runs reads what there
\* is to read and spends at most HandlerTime on a request.
Tick ==
    /\ ~Over
    /\ phase = "draining" => ~slept
    /\ phase # "exiting"
    /\ phase = "closing" => timer < GracefulTimeout /\ With("running") # {}
    /\ LoopRuns => With("sent") = {} /\ live.age = NoProbe
    /\ \A r \in With("running") : LoopRuns => req[r].ran < HandlerTime
    /\ \A r \in With("sent") \cup With("running") : req[r].wait < Patience
    /\ term # NotSent => term < grace
    /\ term # NotSent /\ routed => term < RouteDelay
    /\ live.due > 0 /\ live.strikes < FailureThreshold
    /\ live.age # NoProbe => live.age < ProbeTimeout
    /\ timer' = IF term = NotSent THEN 0 ELSE timer + 1
    /\ term' = IF term = NotSent THEN NotSent ELSE term + 1
    /\ live' = [live EXCEPT !.due = IF probes.started THEN @ - 1 ELSE @, !.age = IF @ = NoProbe THEN NoProbe ELSE @ + 1]
    /\ req' = [r \in Requests |-> aged(req[r])]
    /\ UNCHANGED <<phase, probes, grace, cluster>>

Loop == Start \/ Wake \/ CloseListener \/ Exit \/ readyz \/ healthz

Next ==
    \/ Loop
    \/ \E r \in Requests : Read(r) \/ Respond(r) \/ GiveUp(r)
    \/ \E r \in Requests : \E readings \in Windows[r] : Arrive(r, readings)
    \/ Sigterm \/ Kill \/ Route \/ Unroute \/ Probe \/ ProbeFails
    \/ Tick

Spec == Init /\ [][Next]_vars

\* Whoever has something to finish finishes it, and time passes.
Progress ==
    \/ Wake \/ CloseListener \/ Exit \/ healthz \/ Unroute \/ Probe \/ ProbeFails \/ Tick
    \/ \E r \in Requests : Read(r) \/ Respond(r) \/ GiveUp(r)

FairSpec == Spec /\ WF_vars(Progress)

-----------------------------------------------------------------------------
(* Properties of the process.                                              *)

\* The grace leaves time for the hook's sleep and for uvicorn's shutdown.
Generous == DrainDelay + GracefulTimeout < grace

\* The hook "waits for the endpoints controller to propagate the NotReady
\* state": while the pod closes no request is sent to its closed socket.  And,
\* with such a grace, none is sent to a pod that is gone, and no shutdown cuts
\* off a request whose handler has begun, although it stands still while the
\* hook sleeps.
NoneDropped ==
    /\ ~Over => With("refused") = {}
    /\ Generous => With("refused") = {} /\ With("cut") = {}

\* The loop is asleep for the whole drain delay and answers no probe, but not
\* for as long as it takes the kubelet to lose faith in the pod.
LivenessSurvives == live.strikes < FailureThreshold

\* A pod that was told to stop stops by itself, if it is given that time.
Terminates == term # NotSent /\ Generous ~> phase = "exited"

\* "Without this [...] the data plane keeps routing requests it can no longer
\* serve": every request that was routed here is answered.
NoneLost == With("timedOut") \cup With("reset") = {}

-----------------------------------------------------------------------------
(* Properties of the answers.                                              *)

Answers == {[readings |-> req[r].readings, reply |-> score(req[r].readings)] :
              r \in With("answered")}
Scored == {a \in Answers : a.reply.status = 200}
Judged == {a \in Scored : a.reply.result.method # "insufficient_data"}

\* The readings the reported median is the median of.
Sample(a) == IF a \in Judged THEN SubSeq(a.readings, 1, Len(a.readings) - 1) ELSE a.readings
CountIn(s, lo, hi) == Cardinality({i \in DOMAIN s : lo <= s[i] /\ s[i] <= hi})

\* The reported median has half of the sample on either side.
MedianHalves ==
    \A a \in Scored :
        LET s == Sample(a)
            m == a.reply.result.median
        IN  /\ 2 * Cardinality({i \in DOMAIN s : 2 * s[i] <= m}) >= Len(s)
            /\ 2 * Cardinality({i \in DOMAIN s : 2 * s[i] >= m}) >= Len(s)

\* Outliers in the baseline do not mask a spike, which is what the median is
\* for: when most of the baseline lies in [lo, hi], a reading that is far from
\* that interval, by the interval's width, is an anomaly whatever the rest is.
SpikeNotMasked ==
    \A a \in Judged :
        LET s == Sample(a)
            x == a.readings[Len(a.readings)]
            values == {s[i] : i \in DOMAIN s}
        IN  \A lo, hi \in values :
               /\ lo <= hi /\ 2 * CountIn(s, lo, hi) > Len(s)
               /\ x > hi /\ MAD_TO_SIGMA * (x - hi) >= Threshold * (hi - lo)
               => a.reply.result.anomaly

\* The score is a robust one and not "computed from the very outliers being
\* looked for" (scoring.py): both hold.
RobustScore == MedianHalves /\ SpikeNotMasked

\* The verdict does not depend on the unit of measurement: the same readings
\* in other units, with another origin and sign, give the same score and
\* verdict, as long as they stay clear of the limits of floats.
UnitsDoNotMatter ==
    \A a \in Judged :
        LET other == score_window([i \in DOMAIN a.readings |-> 2 - 3 * a.readings[i]])
            this  == a.reply.result
        IN  (\A i \in DOMAIN a.readings : 12 * abs(a.readings[i]) <= FloatMax) =>
            /\ other.anomaly = this.anomaly
            /\ other.score.num * this.score.den = this.score.num * other.score.den

\* "a usable number instead of a value that breaks JSON encoding": every
\* score is a number up to the cap, and finite readings that stay clear of the
\* limits of floats are never answered with 500.
AlwaysEncodable ==
    /\ \A a \in Scored :
         LET z == a.reply.result.score
         IN  z.den > 0 /\ z.num <= SATURATED_SCORE * z.den
    /\ \A a \in Answers :
         a.reply.status = 500 =>
             \E i \in DOMAIN a.readings : 3 * abs(a.readings[i]) > FloatMax
==============================================================================
