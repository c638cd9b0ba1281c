------------------------------ MODULE Lifecycle ------------------------------
(***************************************************************************)
(* The life of one pod of a Go service: boot, httpx.Serve with its public  *)
(* and admin listeners (internal/platform/httpx/server.go), the health     *)
(* registry its probes read (internal/platform/health/health.go), and the  *)
(* shutdown sequence that is to make a rolling update lossless.            *)
(*                                                                         *)
(* The cluster around the pod is external: the kubelet probes, sends       *)
(* SIGTERM and later SIGKILL; the data plane routes requests to a ready    *)
(* pod and takes up to Propagation ticks to stop once the pod is           *)
(* terminating.                                                            *)
(***************************************************************************)
EXTENDS Integers, FiniteSets

CONSTANTS
    Requests,          \* clients with at most one request each
    DrainDelay,        \* ServerConfig.DrainDelay
    ShutdownGrace,     \* ServerConfig.ShutdownGrace
    FlushTimeout,      \* the five seconds Serve gives the trace exporter
    RequestTimeout,    \* Runtime.RequestTimeout: the Timeout middleware
    Propagation,       \* cluster: SIGTERM to the last request routed here
    TerminationGraces  \* values of the pod's terminationGracePeriodSeconds

\* What ServerConfig.withDefaults leaves.
ServerConfigOK == DrainDelay \in Nat \ {0} /\ ShutdownGrace \in Nat \ {0}

ASSUME LifecycleAssumption ==
    /\ ServerConfigOK
    /\ FlushTimeout \in Nat /\ RequestTimeout \in Nat
    /\ Propagation \in Nat /\ TerminationGraces \subseteq Nat

VARIABLES
    phase,     \* where the process is
    started,   \* health.Registry.started
    draining,  \* health.Registry.draining
    gctxDone,  \* Serve's errgroup context has ended
    listener,  \* the state of each listener
    probe,     \* the registry as a readiness probe under way has read it
    ready,     \* cluster: the kubelet believes the pod is ready
    routed,    \* cluster: the data plane sends requests here
    req,       \* what became of each client's latest request
    age,       \* how long it has been in the process
    timer,     \* how long the current step of the shutdown has taken
    term,      \* time since SIGTERM, or NotSent
    grace      \* terminationGracePeriodSeconds of this pod

registry == <<started, draining>>
cluster == <<probe, ready, routed>>
clients == <<req, age>>
pod == <<term, grace>>
vars == <<phase, registry, gctxDone, listener, cluster, clients, timer, pod>>

NotSent == -1
NoProbe == [started |-> FALSE, draining |-> FALSE, open |-> FALSE]

Listeners == {"public", "admin"}
Phases == {"boot", "serve", "drain", "shutdown", "adminShutdown", "flush",
           "exited", "killed"}
Over == phase \in {"exited", "killed"}

\* A finished request leaves its client idle; a refused one says in which
\* state it found the public listener.
Outcomes == {"idle", "active", "abandoned", "unbound", "closed", "failed"}

Active == {r \in Requests : req[r] = "active"}

-----------------------------------------------------------------------------

Init ==
    /\ phase = "boot"
    /\ started = FALSE /\ draining = FALSE
    /\ gctxDone = FALSE
    /\ listener = [l \in Listeners |-> "unbound"]
    /\ probe = NoProbe
    /\ ready = FALSE /\ routed = FALSE
    /\ req = [r \in Requests |-> "idle"]
    /\ age = [r \in Requests |-> 0]
    /\ timer = 0
    /\ term = NotSent
    /\ grace \in TerminationGraces

(* The process.                                                            *)

\* run() returns an error: the configuration, the tracing or the database.
BootFails ==
    /\ phase = "boot"
    /\ phase' = "exited"
    /\ UNCHANGED <<registry, gctxDone, listener, cluster, clients, timer, pod>>

\* run() comes to its end: MarkStarted, then Serve starts its three goroutines.
MarkStarted ==
    /\ phase = "boot"
    /\ phase' = "serve"
    /\ started' = TRUE
    /\ UNCHANGED <<draining, gctxDone, listener, cluster, clients, timer, pod>>

\* ListenAndServe gets its socket; on a server already shut down it would
\* return ErrServerClosed instead.
Listen(l) ==
    /\ phase \notin {"boot", "exited", "killed"}
    /\ listener[l] = "unbound"
    /\ listener' = [listener EXCEPT ![l] = "bound"]
    /\ UNCHANGED <<phase, registry, gctxDone, cluster, clients, timer, pod>>

\* ListenAndServe fails, and the errgroup cancels its context.
ListenFails(l) ==
    /\ phase \notin {"boot", "exited", "killed"}
    /\ listener[l] = "unbound"
    /\ listener' = [listener EXCEPT ![l] = "failed"]
    /\ gctxDone' = TRUE
    /\ UNCHANGED <<phase, registry, cluster, clients, timer, pod>>

\* The shutdown goroutine, past <-gctx.Done(): BeginDrain, then the sleep.
BeginDrain ==
    /\ phase = "serve" /\ gctxDone
    /\ phase' = "drain"
    /\ draining' = TRUE
    /\ timer' = 0
    /\ UNCHANGED <<started, gctxDone, listener, cluster, clients, pod>>

Close(l) == [listener EXCEPT ![l] = IF @ = "failed" THEN "failed" ELSE "closed"]

\* Seeded fault: no wait between failing readiness and closing the listener.
Fault_drainOverAtOnce == TRUE

drainOver == timer = DrainDelay

\* publicSrv.Shutdown begins: it closes the listener and waits.
ShutdownPublic ==
    /\ phase = "drain" /\ drainOver
    /\ phase' = "shutdown"
    /\ listener' = Close("public")
    /\ timer' = 0
    /\ UNCHANGED <<registry, gctxDone, cluster, clients, pod>>

\* Seeded fault: Shutdown is given the context the signal has cancelled.
Fault_drainedAtOnce == TRUE

\* Shutdown returns: every connection is idle, or shutdownCtx has expired.
drained == Active = {} \/ timer = ShutdownGrace

\* Seeded fault: the second Shutdown is given a grace period of its own.
Fault_ShutdownAdminFresh ==
    /\ phase = "shutdown" /\ drained
    /\ phase' = "adminShutdown"
    /\ listener' = Close("admin")
    /\ timer' = 0
    /\ UNCHANGED <<registry, gctxDone, cluster, clients, pod>>

\* adminSrv.Shutdown begins, with what is left of the same context.
ShutdownAdmin ==
    /\ phase = "shutdown" /\ drained
    /\ phase' = "adminShutdown"
    /\ listener' = Close("admin")
    /\ UNCHANGED <<registry, gctxDone, cluster, clients, timer, pod>>

\* adminSrv.Shutdown returns and the traces are flushed.
Flush ==
    /\ phase = "adminShutdown"
    /\ ~probe.open \/ timer = ShutdownGrace
    /\ phase' = "flush"
    /\ timer' = 0
    /\ UNCHANGED <<registry, gctxDone, listener, cluster, clients, pod>>

\* What the end of the process does to the requests it was serving.
Abandon == req' = [r \in Requests |-> IF req[r] = "active" THEN "abandoned" ELSE req[r]]

\* Serve returns, run() returns, the process exits.
Exit ==
    /\ phase = "flush"
    /\ phase' = "exited"
    /\ Abandon
    /\ UNCHANGED <<registry, gctxDone, listener, cluster, age, timer, pod>>

(* The probes.                                                             *)

\* ReadinessHandler: the registry is read under its lock.
ProbeStart ==
    /\ ~Over /\ listener["admin"] = "bound" /\ ~probe.open
    /\ probe' = [started |-> started, draining |-> draining, open |-> TRUE]
    /\ UNCHANGED <<phase, registry, gctxDone, listener, ready, routed, clients, timer, pod>>

\* ReadinessHandler: the dependency checks have run and the answer goes out.
\* The kubelet believes one 200, and doubts only after several others.
ProbeEnd ==
    /\ ~Over /\ probe.open
    /\ probe' = NoProbe
    /\ \E healthy \in BOOLEAN :
         IF probe.started /\ ~probe.draining /\ healthy
         THEN ready' = TRUE
         ELSE ready' \in {ready, FALSE}
    /\ UNCHANGED <<phase, registry, gctxDone, listener, routed, clients, timer, pod>>

(* The cluster.                                                            *)

\* A ready pod is added to the endpoints.
Route ==
    /\ ~Over /\ ready /\ ~routed /\ term = NotSent
    /\ routed' = TRUE
    /\ UNCHANGED <<phase, registry, gctxDone, listener, probe, ready, clients, timer, pod>>

\* A pod that is terminating, or no longer ready, is removed from them.
Unroute ==
    /\ routed /\ (~ready \/ term # NotSent)
    /\ routed' = FALSE
    /\ UNCHANGED <<phase, registry, gctxDone, listener, probe, ready, clients, timer, pod>>

\* Seeded fault: the signal context does not listen for SIGTERM.
Fault_SigtermUnheard ==
    /\ ~Over /\ term = NotSent
    /\ term' = 0
    /\ UNCHANGED <<phase, registry, gctxDone, listener, cluster, clients, timer, grace>>

\* SIGTERM.  Before Serve has installed its handler it ends the process.
Sigterm ==
    /\ ~Over /\ term = NotSent
    /\ term' = 0
    /\ IF phase = "boot"
       THEN phase' = "exited" /\ UNCHANGED gctxDone
       ELSE gctxDone' = TRUE /\ UNCHANGED phase
    /\ UNCHANGED <<registry, listener, cluster, clients, timer, grace>>

\* SIGKILL, when the pod's time is up.
Kill ==
    /\ ~Over /\ term = grace
    /\ phase' = "killed"
    /\ Abandon
    /\ UNCHANGED <<registry, gctxDone, listener, cluster, age, timer, pod>>

\* A client's request is routed to the pod.
Arrive(r) ==
    /\ ~Over /\ routed /\ req[r] = "idle"
    /\ req' = [req EXCEPT ![r] =
                 IF listener["public"] = "bound" THEN "active" ELSE listener["public"]]
    /\ age' = [age EXCEPT ![r] = 0]
    /\ UNCHANGED <<phase, registry, gctxDone, listener, cluster, timer, pod>>

\* The request is answered, by its handler or by the Timeout middleware.
Answer(r) ==
    /\ ~Over /\ req[r] = "active"
    /\ req' = [req EXCEPT ![r] = "idle"]
    /\ UNCHANGED <<phase, registry, gctxDone, listener, cluster, age, timer, pod>>

\* Seeded fault: the drain of the listeners has no deadline.
Fault_TimelyWithoutGrace ==
    /\ phase = "serve" => ~gctxDone
    /\ phase = "drain" => timer < DrainDelay
    /\ phase = "flush" => timer < FlushTimeout

\* Has the current step of the process time left?
Timely ==
    /\ phase = "serve" => ~gctxDone
    /\ phase = "drain" => timer < DrainDelay
    /\ phase \in {"shutdown", "adminShutdown"} => timer < ShutdownGrace
    /\ phase = "flush" => timer < FlushTimeout

\* The clock.  It waits for whoever is due: the process, its requests, the
\* data plane, the kubelet.
Tick ==
    /\ ~Over
    /\ Timely
    /\ \A r \in Active : age[r] < RequestTimeout
    /\ term # NotSent => term < grace
    /\ term # NotSent /\ routed => term < Propagation
    /\ age' = [r \in Requests |-> IF r \in Active THEN age[r] + 1 ELSE 0]
    /\ timer' = IF phase \in {"boot", "serve"} THEN 0 ELSE timer + 1
    /\ term' = IF term = NotSent THEN NotSent ELSE term + 1
    /\ UNCHANGED <<phase, registry, gctxDone, listener, cluster, req, grace>>

Process ==
    \/ BootFails \/ MarkStarted \/ BeginDrain \/ ShutdownPublic \/ ShutdownAdmin \/ Flush \/ Exit

Next ==
    \/ Process
    \/ \E l \in Listeners : Listen(l) \/ ListenFails(l)
    \/ ProbeStart \/ ProbeEnd
    \/ Route \/ Unroute \/ Sigterm \/ Kill
    \/ \E r \in Requests : Arrive(r) \/ Answer(r)
    \/ Tick

Spec == Init /\ [][Next]_vars

\* The goroutine that runs Serve's shutdown is scheduled, time passes, requests
\* and probes end, and the data plane reacts.
Fairness ==
    /\ WF_vars(Process) /\ WF_vars(Tick) /\ WF_vars(Unroute) /\ WF_vars(ProbeEnd)
    /\ \A r \in Requests : WF_vars(Answer(r))

FairSpec == Spec /\ Fairness

-----------------------------------------------------------------------------
(* Properties.                                                             *)

\* How long the current step of the process may take.
StepLimit ==
    CASE phase = "drain"                         -> DrainDelay
      [] phase \in {"shutdown", "adminShutdown"} -> ShutdownGrace
      [] phase = "flush"                         -> FlushTimeout
      [] phase \in {"boot", "serve"}             -> 0
      [] Over                                    -> ShutdownGrace + FlushTimeout + DrainDelay

\* Type invariant: in particular no step of the shutdown outlasts its bound.
TypeOK ==
    /\ phase \in Phases
    /\ started \in BOOLEAN /\ draining \in BOOLEAN /\ gctxDone \in BOOLEAN
    /\ listener \in [Listeners -> {"unbound", "bound", "closed", "failed"}]
    /\ probe \in [started : BOOLEAN, draining : BOOLEAN, open : BOOLEAN]
    /\ ready \in BOOLEAN /\ routed \in BOOLEAN
    /\ req \in [Requests -> Outcomes]
    /\ age \in [Requests -> 0 .. RequestTimeout]
    /\ timer \in 0 .. StepLimit
    /\ grace \in TerminationGraces /\ term \in 0 .. grace \cup {NotSent}

Broken == \E l \in Listeners : listener[l] = "failed"

\* DrainDelay gives "the endpoints controller and every kube-proxy and ALB
\* target group time to stop routing here": no request of a rolling update
\* meets a closed listener.
NoneRefused == \A r \in Requests : req[r] = "closed" => Broken

\* "stop accepting, finish in-flight within ShutdownGrace": no request that was
\* accepted is cut off by the end of the process.
NoneAbandoned == \A r \in Requests : req[r] # "abandoned"

\* The grace leaves time for the whole sequence, the trace flush included.
Generous == DrainDelay + ShutdownGrace + FlushTimeout < grace

\* With such a grace the process exits before the kubelet "SIGKILLs the
\* process mid-drain".
NeverKilled == Generous => phase # "killed"

\* The probes outlive the requests: liveness keeps passing for as long as there
\* is a request that a restart would abandon.
AliveWhileServing == listener["admin"] = "closed" => Active = {}

\* A pod that was told to stop stops by itself, if it is given that time.
Terminates == term # NotSent /\ Generous ~> phase = "exited"

\* "which is what makes a rolling update lossless" (Serve): neither does a
\* request meet the listener of a new pod that is not there yet.
NoneTooEarly == \A r \in Requests : req[r] # "unbound"
==============================================================================
