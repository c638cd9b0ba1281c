--------------------------- MODULE LifecycleProofs ---------------------------
(***************************************************************************)
(* Proofs that the shutdown sequence of Serve is lossless and in time, for *)
(* every choice of its delays that the stated inequalities allow.          *)
(***************************************************************************)
EXTENDS Lifecycle, TLAPS

-----------------------------------------------------------------------------
(* Inductive invariants.                                                   *)

Closing == {"shutdown", "adminShutdown", "flush"}

\* How much of the pod's termination grace each step may have used up.
TimingInv ==
    /\ phase = "boot" => term = NotSent /\ ~gctxDone
    /\ phase = "serve" => term <= 0 /\ (term # NotSent => gctxDone)
    /\ phase = "drain" => term <= timer
    /\ phase \in {"shutdown", "adminShutdown"} => term <= DrainDelay + timer
    /\ phase = "flush" => term <= DrainDelay + ShutdownGrace + timer

\* Which listeners may be closed when; a failed one stays failed.
ListenerInv ==
    /\ listener["public"] = "closed" => phase \in Closing \/ Over
    /\ listener["admin"] = "closed" => phase \in {"adminShutdown", "flush"} \/ Over
    /\ phase \in Closing => listener["public"] \in {"closed", "failed"}

\* An orderly drain began with the SIGTERM, and outlasts the routing.
RouteInv ==
    /\ routed /\ term # NotSent => term <= Propagation
    /\ gctxDone /\ ~Broken => term # NotSent
    /\ phase \in {"drain"} \cup Closing => gctxDone
    /\ phase = "drain" /\ ~Broken => timer <= term
    /\ phase \in Closing /\ ~Broken => DrainDelay <= term
    /\ NoneRefused

\* A request that Shutdown waits for is older than the wait.
RequestInv ==
    /\ phase = "boot" => Active = {} /\ ~routed /\ ~ready /\ ~probe.open
         /\ listener = [l \in Listeners |-> "unbound"]
    /\ phase = "shutdown" => \A r \in Active : timer <= age[r]
    /\ phase \in {"adminShutdown", "flush"} \/ Over => Active = {}
    /\ NoneAbandoned

-----------------------------------------------------------------------------
USE DEF ServerConfigOK

LEMMA Init_Types == Init => TypeOK /\ ListenerInv
<1> SUFFICES ASSUME Init PROVE TypeOK /\ ListenerInv
  OBVIOUS
<1>1. timer \in 0 .. StepLimit
  BY LifecycleAssumption DEF Init, StepLimit, Over
<1>2. probe \in [started : BOOLEAN, draining : BOOLEAN, open : BOOLEAN]
  BY DEF Init, NoProbe
<1>3. age \in [Requests -> 0 .. RequestTimeout]
  BY LifecycleAssumption DEF Init
<1>4. TypeOK
  BY <1>1, <1>2, <1>3 DEF Init, TypeOK, Phases, Outcomes, Listeners
<1>5. ListenerInv
  BY DEF Init, ListenerInv, Closing, Listeners
<1> QED
  BY <1>4, <1>5

LEMMA Next_Types == TypeOK /\ [Next]_vars => TypeOK'
<1> SUFFICES ASSUME TypeOK, [Next]_vars PROVE TypeOK'
  OBVIOUS
<1> USE LifecycleAssumption DEF TypeOK, StepLimit, Over, NotSent, NoProbe, Listeners, Phases, Outcomes, Active,
        registry, cluster, clients, pod
<1>1. CASE MarkStarted
  BY <1>1 DEF MarkStarted
<1>2. CASE BeginDrain
  BY <1>2 DEF BeginDrain
<1>3. CASE ShutdownPublic
  BY <1>3 DEF ShutdownPublic, drainOver, Close
<1>4. CASE ShutdownAdmin
  BY <1>4 DEF ShutdownAdmin, drained, Close
<1>5. CASE Flush
  BY <1>5 DEF Flush
<1>6. CASE Exit
  BY <1>6 DEF Exit, Abandon
<1>7. ASSUME NEW l \in Listeners, Listen(l) PROVE TypeOK'
  BY <1>7 DEF Listen
<1>8. ASSUME NEW l \in Listeners, ListenFails(l) PROVE TypeOK'
  BY <1>8 DEF ListenFails
<1>9. CASE ProbeStart
  BY <1>9 DEF ProbeStart
<1>10. CASE ProbeEnd
  BY <1>10 DEF ProbeEnd
<1>11. CASE Route
  BY <1>11 DEF Route
<1>12. CASE Unroute
  <2>1. timer' \in 0 .. StepLimit'
    BY <1>12 DEF Unroute
  <2> HIDE DEF StepLimit
  <2> QED
    BY <1>12, <2>1, ZenonT(60) DEF Unroute
<1>13. CASE Sigterm
  <2>1. CASE phase = "boot"
    <3>1. phase' = "exited" /\ timer' \in 0 .. StepLimit'
      BY <1>13, <2>1 DEF Sigterm
    <3> HIDE DEF StepLimit
    <3> QED
      BY <1>13, <2>1, <3>1 DEF Sigterm
  <2>2. CASE phase # "boot"
    BY <1>13, <2>2 DEF Sigterm
  <2> QED
    BY <2>1, <2>2
<1>14. CASE Kill
  BY <1>14 DEF Kill, Abandon
<1>15. ASSUME NEW r \in Requests, Arrive(r) PROVE TypeOK'
  BY <1>15 DEF Arrive
<1>16. ASSUME NEW r \in Requests, Answer(r) PROVE TypeOK'
  BY <1>16 DEF Answer
<1>17. CASE Tick
  BY <1>17 DEF Tick, Timely
<1>18. CASE UNCHANGED vars
  BY <1>18 DEF vars
<1>19. CASE BootFails
  <2>1. phase' = "exited" /\ timer' \in 0 .. StepLimit'
    BY <1>19 DEF BootFails
  <2> HIDE DEF StepLimit
  <2> QED
    BY <1>19, <2>1 DEF BootFails
<1> QED
  BY <1>1, <1>2, <1>3, <1>4, <1>5, <1>6, <1>7, <1>8, <1>9,
     <1>10, <1>11, <1>12, <1>13, <1>14, <1>15, <1>16, <1>17, <1>18, <1>19 DEF Next, Process

LEMMA Next_Listener == TypeOK /\ ListenerInv /\ [Next]_vars => ListenerInv'
<1> SUFFICES ASSUME TypeOK, ListenerInv, [Next]_vars PROVE ListenerInv'
  OBVIOUS
<1>0. phase \in Phases /\ listener \in [Listeners -> {"unbound", "bound", "closed", "failed"}]
  BY DEF TypeOK
<1> USE DEF ListenerInv, Closing, Over, Listeners, Phases, registry, cluster, clients, pod
<1>1. CASE MarkStarted
  BY <1>1, <1>0 DEF MarkStarted
<1>2. CASE BeginDrain
  BY <1>2, <1>0 DEF BeginDrain
<1>3. CASE ShutdownPublic
  BY <1>3, <1>0 DEF ShutdownPublic, drainOver, Close
<1>4. CASE ShutdownAdmin
  BY <1>4, <1>0 DEF ShutdownAdmin, drained, Close
<1>5. CASE Flush
  BY <1>5, <1>0 DEF Flush
<1>6. CASE Exit
  BY <1>6, <1>0 DEF Exit, Abandon
<1>7. ASSUME NEW l \in Listeners, Listen(l) PROVE ListenerInv'
  BY <1>7, <1>0 DEF Listen
<1>8. ASSUME NEW l \in Listeners, ListenFails(l) PROVE ListenerInv'
  BY <1>8, <1>0 DEF ListenFails
<1>9. CASE ProbeStart
  BY <1>9, <1>0 DEF ProbeStart
<1>10. CASE ProbeEnd
  BY <1>10, <1>0 DEF ProbeEnd
<1>11. CASE Route
  BY <1>11, <1>0 DEF Route
<1>12. CASE Unroute
  BY <1>12, <1>0 DEF Unroute
<1>13. CASE Sigterm
  BY <1>13, <1>0 DEF Sigterm
<1>14. CASE Kill
  BY <1>14, <1>0 DEF Kill, Abandon
<1>15. ASSUME NEW r \in Requests, Arrive(r) PROVE ListenerInv'
  BY <1>15, <1>0 DEF Arrive
<1>16. ASSUME NEW r \in Requests, Answer(r) PROVE ListenerInv'
  BY <1>16, <1>0 DEF Answer
<1>17. CASE Tick
  BY <1>17, <1>0 DEF Tick, Timely
<1>18. CASE UNCHANGED vars
  BY <1>18 DEF vars
<1>19. CASE BootFails
  BY <1>19, <1>0 DEF BootFails
<1> QED
  BY <1>1, <1>2, <1>3, <1>4, <1>5, <1>6, <1>7, <1>8, <1>9,
     <1>10, <1>11, <1>12, <1>13, <1>14, <1>15, <1>16, <1>17, <1>18, <1>19 DEF Next, Process

LEMMA Init_Timing == Init => TimingInv
BY DEF Init, TimingInv, NotSent

LEMMA Next_Timing == TypeOK /\ TimingInv /\ [Next]_vars => TimingInv'
<1> SUFFICES ASSUME TypeOK, TimingInv, [Next]_vars PROVE TimingInv'
  OBVIOUS
<1>0. /\ phase \in Phases /\ timer \in 0 .. StepLimit /\ gctxDone \in BOOLEAN
      /\ term \in Int /\ (term # NotSent => term \in Nat)
  BY LifecycleAssumption DEF TypeOK, NotSent
<1> USE LifecycleAssumption DEF TimingInv, StepLimit, Over, NotSent, Phases,
        registry, cluster, clients, pod
<1>1. CASE MarkStarted
  BY <1>1, <1>0 DEF MarkStarted
<1>2. CASE BeginDrain
  BY <1>2, <1>0 DEF BeginDrain
<1>3. CASE ShutdownPublic
  BY <1>3, <1>0 DEF ShutdownPublic, drainOver, Close
<1>4. CASE ShutdownAdmin
  BY <1>4, <1>0 DEF ShutdownAdmin, drained, Close
<1>5. CASE Flush
  BY <1>5, <1>0 DEF Flush
<1>6. CASE Exit
  BY <1>6, <1>0 DEF Exit, Abandon
<1>7. ASSUME NEW l \in Listeners, Listen(l) PROVE TimingInv'
  BY <1>7, <1>0 DEF Listen
<1>8. ASSUME NEW l \in Listeners, ListenFails(l) PROVE TimingInv'
  BY <1>8, <1>0 DEF ListenFails
<1>9. CASE ProbeStart
  BY <1>9, <1>0 DEF ProbeStart
<1>10. CASE ProbeEnd
  BY <1>10, <1>0 DEF ProbeEnd
<1>11. CASE Route
  BY <1>11, <1>0 DEF Route
<1>12. CASE Unroute
  BY <1>12, <1>0 DEF Unroute
<1>13. CASE Sigterm
  BY <1>13, <1>0 DEF Sigterm
<1>14. CASE Kill
  BY <1>14, <1>0 DEF Kill, Abandon
<1>15. ASSUME NEW r \in Requests, Arrive(r) PROVE TimingInv'
  BY <1>15, <1>0 DEF Arrive
<1>16. ASSUME NEW r \in Requests, Answer(r) PROVE TimingInv'
  BY <1>16, <1>0 DEF Answer
<1>17. CASE Tick
  BY <1>17, <1>0 DEF Tick, Timely
<1>18. CASE UNCHANGED vars
  BY <1>18 DEF vars
<1>19. CASE BootFails
  BY <1>19, <1>0 DEF BootFails
<1> QED
  BY <1>1, <1>2, <1>3, <1>4, <1>5, <1>6, <1>7, <1>8, <1>9,
     <1>10, <1>11, <1>12, <1>13, <1>14, <1>15, <1>16, <1>17, <1>18, <1>19 DEF Next, Process

LEMMA Init_Route == Init => RouteInv
BY LifecycleAssumption DEF Init, RouteInv, NoneRefused, Closing, NotSent, Broken, Listeners

LEMMA Next_Route ==
    ASSUME Propagation < DrainDelay
    PROVE  TypeOK /\ ListenerInv /\ TimingInv /\ RouteInv /\ [Next]_vars => RouteInv'
<1> SUFFICES ASSUME TypeOK, ListenerInv, TimingInv, RouteInv, [Next]_vars PROVE RouteInv'
  OBVIOUS
<1>0. /\ phase \in Phases /\ timer \in 0 .. StepLimit
      /\ gctxDone \in BOOLEAN /\ routed \in BOOLEAN
      /\ listener \in [Listeners -> {"unbound", "bound", "closed", "failed"}]
      /\ req \in [Requests -> Outcomes]
      /\ term \in Int /\ (term # NotSent => term \in Nat)
  BY LifecycleAssumption DEF TypeOK, NotSent
<1> USE LifecycleAssumption DEF RouteInv, NoneRefused, Broken, ListenerInv,
        TimingInv, Closing, StepLimit, Over, NotSent, Phases, Outcomes, Listeners,
        registry, cluster, clients, pod
<1>1. CASE MarkStarted
  BY <1>1, <1>0 DEF MarkStarted
<1>2. CASE BeginDrain
  BY <1>2, <1>0 DEF BeginDrain
<1>3. CASE ShutdownPublic
  BY <1>3, <1>0 DEF ShutdownPublic, drainOver, Close
<1>4. CASE ShutdownAdmin
  BY <1>4, <1>0 DEF ShutdownAdmin, drained, Close
<1>5. CASE Flush
  BY <1>5, <1>0 DEF Flush
<1>6. CASE Exit
  BY <1>6, <1>0 DEF Exit, Abandon
<1>7. ASSUME NEW l \in Listeners, Listen(l) PROVE RouteInv'
  BY <1>7, <1>0 DEF Listen
<1>8. ASSUME NEW l \in Listeners, ListenFails(l) PROVE RouteInv'
  BY <1>8, <1>0 DEF ListenFails
<1>9. CASE ProbeStart
  BY <1>9, <1>0 DEF ProbeStart
<1>10. CASE ProbeEnd
  BY <1>10, <1>0 DEF ProbeEnd
<1>11. CASE Route
  BY <1>11, <1>0 DEF Route
<1>12. CASE Unroute
  BY <1>12, <1>0 DEF Unroute
<1>13. CASE Sigterm
  BY <1>13, <1>0 DEF Sigterm
<1>14. CASE Kill
  BY <1>14, <1>0 DEF Kill, Abandon
<1>15. ASSUME NEW r \in Requests, Arrive(r) PROVE RouteInv'
  BY <1>15, <1>0 DEF Arrive
<1>16. ASSUME NEW r \in Requests, Answer(r) PROVE RouteInv'
  BY <1>16, <1>0 DEF Answer
<1>17. CASE Tick
  BY <1>17, <1>0 DEF Tick, Timely
<1>18. CASE UNCHANGED vars
  BY <1>18 DEF vars
<1>19. CASE BootFails
  BY <1>19, <1>0 DEF BootFails
<1> QED
  BY <1>1, <1>2, <1>3, <1>4, <1>5, <1>6, <1>7, <1>8, <1>9,
     <1>10, <1>11, <1>12, <1>13, <1>14, <1>15, <1>16, <1>17, <1>18, <1>19 DEF Next, Process

LEMMA Init_Request == Init => RequestInv
BY DEF Init, RequestInv, NoneAbandoned, Active, Over, NoProbe

LEMMA Next_Request ==
    ASSUME RequestTimeout < ShutdownGrace, \A g \in TerminationGraces : DrainDelay + ShutdownGrace < g
    PROVE  TypeOK /\ ListenerInv /\ TimingInv /\ RequestInv /\ [Next]_vars => RequestInv'
<1> SUFFICES ASSUME TypeOK, ListenerInv, TimingInv, RequestInv, [Next]_vars PROVE RequestInv'
  OBVIOUS
<1>0. /\ phase \in Phases /\ timer \in 0 .. StepLimit
      /\ routed \in BOOLEAN /\ ready \in BOOLEAN
      /\ listener \in [Listeners -> {"unbound", "bound", "closed", "failed"}]
      /\ req \in [Requests -> Outcomes] /\ age \in [Requests -> 0 .. RequestTimeout]
      /\ term \in Int /\ (term # NotSent => term \in Nat)
  BY LifecycleAssumption DEF TypeOK, NotSent
<1> USE LifecycleAssumption DEF RequestInv, NoneAbandoned, Active, ListenerInv,
        TimingInv, Closing, StepLimit, Over, NotSent, NoProbe, Phases, Outcomes, Listeners,
        registry, cluster, clients, pod
<1>1. CASE MarkStarted
  BY <1>1, <1>0 DEF MarkStarted
<1>2. CASE BeginDrain
  BY <1>2, <1>0 DEF BeginDrain
<1>3. CASE ShutdownPublic
  BY <1>3, <1>0 DEF ShutdownPublic, drainOver, Close
<1>4. CASE ShutdownAdmin
  BY <1>4, <1>0 DEF ShutdownAdmin, drained, Close
<1>5. CASE Flush
  BY <1>5, <1>0 DEF Flush
<1>6. CASE Exit
  BY <1>6, <1>0 DEF Exit, Abandon
<1>7. ASSUME NEW l \in Listeners, Listen(l) PROVE RequestInv'
  BY <1>7, <1>0 DEF Listen
<1>8. ASSUME NEW l \in Listeners, ListenFails(l) PROVE RequestInv'
  BY <1>8, <1>0 DEF ListenFails
<1>9. CASE ProbeStart
  BY <1>9, <1>0 DEF ProbeStart
<1>10. CASE ProbeEnd
  BY <1>10, <1>0 DEF ProbeEnd
<1>11. CASE Route
  BY <1>11, <1>0 DEF Route
<1>12. CASE Unroute
  BY <1>12, <1>0 DEF Unroute
<1>13. CASE Sigterm
  BY <1>13, <1>0 DEF Sigterm
<1>14. CASE Kill
  <2>1. term = grace /\ term \in Nat /\ DrainDelay + ShutdownGrace < term
    BY <1>14, <1>0 DEF Kill, TypeOK
  <2> QED
    BY <1>14, <1>0, <2>1 DEF Kill, Abandon
<1>15. ASSUME NEW r \in Requests, Arrive(r) PROVE RequestInv'
  BY <1>15, <1>0 DEF Arrive
<1>16. ASSUME NEW r \in Requests, Answer(r) PROVE RequestInv'
  BY <1>16, <1>0 DEF Answer
<1>17. CASE Tick
  BY <1>17, <1>0 DEF Tick, Timely
<1>18. CASE UNCHANGED vars
  BY <1>18 DEF vars
<1>19. CASE BootFails
  BY <1>19, <1>0 DEF BootFails
<1> QED
  BY <1>1, <1>2, <1>3, <1>4, <1>5, <1>6, <1>7, <1>8, <1>9,
     <1>10, <1>11, <1>12, <1>13, <1>14, <1>15, <1>16, <1>17, <1>18, <1>19 DEF Next, Process

\* TypeOK: no step of the shutdown sequence outlasts the delay or the context
\* timeout that Serve gives it.
THEOREM StepsAreBounded == Spec => []TypeOK
BY Init_Types, Next_Types, PTL DEF Spec

\* NeverKilled: a pod whose termination grace exceeds the drain delay, the
\* shutdown grace and the trace flush together exits before the SIGKILL.
THEOREM ExitsInTime ==
    Spec => []NeverKilled
<1>1. Init => NeverKilled
  BY DEF Init, NeverKilled
<1>2. TypeOK /\ TimingInv /\ NeverKilled /\ [Next]_vars => NeverKilled'
  <2> SUFFICES ASSUME TypeOK, TimingInv, NeverKilled, [Next]_vars PROVE NeverKilled'
    OBVIOUS
  <2>1. CASE Kill
    <3>1. /\ phase \in Phases /\ timer \in 0 .. StepLimit /\ term \in Nat /\ grace \in Nat
          /\ term = grace /\ ~Over
      BY <2>1, LifecycleAssumption DEF Kill, TypeOK, NotSent
    <3>2. ~Generous
      BY <3>1, LifecycleAssumption DEF TimingInv, Generous, StepLimit, Over, NotSent, Phases
    <3>3. ~Generous'
      BY <2>1, <3>2 DEF Kill, Generous, pod
    <3> QED
      BY <3>3 DEF NeverKilled
  <2>2. CASE ~Kill
    BY <2>2 DEF NeverKilled, Generous, pod, Next, Process, vars, BootFails, MarkStarted, BeginDrain, ShutdownPublic,
       ShutdownAdmin, Flush, Exit, Listen, ListenFails, ProbeStart, ProbeEnd, Route,
       Unroute, Sigterm, Arrive, Answer, Tick
  <2> QED
    BY <2>1, <2>2
<1> QED
  BY <1>1, <1>2, Init_Types, Next_Types, Init_Timing, Next_Timing, PTL DEF Spec

\* NoneRefused: if the drain delay exceeds the time the data plane takes to
\* react, no request of a rolling update meets a closed listener.
THEOREM RolloutRefusesNone ==
    ASSUME Propagation < DrainDelay
    PROVE  Spec => []NoneRefused
<1>1. RouteInv => NoneRefused
  BY DEF RouteInv
<1> QED
  BY <1>1, Init_Types, Next_Types, Next_Listener, Init_Timing, Next_Timing,
     Init_Route, Next_Route, PTL DEF Spec

\* NoneAbandoned: if requests time out within the shutdown grace, and the pod
\* is left alone for as long as the drain takes, every accepted request is
\* answered, even if the pod is killed during the trace flush.
THEOREM RolloutAbandonsNone ==
    ASSUME RequestTimeout < ShutdownGrace, \A g \in TerminationGraces : DrainDelay + ShutdownGrace < g
    PROVE  Spec => []NoneAbandoned
<1>1. RequestInv => NoneAbandoned
  BY DEF RequestInv
<1> QED
  BY <1>1, Init_Types, Next_Types, Next_Listener, Init_Timing, Next_Timing,
     Init_Request, Next_Request, PTL DEF Spec

\* AliveWhileServing: under the same conditions the admin listener, and with it
\* the liveness probe, stays up until the last request is answered.
THEOREM ProbesOutliveRequests ==
    ASSUME RequestTimeout < ShutdownGrace, \A g \in TerminationGraces : DrainDelay + ShutdownGrace < g
    PROVE  Spec => []AliveWhileServing
<1>1. ListenerInv /\ RequestInv => AliveWhileServing
  BY DEF ListenerInv, RequestInv, AliveWhileServing
<1> QED
  BY <1>1, Init_Types, Next_Types, Next_Listener, Init_Timing, Next_Timing,
     Init_Request, Next_Request, PTL DEF Spec
==============================================================================
