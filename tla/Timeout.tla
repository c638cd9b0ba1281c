------------------------------- MODULE Timeout -------------------------------
(***************************************************************************)
(* The Timeout middleware of internal/platform/httpx/middleware.go and the *)
(* response recorder of response.go, inside the chain the services build:  *)
(* Recovery and Metrics outside, the mux and its handler inside.           *)
(*                                                                         *)
(* A request has two goroutines.  The server goroutine runs the chain down *)
(* to the select of Timeout; the handler goroutine, started by Timeout,    *)
(* runs the mux and the handler.  They share the recorder, whose fields    *)
(* are guarded by its mutex, and the header map of the response, which is  *)
(* guarded by nothing.  A locked section, a call of the underlying writer  *)
(* and an access to the header map are one step each.                      *)
(*                                                                         *)
(* Every handler answers in the three steps of WriteJSON and WriteProblem: *)
(* set Content-Type, WriteHeader, Write.                                   *)
(***************************************************************************)
EXTENDS Integers, FiniteSets

CONSTANTS Requests  \* requests in flight in one process

VARIABLES
    server,       \* where each request's server goroutine is
    handler,      \* where its handler goroutine is
    expired,      \* ctx.Done(): the deadline passed or the client went away
    wroteHeader,  \* responseRecorder.wroteHeader, of Timeout's recorder
    timedOut,     \* responseRecorder.timedOut
    header,       \* who set Content-Type in the header map last
    status,       \* who decided the status line on the wire
    sentType,     \* whose Content-Type went out with it
    body,         \* whose bytes are in the body
    pattern,      \* Request.Pattern in Metrics' request and in the mux's copy
    label,        \* the route label Metrics counted the request under
    crashed       \* the process died

recorder == <<wroteHeader, timedOut>>
wire == <<status, sentType, body>>
route == <<pattern, label>>
vars == <<server, handler, expired, recorder, header, wire, route, crashed>>

ServerSteps ==
    {"select", "set", "writeHeader", "write", "returned", "observed", "finished"}

\* "claim" and "check" are the locked sections of the recorder's WriteHeader
\* and Write, "writeHeader" and "write" the calls they make on the wrapped
\* writer afterwards, with the mutex free.
HandlerSteps ==
    {"dispatch", "work", "set", "claim", "writeHeader", "check", "write", "done",
     "panicked"}

Authors == {"none", "handler", "timeout", "implicit"}
Patterns == {"", "pattern", "unmatched"}

-----------------------------------------------------------------------------
(* The parts of the response.                                              *)

\* The header map is used by both goroutines at once: the handler sets an
\* entry while Timeout sets one or the server reads the map to send it.
Racing(r) ==
    /\ handler[r] = "set"
    /\ \/ server[r] \in {"set", "writeHeader"}
       \/ server[r] = "observed" /\ status[r] = "none"

\* The wrapped writer, down to net/http: the first status wins and takes the
\* headers along, and nothing is sent once the server has finished.
sendHeader(r, who) ==
    IF status[r] = "none"
    THEN /\ status' = [status EXCEPT ![r] = who]
         /\ sentType' = [sentType EXCEPT ![r] = header[r]]
    ELSE UNCHANGED <<status, sentType>>

sendBody(r, who) ==
    body' = IF server[r] = "finished" THEN body
            ELSE [body EXCEPT ![r] = @ \cup {who}]

\* Seeded fault: the claim is made although the handler has begun.
Fault_markTimedOutAlways(r) == TRUE

\* Does markTimedOut claim the response for Timeout?
markTimedOut(r) == ~wroteHeader[r]

\* Seeded fault: the recorder lets a late write through.
Fault_dropsNothing(r) == FALSE

\* Does the recorder swallow what the handler writes?
dropsWrite(r) == timedOut[r]

\* Seeded fault: an unmatched request is counted under its path.
Fault_routeOfPath(r) == IF pattern[r].metrics # "" THEN pattern[r].metrics ELSE "path"

\* routeOf, on the request that Metrics holds.
routeOf(r) == IF pattern[r].metrics # "" THEN pattern[r].metrics ELSE "unmatched"

-----------------------------------------------------------------------------
(* The actions.                                                            *)

Init ==
    /\ server = [r \in Requests |-> "select"]
    /\ handler = [r \in Requests |-> "dispatch"]
    /\ expired = [r \in Requests |-> FALSE]
    /\ wroteHeader = [r \in Requests |-> FALSE]
    /\ timedOut = [r \in Requests |-> FALSE]
    /\ header = [r \in Requests |-> "none"]
    /\ status = [r \in Requests |-> "none"]
    /\ sentType = [r \in Requests |-> "none"]
    /\ body = [r \in Requests |-> {}]
    /\ pattern = [r \in Requests |-> [metrics |-> "", mux |-> ""]]
    /\ label = [r \in Requests |-> ""]
    /\ crashed = FALSE

Advance(pc, r, from, to) == pc[r] = from /\ pc' = [pc EXCEPT ![r] = to]

(* The handler goroutine.                                                  *)

\* ServeMux finds the route, if there is one, and notes it in the request it
\* was given: the copy that r.WithContext made for the new context.
Dispatch(r) ==
    /\ Advance(handler, r, "dispatch", "work")
    /\ \E p \in {"", "pattern"} : pattern' = [pattern EXCEPT ![r].mux = p]
    /\ UNCHANGED <<server, expired, recorder, header, wire, label, crashed>>

\* The handler has its answer, early, late, or because its context ended.
Work(r) ==
    /\ Advance(handler, r, "work", "set")
    /\ UNCHANGED <<server, expired, recorder, header, wire, route, crashed>>

\* The handler panics.  Its goroutine is the one Timeout started: the recover
\* of Recovery is deferred on the server goroutine and never sees the panic,
\* and a panic that no frame of its goroutine recovers ends the process.
Panic(r) ==
    /\ Advance(handler, r, "work", "panicked")
    /\ crashed' = TRUE
    /\ UNCHANGED <<server, expired, recorder, header, wire, route>>

\* WriteJSON or WriteProblem, first line.
SetHeader(r) ==
    /\ Advance(handler, r, "set", "claim")
    /\ header' = [header EXCEPT ![r] = "handler"]
    /\ UNCHANGED <<server, expired, recorder, wire, route, crashed>>

\* The runtime stops a process it catches in concurrent accesses to a map.
ConcurrentMapAccess(r) ==
    /\ Racing(r)
    /\ crashed' = TRUE
    /\ UNCHANGED <<server, handler, expired, recorder, header, wire, route>>

\* responseRecorder.WriteHeader, the locked section.
Claim(r) ==
    /\ IF wroteHeader[r] \/ timedOut[r]
       THEN Advance(handler, r, "claim", "check") /\ UNCHANGED wroteHeader
       ELSE /\ Advance(handler, r, "claim", "writeHeader")
            /\ wroteHeader' = [wroteHeader EXCEPT ![r] = TRUE]
    /\ UNCHANGED <<server, expired, timedOut, header, wire, route, crashed>>

\* responseRecorder.WriteHeader, after the unlock.
WriteHeader(r) ==
    /\ Advance(handler, r, "writeHeader", "check")
    /\ sendHeader(r, "handler")
    /\ UNCHANGED <<server, expired, recorder, header, body, route, crashed>>

\* responseRecorder.Write, the locked section.
Check(r) ==
    /\ Advance(handler, r, "check", IF dropsWrite(r) THEN "done" ELSE "write")
    /\ UNCHANGED <<server, expired, recorder, header, wire, route, crashed>>

\* responseRecorder.Write, after the unlock; then the handler returns and the
\* deferred close(done) runs.
Write(r) ==
    /\ Advance(handler, r, "write", "done")
    /\ sendBody(r, "handler")
    /\ UNCHANGED <<server, expired, recorder, header, status, sentType, route, crashed>>

(* The server goroutine.                                                   *)

\* Timeout: case <-done.
Done(r) ==
    /\ handler[r] = "done"
    /\ Advance(server, r, "select", "returned")
    /\ UNCHANGED <<handler, expired, recorder, header, wire, route, crashed>>

\* Seeded fault: the handler is waited for, whatever its deadline.
Fault_DeadlineIgnored(r) == FALSE

\* Timeout: case <-ctx.Done(), with the locked section of markTimedOut.
Deadline(r) ==
    /\ expired[r]
    /\ IF markTimedOut(r)
       THEN /\ Advance(server, r, "select", "set")
            /\ timedOut' = [timedOut EXCEPT ![r] = TRUE]
       ELSE Advance(server, r, "select", "returned") /\ UNCHANGED timedOut
    /\ UNCHANGED <<handler, expired, wroteHeader, header, wire, route, crashed>>

\* WriteProblem of the 504, its three steps.
ProblemHeader(r) ==
    /\ Advance(server, r, "set", "writeHeader")
    /\ header' = [header EXCEPT ![r] = "timeout"]
    /\ UNCHANGED <<handler, expired, recorder, wire, route, crashed>>

ProblemStatus(r) ==
    /\ Advance(server, r, "writeHeader", "write")
    /\ sendHeader(r, "timeout")
    /\ UNCHANGED <<handler, expired, recorder, header, body, route, crashed>>

ProblemBody(r) ==
    /\ Advance(server, r, "write", "returned")
    /\ sendBody(r, "timeout")
    /\ UNCHANGED <<handler, expired, recorder, header, status, sentType, route, crashed>>

\* Metrics, after next.ServeHTTP: the request is counted under its route.
Observe(r) ==
    /\ Advance(server, r, "returned", "observed")
    /\ label' = [label EXCEPT ![r] = routeOf(r)]
    /\ UNCHANGED <<handler, expired, recorder, header, wire, pattern, crashed>>

\* net/http, when the outermost handler has returned: a response nobody
\* started becomes an empty 200, and the response is closed.
Finish(r) ==
    /\ Advance(server, r, "observed", "finished")
    /\ sendHeader(r, "implicit")
    /\ UNCHANGED <<handler, expired, recorder, header, body, route, crashed>>

\* The deadline of the request's context passes, or the client goes away.
Expire(r) ==
    /\ ~expired[r]
    /\ expired' = [expired EXCEPT ![r] = TRUE]
    /\ UNCHANGED <<server, handler, recorder, header, wire, route, crashed>>

HandlerNext(r) ==
    \/ Dispatch(r) \/ Work(r) \/ Panic(r) \/ SetHeader(r) \/ ConcurrentMapAccess(r)
    \/ Claim(r) \/ WriteHeader(r) \/ Check(r) \/ Write(r)

ServerNext(r) ==
    \/ Done(r) \/ Deadline(r) \/ ProblemHeader(r) \/ ProblemStatus(r)
    \/ ProblemBody(r) \/ Observe(r) \/ Finish(r)

Next ==
    /\ ~crashed
    /\ \E r \in Requests : HandlerNext(r) \/ ServerNext(r) \/ Expire(r)

Spec == Init /\ [][Next]_vars

\* The server goroutines are scheduled and the deadline's timer fires.  The
\* handlers are not assumed to ever return.
Fairness ==
    \A r \in Requests :
        WF_vars(~crashed /\ ServerNext(r)) /\ WF_vars(~crashed /\ Expire(r))

FairSpec == Spec /\ Fairness

-----------------------------------------------------------------------------
(* Properties.                                                             *)

\* Type invariant: in particular the route label keeps to the registered
\* patterns and one constant, so its number of values is bounded.
TypeOK ==
    /\ server \in [Requests -> ServerSteps]
    /\ handler \in [Requests -> HandlerSteps]
    /\ expired \in [Requests -> BOOLEAN]
    /\ wroteHeader \in [Requests -> BOOLEAN]
    /\ timedOut \in [Requests -> BOOLEAN]
    /\ header \in [Requests -> Authors]
    /\ status \in [Requests -> Authors]
    /\ sentType \in [Requests -> Authors]
    /\ body \in [Requests -> SUBSET Authors]
    /\ pattern \in [Requests -> [metrics : Patterns, mux : Patterns]]
    /\ label \in [Requests -> Patterns]
    /\ crashed \in BOOLEAN

\* "guards against a double write when the timeout middleware fires"
\* (responseRecorder): a client never receives one party's bytes under the
\* other's status, nor the bytes of both.
OneAuthor == \A r \in Requests : body[r] \subseteq {status[r]}

\* Once markTimedOut has claimed a response, the client gets the 504 and its
\* problem body, whole, however late and however often the handler writes.
ClaimIsAnswered ==
    \A r \in Requests :
        timedOut[r] /\ server[r] = "finished"
            => status[r] = "timeout" /\ body[r] = {"timeout"}

\* "one slow dependency cannot pin a worker indefinitely" (Timeout): the
\* server goroutine of every request ends, even if its handler never does.
WorkerFreed == \A r \in Requests : <>(crashed \/ server[r] = "finished")

\* "if the handler has not already begun writing; otherwise the bytes are on
\* the wire" (Timeout): no request ends with a response nobody wrote.
BytesOnTheWire == \A r \in Requests : server[r] = "finished" => status[r] # "implicit"

\* "The timeout middleware already owns the response" (responseRecorder): a
\* 504 goes out with the headers of the 504.
OwnsHeaders == \A r \in Requests : status[r] = "timeout" => sentType[r] = "timeout"

\* The converse, which the unlocked header map does not endanger: whoever ends
\* up waiting, an answer with the handler's status goes out with the handler's
\* headers, and one that Timeout has claimed never gets its status.
HandlerOwnsHeaders ==
    \A r \in Requests : status[r] = "handler" => sentType[r] = "handler" /\ ~timedOut[r]

\* "Recovery is outermost so it catches panics from every layer below" (the
\* gateway's chain): the request whose handler panicked is answered.
PanicContained ==
    \A r \in Requests : handler[r] = "panicked" ~> server[r] = "finished"

\* "routeOf returns the matched mux pattern": Metrics counts a request that
\* the mux has routed under its route.
RouteLabelled ==
    [][\A r \in Requests :
         Observe(r) /\ pattern[r].mux # "" => label'[r] = pattern[r].mux]_vars
==============================================================================
