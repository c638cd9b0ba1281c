---------------------------- MODULE TimeoutProofs ----------------------------
(***************************************************************************)
(* Proofs that the recorder of the Timeout middleware keeps the answers of *)
(* the handler and of the timeout apart, and the handler's headers with    *)
(* the handler's status, for any number of requests.                       *)
(***************************************************************************)
EXTENDS Timeout, TLAPS

-----------------------------------------------------------------------------
(* The inductive invariant.                                                *)

\* The recorder's two flags exclude each other, and each party works on the
\* response only under its own flag.
FlagInv(r) ==
    /\ ~(wroteHeader[r] /\ timedOut[r])
    /\ server[r] \in {"set", "writeHeader", "write"} => timedOut[r]
    /\ server[r] = "select" => ~timedOut[r]
    /\ handler[r] \in {"dispatch", "work", "set", "claim"} => ~wroteHeader[r]
    /\ handler[r] \in {"writeHeader", "write"} => wroteHeader[r]
    /\ handler[r] = "check" => wroteHeader[r] \/ timedOut[r]

\* The status line tells who may add to the body: the holder of the flag, or
\* nobody once the server has closed the response for them.
StatusInv(r) ==
    /\ status[r] \in {"none", "handler", "timeout", "implicit"}
    /\ status[r] = "none" => server[r] # "finished"
    /\ status[r] = "handler" => wroteHeader[r]
    /\ status[r] = "implicit" => server[r] = "finished"
    /\ status[r] = "timeout" <=> timedOut[r] /\ server[r] \notin {"set", "writeHeader"}
    /\ handler[r] \in {"check", "write"} /\ wroteHeader[r]
         => status[r] = "handler" \/ server[r] = "finished"

BodyInv(r) ==
    /\ body[r] \subseteq {status[r]} \ {"none"}
    /\ timedOut[r] /\ server[r] \in {"returned", "observed", "finished"}
         => body[r] = {"timeout"}

ResponseInv ==
    /\ TypeOK
    /\ \A r \in Requests : FlagInv(r) /\ StatusInv(r) /\ BodyInv(r)

\* The header map is the handler's from the moment it has filled it in until it
\* is sent, unless Timeout has claimed the response meanwhile.
HeaderInv ==
    \A r \in Requests :
        /\ handler[r] \in {"claim", "writeHeader"} /\ ~timedOut[r] => header[r] = "handler"
        /\ status[r] = "handler" => sentType[r] = "handler"

-----------------------------------------------------------------------------
LEMMA Init_ResponseInv == Init => ResponseInv
<1> SUFFICES ASSUME Init PROVE ResponseInv
  OBVIOUS
<1>1. pattern \in [Requests -> [metrics : Patterns, mux : Patterns]]
  BY DEF Init, Patterns
<1>2. TypeOK
  BY <1>1 DEF Init, TypeOK, ServerSteps, HandlerSteps, Authors, Patterns
<1>3. ASSUME NEW r \in Requests PROVE FlagInv(r) /\ StatusInv(r) /\ BodyInv(r)
  BY <1>3, ZenonT(60) DEF Init, FlagInv, StatusInv, BodyInv
<1> QED
  BY <1>2, <1>3 DEF ResponseInv

LEMMA Next_ResponseInv == ResponseInv /\ [Next]_vars => ResponseInv'
<1> SUFFICES ASSUME ResponseInv, [Next]_vars PROVE ResponseInv'
  OBVIOUS
<1> USE DEF ResponseInv, TypeOK, ServerSteps, HandlerSteps, Authors, Patterns,
            recorder, wire, route
<1>1. ASSUME NEW r \in Requests, Dispatch(r) PROVE ResponseInv'
  <2>1. TypeOK'
    <3>1. PICK p \in {"", "pattern"} : pattern' = [pattern EXCEPT ![r].mux = p]
      BY <1>1 DEF Dispatch
    <3>2. [pattern[r] EXCEPT !.mux = p] \in [metrics : Patterns, mux : Patterns]
      <4>1. pattern[r] \in [metrics : Patterns, mux : Patterns]
        OBVIOUS
      <4>2. p \in Patterns
        BY <3>1
      <4> HIDE DEF Patterns
      <4> QED
        BY <4>1, <4>2
    <3>3. pattern' \in [Requests -> [metrics : Patterns, mux : Patterns]]
      BY <3>1, <3>2
    <3> QED
      BY <1>1, <3>3 DEF Dispatch, Advance
  <2>2. ASSUME NEW s \in Requests PROVE (FlagInv(s) /\ StatusInv(s) /\ BodyInv(s))'
    BY <1>1, <2>2, ZenonT(60) DEF Dispatch, Advance, FlagInv, StatusInv, BodyInv
  <2> QED
    BY <2>1, <2>2
<1>2. ASSUME NEW r \in Requests, Work(r) PROVE ResponseInv'
  <2>1. TypeOK'
    BY <1>2 DEF Work, Advance
  <2>2. ASSUME NEW s \in Requests PROVE (FlagInv(s) /\ StatusInv(s) /\ BodyInv(s))'
    BY <1>2, <2>2, ZenonT(60) DEF Work, Advance, FlagInv, StatusInv, BodyInv
  <2> QED
    BY <2>1, <2>2
<1>3. ASSUME NEW r \in Requests, Panic(r) PROVE ResponseInv'
  <2>1. TypeOK'
    BY <1>3 DEF Panic, Advance
  <2>2. ASSUME NEW s \in Requests PROVE (FlagInv(s) /\ StatusInv(s) /\ BodyInv(s))'
    BY <1>3, <2>2, ZenonT(60) DEF Panic, Advance, FlagInv, StatusInv, BodyInv
  <2> QED
    BY <2>1, <2>2
<1>4. ASSUME NEW r \in Requests, SetHeader(r) PROVE ResponseInv'
  <2>1. TypeOK'
    BY <1>4 DEF SetHeader, Advance
  <2>2. ASSUME NEW s \in Requests PROVE (FlagInv(s) /\ StatusInv(s) /\ BodyInv(s))'
    BY <1>4, <2>2, ZenonT(60) DEF SetHeader, Advance, FlagInv, StatusInv, BodyInv
  <2> QED
    BY <2>1, <2>2
<1>5. ASSUME NEW r \in Requests, ConcurrentMapAccess(r) PROVE ResponseInv'
  <2>1. TypeOK'
    BY <1>5 DEF ConcurrentMapAccess
  <2>2. ASSUME NEW s \in Requests PROVE (FlagInv(s) /\ StatusInv(s) /\ BodyInv(s))'
    BY <1>5, <2>2, ZenonT(60) DEF ConcurrentMapAccess, FlagInv, StatusInv, BodyInv
  <2> QED
    BY <2>1, <2>2
<1>6. ASSUME NEW r \in Requests, Claim(r) PROVE ResponseInv'
  <2>1. TypeOK'
    BY <1>6, ZenonT(60) DEF Claim, Advance
  <2>2. ASSUME NEW s \in Requests PROVE (FlagInv(s) /\ StatusInv(s) /\ BodyInv(s))'
    <3> DEFINE Typed == wroteHeader[s] \in BOOLEAN /\ timedOut[s] \in BOOLEAN
    <3>1. Typed /\ FlagInv(s) /\ StatusInv(s) /\ BodyInv(s)
      OBVIOUS
    <3>2. CASE wroteHeader[r] \/ timedOut[r]
      <4>1. handler[r] = "claim" /\ (s = r => (wroteHeader[s] \/ timedOut[s]))
        BY <1>6, <3>2 DEF Claim, Advance
      <4>2. /\ server'[s] = server[s]
            /\ handler'[s] = IF s = r THEN "check" ELSE handler[s]
            /\ wroteHeader'[s] = wroteHeader[s]
        BY <1>6, <3>2, ZenonT(60) DEF Claim, Advance
      <4>3. /\ timedOut'[s] = timedOut[s]
            /\ status'[s] = status[s]
            /\ body'[s] = body[s]
        BY <1>6, <3>2 DEF Claim, Advance
      <4> HIDE DEF ResponseInv, TypeOK, Authors, ServerSteps, HandlerSteps
      <4> QED
        BY <3>1, <4>1, <4>2, <4>3, ZenonT(60) DEF FlagInv, StatusInv, BodyInv
    <3>3. CASE ~(wroteHeader[r] \/ timedOut[r])
      <4>1. handler[r] = "claim" /\ (s = r => (~(wroteHeader[s] \/ timedOut[s])))
        BY <1>6, <3>3 DEF Claim, Advance
      <4>2. /\ server'[s] = server[s]
            /\ handler'[s] = IF s = r THEN "writeHeader" ELSE handler[s]
            /\ s = r => wroteHeader'[s]
            /\ s # r => wroteHeader'[s] = wroteHeader[s]
        <5>1. /\ server' = server /\ handler' = [handler EXCEPT ![r] = "writeHeader"]
              /\ wroteHeader' = [wroteHeader EXCEPT ![r] = TRUE]
          BY <1>6, <3>3 DEF Claim, Advance
        <5>2. handler \in [Requests -> HandlerSteps] /\ wroteHeader \in [Requests -> BOOLEAN]
          OBVIOUS
        <5> HIDE DEF ResponseInv, TypeOK, Authors, ServerSteps, HandlerSteps
        <5> QED BY <5>1, <5>2
      <4>3. /\ timedOut'[s] = timedOut[s]
            /\ status'[s] = status[s]
            /\ body'[s] = body[s]
        BY <1>6, <3>3 DEF Claim, Advance
      <4> HIDE DEF ResponseInv, TypeOK, Authors, ServerSteps, HandlerSteps
      <4> QED
        BY <3>1, <4>1, <4>2, <4>3, ZenonT(60) DEF FlagInv, StatusInv, BodyInv
    <3> QED
      BY <3>2, <3>3
  <2> QED
    BY <2>1, <2>2
<1>7. ASSUME NEW r \in Requests, WriteHeader(r) PROVE ResponseInv'
  <2>1. TypeOK'
    BY <1>7, ZenonT(60) DEF WriteHeader, Advance, sendHeader
  <2>2. ASSUME NEW s \in Requests PROVE (FlagInv(s) /\ StatusInv(s) /\ BodyInv(s))'
    <3> DEFINE Typed == wroteHeader[s] \in BOOLEAN /\ timedOut[s] \in BOOLEAN
    <3>1. Typed /\ FlagInv(s) /\ StatusInv(s) /\ BodyInv(s)
      OBVIOUS
    <3>2. CASE status[r] = "none"
      <4>1. handler[r] = "writeHeader" /\ (s = r => (status[s] = "none"))
        BY <1>7, <3>2 DEF WriteHeader, Advance, sendHeader
      <4>2. /\ server'[s] = server[s]
            /\ handler'[s] = IF s = r THEN "check" ELSE handler[s]
            /\ wroteHeader'[s] = wroteHeader[s]
        BY <1>7, <3>2 DEF WriteHeader, Advance, sendHeader
      <4>3. /\ timedOut'[s] = timedOut[s]
            /\ status'[s] = IF s = r THEN "handler" ELSE status[s]
            /\ body'[s] = body[s]
        BY <1>7, <3>2, ZenonT(60) DEF WriteHeader, Advance, sendHeader
      <4> HIDE DEF ResponseInv, TypeOK, Authors, ServerSteps, HandlerSteps
      <4> QED
        BY <3>1, <4>1, <4>2, <4>3, ZenonT(60) DEF FlagInv, StatusInv, BodyInv
    <3>3. CASE status[r] # "none"
      <4>1. handler[r] = "writeHeader" /\ (s = r => (status[s] # "none"))
        BY <1>7, <3>3 DEF WriteHeader, Advance, sendHeader
      <4>2. /\ server'[s] = server[s]
            /\ handler'[s] = IF s = r THEN "check" ELSE handler[s]
            /\ wroteHeader'[s] = wroteHeader[s]
        BY <1>7, <3>3 DEF WriteHeader, Advance, sendHeader
      <4>3. /\ timedOut'[s] = timedOut[s]
            /\ status'[s] = status[s]
            /\ body'[s] = body[s]
        BY <1>7, <3>3 DEF WriteHeader, Advance, sendHeader
      <4> HIDE DEF ResponseInv, TypeOK, Authors, ServerSteps, HandlerSteps
      <4> QED
        BY <3>1, <4>1, <4>2, <4>3, ZenonT(60) DEF FlagInv, StatusInv, BodyInv
    <3> QED
      BY <3>2, <3>3
  <2> QED
    BY <2>1, <2>2
<1>8. ASSUME NEW r \in Requests, Check(r) PROVE ResponseInv'
  <2>1. TypeOK'
    BY <1>8 DEF Check, Advance, dropsWrite
  <2>2. ASSUME NEW s \in Requests PROVE (FlagInv(s) /\ StatusInv(s) /\ BodyInv(s))'
    BY <1>8, <2>2, ZenonT(60) DEF Check, Advance, dropsWrite, FlagInv, StatusInv, BodyInv
  <2> QED
    BY <2>1, <2>2
<1>9. ASSUME NEW r \in Requests, Write(r) PROVE ResponseInv'
  <2>1. TypeOK'
    BY <1>9 DEF Write, Advance, sendBody
  <2>2. ASSUME NEW s \in Requests PROVE (FlagInv(s) /\ StatusInv(s) /\ BodyInv(s))'
    BY <1>9, <2>2, ZenonT(60) DEF Write, Advance, sendBody, FlagInv, StatusInv, BodyInv
  <2> QED
    BY <2>1, <2>2
<1>10. ASSUME NEW r \in Requests, Done(r) PROVE ResponseInv'
  <2>1. TypeOK'
    BY <1>10 DEF Done, Advance
  <2>2. ASSUME NEW s \in Requests PROVE (FlagInv(s) /\ StatusInv(s) /\ BodyInv(s))'
    BY <1>10, <2>2, ZenonT(60) DEF Done, Advance, FlagInv, StatusInv, BodyInv
  <2> QED
    BY <2>1, <2>2
<1>11. ASSUME NEW r \in Requests, Deadline(r) PROVE ResponseInv'
  <2>1. TypeOK'
    BY <1>11, ZenonT(60) DEF Deadline, Advance, markTimedOut
  <2>2. ASSUME NEW s \in Requests PROVE (FlagInv(s) /\ StatusInv(s) /\ BodyInv(s))'
    <3> DEFINE Typed == wroteHeader[s] \in BOOLEAN /\ timedOut[s] \in BOOLEAN
    <3>1. Typed /\ FlagInv(s) /\ StatusInv(s) /\ BodyInv(s)
      OBVIOUS
    <3>2. CASE ~wroteHeader[r]
      <4>1. server[r] = "select" /\ (s = r => (~wroteHeader[s]))
        BY <1>11, <3>2 DEF Deadline, Advance, markTimedOut
      <4>2. /\ server'[s] = IF s = r THEN "set" ELSE server[s]
            /\ handler'[s] = handler[s]
            /\ wroteHeader'[s] = wroteHeader[s]
        BY <1>11, <3>2, ZenonT(60) DEF Deadline, Advance, markTimedOut
      <4>3. /\ timedOut'[s] = IF s = r THEN TRUE ELSE timedOut[s]
            /\ status'[s] = status[s]
            /\ body'[s] = body[s]
        BY <1>11, <3>2 DEF Deadline, Advance, markTimedOut
      <4> HIDE DEF ResponseInv, TypeOK, Authors, ServerSteps, HandlerSteps
      <4> QED
        BY <3>1, <4>1, <4>2, <4>3, ZenonT(60) DEF FlagInv, StatusInv, BodyInv
    <3>3. CASE wroteHeader[r]
      <4>1. server[r] = "select" /\ (s = r => (wroteHeader[s]))
        BY <1>11, <3>3 DEF Deadline, Advance, markTimedOut
      <4>2. /\ server'[s] = IF s = r THEN "returned" ELSE server[s]
            /\ handler'[s] = handler[s]
            /\ wroteHeader'[s] = wroteHeader[s]
        BY <1>11, <3>3 DEF Deadline, Advance, markTimedOut
      <4>3. /\ timedOut'[s] = timedOut[s]
            /\ status'[s] = status[s]
            /\ body'[s] = body[s]
        BY <1>11, <3>3 DEF Deadline, Advance, markTimedOut
      <4> HIDE DEF ResponseInv, TypeOK, Authors, ServerSteps, HandlerSteps
      <4> QED
        BY <3>1, <4>1, <4>2, <4>3, ZenonT(60) DEF FlagInv, StatusInv, BodyInv
    <3> QED
      BY <3>2, <3>3
  <2> QED
    BY <2>1, <2>2
<1>12. ASSUME NEW r \in Requests, ProblemHeader(r) PROVE ResponseInv'
  <2>1. TypeOK'
    BY <1>12 DEF ProblemHeader, Advance
  <2>2. ASSUME NEW s \in Requests PROVE (FlagInv(s) /\ StatusInv(s) /\ BodyInv(s))'
    BY <1>12, <2>2, ZenonT(60) DEF ProblemHeader, Advance, FlagInv, StatusInv, BodyInv
  <2> QED
    BY <2>1, <2>2
<1>13. ASSUME NEW r \in Requests, ProblemStatus(r) PROVE ResponseInv'
  <2>1. TypeOK'
    BY <1>13, ZenonT(60) DEF ProblemStatus, Advance, sendHeader
  <2>2. ASSUME NEW s \in Requests PROVE (FlagInv(s) /\ StatusInv(s) /\ BodyInv(s))'
    <3> DEFINE Typed == wroteHeader[s] \in BOOLEAN /\ timedOut[s] \in BOOLEAN
    <3>1. Typed /\ FlagInv(s) /\ StatusInv(s) /\ BodyInv(s)
      OBVIOUS
    <3>2. CASE status[r] = "none"
      <4>1. server[r] = "writeHeader" /\ (s = r => (status[s] = "none"))
        BY <1>13, <3>2 DEF ProblemStatus, Advance, sendHeader
      <4>2. /\ server'[s] = IF s = r THEN "write" ELSE server[s]
            /\ handler'[s] = handler[s]
            /\ wroteHeader'[s] = wroteHeader[s]
        BY <1>13, <3>2 DEF ProblemStatus, Advance, sendHeader
      <4>3. /\ timedOut'[s] = timedOut[s]
            /\ status'[s] = IF s = r THEN "timeout" ELSE status[s]
            /\ body'[s] = body[s]
        BY <1>13, <3>2, ZenonT(60) DEF ProblemStatus, Advance, sendHeader
      <4> HIDE DEF ResponseInv, TypeOK, Authors, ServerSteps, HandlerSteps
      <4> QED
        BY <3>1, <4>1, <4>2, <4>3, ZenonT(60) DEF FlagInv, StatusInv, BodyInv
    <3>3. CASE status[r] # "none"
      <4>1. server[r] = "writeHeader" /\ (s = r => (status[s] # "none"))
        BY <1>13, <3>3 DEF ProblemStatus, Advance, sendHeader
      <4>2. /\ server'[s] = IF s = r THEN "write" ELSE server[s]
            /\ handler'[s] = handler[s]
            /\ wroteHeader'[s] = wroteHeader[s]
        BY <1>13, <3>3 DEF ProblemStatus, Advance, sendHeader
      <4>3. /\ timedOut'[s] = timedOut[s]
            /\ status'[s] = status[s]
            /\ body'[s] = body[s]
        BY <1>13, <3>3 DEF ProblemStatus, Advance, sendHeader
      <4> HIDE DEF ResponseInv, TypeOK, Authors, ServerSteps, HandlerSteps
      <4> QED
        BY <3>1, <4>1, <4>2, <4>3, ZenonT(60) DEF FlagInv, StatusInv, BodyInv
    <3> QED
      BY <3>2, <3>3
  <2> QED
    BY <2>1, <2>2
<1>14. ASSUME NEW r \in Requests, ProblemBody(r) PROVE ResponseInv'
  <2>1. TypeOK'
    BY <1>14 DEF ProblemBody, Advance, sendBody
  <2>2. ASSUME NEW s \in Requests PROVE (FlagInv(s) /\ StatusInv(s) /\ BodyInv(s))'
    BY <1>14, <2>2, ZenonT(60) DEF ProblemBody, Advance, sendBody, FlagInv, StatusInv, BodyInv
  <2> QED
    BY <2>1, <2>2
<1>15. ASSUME NEW r \in Requests, Observe(r) PROVE ResponseInv'
  <2>1. TypeOK'
    BY <1>15 DEF Observe, Advance, routeOf
  <2>2. ASSUME NEW s \in Requests PROVE (FlagInv(s) /\ StatusInv(s) /\ BodyInv(s))'
    BY <1>15, <2>2, ZenonT(60) DEF Observe, Advance, routeOf, FlagInv, StatusInv, BodyInv
  <2> QED
    BY <2>1, <2>2
<1>16. ASSUME NEW r \in Requests, Finish(r) PROVE ResponseInv'
  <2>1. TypeOK'
    BY <1>16, ZenonT(60) DEF Finish, Advance, sendHeader
  <2>2. ASSUME NEW s \in Requests PROVE (FlagInv(s) /\ StatusInv(s) /\ BodyInv(s))'
    <3> DEFINE Typed == wroteHeader[s] \in BOOLEAN /\ timedOut[s] \in BOOLEAN
    <3>1. Typed /\ FlagInv(s) /\ StatusInv(s) /\ BodyInv(s)
      OBVIOUS
    <3>2. CASE status[r] = "none"
      <4>1. server[r] = "observed" /\ (s = r => (status[s] = "none"))
        BY <1>16, <3>2 DEF Finish, Advance, sendHeader
      <4>2. /\ server'[s] = IF s = r THEN "finished" ELSE server[s]
            /\ handler'[s] = handler[s]
            /\ wroteHeader'[s] = wroteHeader[s]
        BY <1>16, <3>2 DEF Finish, Advance, sendHeader
      <4>3. /\ timedOut'[s] = timedOut[s]
            /\ status'[s] = IF s = r THEN "implicit" ELSE status[s]
            /\ body'[s] = body[s]
        BY <1>16, <3>2, ZenonT(60) DEF Finish, Advance, sendHeader
      <4> HIDE DEF ResponseInv, TypeOK, Authors, ServerSteps, HandlerSteps
      <4> QED
        BY <3>1, <4>1, <4>2, <4>3, ZenonT(60) DEF FlagInv, StatusInv, BodyInv
    <3>3. CASE status[r] # "none"
      <4>1. server[r] = "observed" /\ (s = r => (status[s] # "none"))
        BY <1>16, <3>3 DEF Finish, Advance, sendHeader
      <4>2. /\ server'[s] = IF s = r THEN "finished" ELSE server[s]
            /\ handler'[s] = handler[s]
            /\ wroteHeader'[s] = wroteHeader[s]
        BY <1>16, <3>3 DEF Finish, Advance, sendHeader
      <4>3. /\ timedOut'[s] = timedOut[s]
            /\ status'[s] = status[s]
            /\ body'[s] = body[s]
        BY <1>16, <3>3 DEF Finish, Advance, sendHeader
      <4> HIDE DEF ResponseInv, TypeOK, Authors, ServerSteps, HandlerSteps
      <4> QED
        BY <3>1, <4>1, <4>2, <4>3, ZenonT(60) DEF FlagInv, StatusInv, BodyInv
    <3> QED
      BY <3>2, <3>3
  <2> QED
    BY <2>1, <2>2
<1>17. ASSUME NEW r \in Requests, Expire(r) PROVE ResponseInv'
  <2>1. TypeOK'
    BY <1>17 DEF Expire
  <2>2. ASSUME NEW s \in Requests PROVE (FlagInv(s) /\ StatusInv(s) /\ BodyInv(s))'
    BY <1>17, <2>2, ZenonT(60) DEF Expire, FlagInv, StatusInv, BodyInv
  <2> QED
    BY <2>1, <2>2
<1>18. CASE UNCHANGED vars
  BY <1>18, ZenonT(60) DEF vars, FlagInv, StatusInv, BodyInv
<1> QED
  BY <1>1, <1>2, <1>3, <1>4, <1>5, <1>6, <1>7, <1>8, <1>9, <1>10, <1>11, <1>12, <1>13, <1>14, <1>15, <1>16, <1>17, <1>18 DEF Next, HandlerNext, ServerNext

\* TypeOK holds throughout: the route label of a request is one of a fixed
\* set of values whatever path was asked for.
THEOREM ResponseTypes == Spec => []TypeOK
<1>1. ResponseInv => TypeOK
  BY DEF ResponseInv
<1> QED
  BY <1>1, Init_ResponseInv, Next_ResponseInv, PTL DEF Spec

\* OneAuthor: the recorder never lets the bytes of the handler and of the
\* timeout meet in one response.
THEOREM AnswersKeptApart == Spec => []OneAuthor
<1>1. ResponseInv => OneAuthor
  BY DEF ResponseInv, BodyInv, OneAuthor
<1> QED
  BY <1>1, Init_ResponseInv, Next_ResponseInv, PTL DEF Spec

\* ClaimIsAnswered: a response claimed by markTimedOut is the whole 504.
THEOREM ClaimsAreAnswered == Spec => []ClaimIsAnswered
<1>1. ResponseInv => ClaimIsAnswered
  BY DEF ResponseInv, StatusInv, BodyInv, ClaimIsAnswered
<1> QED
  BY <1>1, Init_ResponseInv, Next_ResponseInv, PTL DEF Spec

-----------------------------------------------------------------------------
(* The headers of the handler's answers.                                   *)

LEMMA Next_HeaderInv == ResponseInv /\ HeaderInv /\ [Next]_vars => HeaderInv'
<1> SUFFICES ASSUME ResponseInv, HeaderInv, [Next]_vars, NEW s \in Requests
             PROVE  (/\ handler[s] \in {"claim", "writeHeader"} /\ ~timedOut[s] => header[s] = "handler"
                     /\ status[s] = "handler" => sentType[s] = "handler")'
  BY DEF HeaderInv
<1> DEFINE Goal == /\ handler[s] \in {"claim", "writeHeader"} /\ ~timedOut[s] => header[s] = "handler"
                   /\ status[s] = "handler" => sentType[s] = "handler"
<1>0. /\ handler \in [Requests -> HandlerSteps] /\ header \in [Requests -> Authors]
      /\ timedOut \in [Requests -> BOOLEAN] /\ wroteHeader \in [Requests -> BOOLEAN]
      /\ status \in [Requests -> Authors] /\ sentType \in [Requests -> Authors]
      /\ server \in [Requests -> ServerSteps]
  BY DEF ResponseInv, TypeOK
<1>1. Goal
  BY DEF HeaderInv
<1>2. \A r \in Requests : FlagInv(r)
  BY DEF ResponseInv
<1> USE DEF recorder, wire, route, Advance
<1>3. ASSUME NEW r \in Requests, Dispatch(r) PROVE Goal'
  BY <1>0, <1>1, <1>3 DEF Dispatch
<1>4. ASSUME NEW r \in Requests, Work(r) PROVE Goal'
  BY <1>0, <1>1, <1>4 DEF Work
<1>5. ASSUME NEW r \in Requests, Panic(r) PROVE Goal'
  BY <1>0, <1>1, <1>5 DEF Panic
<1>6. ASSUME NEW r \in Requests, SetHeader(r) PROVE Goal'
  BY <1>0, <1>1, <1>6 DEF SetHeader
<1>7. ASSUME NEW r \in Requests, ConcurrentMapAccess(r) PROVE Goal'
  BY <1>0, <1>1, <1>7 DEF ConcurrentMapAccess
<1>8. ASSUME NEW r \in Requests, Check(r) PROVE Goal'
  BY <1>0, <1>1, <1>8 DEF Check
<1>9. ASSUME NEW r \in Requests, Write(r) PROVE Goal'
  BY <1>0, <1>1, <1>9 DEF Write
<1>10. ASSUME NEW r \in Requests, Done(r) PROVE Goal'
  BY <1>0, <1>1, <1>10 DEF Done
<1>11. ASSUME NEW r \in Requests, ProblemBody(r) PROVE Goal'
  BY <1>0, <1>1, <1>11 DEF ProblemBody
<1>12. ASSUME NEW r \in Requests, Observe(r) PROVE Goal'
  BY <1>0, <1>1, <1>12 DEF Observe
<1>13. ASSUME NEW r \in Requests, Expire(r) PROVE Goal'
  BY <1>0, <1>1, <1>13 DEF Expire
<1>14. ASSUME NEW r \in Requests, Claim(r) PROVE Goal'
  BY <1>0, <1>1, <1>14 DEF Claim
<1>15. ASSUME NEW r \in Requests, WriteHeader(r) PROVE Goal'
  \* The claim excludes a timeout, so the map is still the handler's.
  <2>1. handler[r] = "writeHeader" /\ ~timedOut[r]
    BY <1>0, <1>2, <1>15 DEF WriteHeader, FlagInv
  <2> QED BY <1>0, <1>1, <1>15, <2>1 DEF WriteHeader, sendHeader
<1>16. ASSUME NEW r \in Requests, Deadline(r) PROVE Goal'
  BY <1>0, <1>1, <1>16 DEF Deadline
<1>17. ASSUME NEW r \in Requests, ProblemHeader(r) PROVE Goal'
  \* Timeout fills the map in after its own claim only.
  <2>1. timedOut[r]
    BY <1>2, <1>17 DEF ProblemHeader, FlagInv
  <2> QED BY <1>0, <1>1, <1>17, <2>1 DEF ProblemHeader
<1>18. ASSUME NEW r \in Requests, ProblemStatus(r) PROVE Goal'
  BY <1>0, <1>1, <1>18 DEF ProblemStatus, sendHeader
<1>19. ASSUME NEW r \in Requests, Finish(r) PROVE Goal'
  BY <1>0, <1>1, <1>19 DEF Finish, sendHeader
<1>20. CASE UNCHANGED vars
  BY <1>1, <1>20 DEF vars
<1> QED
  BY <1>3, <1>4, <1>5, <1>6, <1>7, <1>8, <1>9, <1>10, <1>11, <1>12, <1>13, <1>14, <1>15, <1>16, <1>17, <1>18, <1>19, <1>20
  DEF Next, HandlerNext, ServerNext

\* HandlerOwnsHeaders: an answer of the handler goes out with its own headers,
\* and never for a request that Timeout has claimed.
THEOREM HeadersKeptApart == Spec => []HandlerOwnsHeaders
<1>1. Init => HeaderInv
  BY DEF Init, HeaderInv
<1>2. ResponseInv /\ HeaderInv => HandlerOwnsHeaders
  <2> SUFFICES ASSUME ResponseInv, HeaderInv, NEW r \in Requests, status[r] = "handler"
               PROVE  sentType[r] = "handler" /\ ~timedOut[r]
    BY DEF HandlerOwnsHeaders
  <2>1. sentType[r] = "handler"
    BY DEF HeaderInv
  <2>2. FlagInv(r) /\ StatusInv(r)
    BY DEF ResponseInv
  <2>3. ~timedOut[r]
    BY <2>2 DEF FlagInv, StatusInv
  <2> QED BY <2>1, <2>3
<1> QED
  BY <1>1, <1>2, Init_ResponseInv, Next_ResponseInv, Next_HeaderInv, PTL DEF Spec
==============================================================================
