------------------------------- MODULE Registry ------------------------------
(***************************************************************************)
(* What the platform promises to the clients of its device registry: ids   *)
(* are registered once, each at one moment, and answers tell the truth.    *)
(* There are no replicas, retries, spellings or repositories here.         *)
(*                                                                         *)
(* A creation that was answered with an error may still be carried out     *)
(* afterwards: "the handler answers 5xx" says nothing about its effect.    *)
(***************************************************************************)
EXTENDS Integers

CONSTANTS Clients, Ids

VARIABLES
    table,   \* the registered devices: a function on their ids
    call,    \* each client's request: what it asks for, or how it was answered
    orphans  \* creations that nobody waits for and that may still happen

vars == <<table, call, orphans>>

Creating(q) == q.busy /\ q.kind = "create"
Creation(q) == [id |-> q.id, device |-> q.device]

Init ==
    /\ DOMAIN table \subseteq Ids
    /\ DOMAIN call = Clients /\ \A c \in Clients : ~call[c].busy
    /\ orphans = {}

-----------------------------------------------------------------------------
(* Steps of client c, whose request is q before and r after the step.      *)

OnlyCall(c) == UNCHANGED table /\ \A d \in Clients \ {c} : call'[d] = call[d]

\* The client asks.  A lookup remembers whether the device was there.
Begin(c, q, r) ==
    /\ ~q.busy /\ r.busy
    /\ r.there = (r.kind \in {"get", "score"} /\ r.id \in DOMAIN table)
    /\ OnlyCall(c) /\ UNCHANGED orphans

\* A request that makes no sense is refused at once.
Refuse(c, q, r) ==
    /\ ~q.busy /\ ~r.busy /\ r.status = 400
    /\ OnlyCall(c) /\ UNCHANGED orphans

\* What q may be answered: 201 and 409 by what is registered under the id, 404
\* only for a device that was not there when the lookup began, and a full
\* result only for one that is there.
Truthful(q, r) ==
    /\ q.kind = "create" /\ r.status = 201 => q.id \in DOMAIN table /\ table[q.id] = q.device
    /\ q.kind = "create" /\ r.status = 409 => q.id \in DOMAIN table
    /\ q.kind \in {"get", "score"} /\ r.status = 404 => ~q.there
    /\ q.kind \in {"get", "score"} /\ r.status = 200 /\ r.full => q.id \in DOMAIN table

\* The client is answered.
Answer(c, q, r) ==
    /\ q.busy /\ ~r.busy /\ Truthful(q, r)
    /\ OnlyCall(c)
    /\ orphans' = orphans \/ (Creating(q) /\ orphans' = orphans \cup {Creation(q)})

\* An attempt to create is left behind.
Leave(q) ==
    /\ Creating(q)
    /\ orphans' = orphans \cup {Creation(q)}
    /\ UNCHANGED <<table, call>>

(* Steps of a creation m.                                                  *)

\* It takes effect, if its id is still free.
Register(m) ==
    /\ m.id \in Ids \ DOMAIN table
    /\ table' = [i \in DOMAIN table \cup {m.id} |-> IF i = m.id THEN m.device ELSE table[i]]
    /\ orphans' \in {orphans, orphans \ {m}}
    /\ UNCHANGED call

\* It comes to nothing.
Drop(m) == orphans' = orphans \ {m} /\ UNCHANGED <<table, call>>

Next ==
    \/ \E c \in Clients :
         LET q == call[c]
             r == call'[c]
         IN  \/ Begin(c, q, r) \/ Refuse(c, q, r) \/ Answer(c, q, r) \/ Leave(q)
             \/ Creating(q) /\ Register(Creation(q))
    \/ \E m \in orphans : Drop(m) \/ Register(m)

Spec == Init /\ [][Next]_vars
==============================================================================
