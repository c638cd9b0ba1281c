------------------------------- MODULE Gateway -------------------------------
(***************************************************************************)
(* The gateway's handlers (internal/gateway/handler.go) in front of the    *)
(* catalog and the scorer: clients that create, read, list and score       *)
(* through it, over calls that are retried and may be lost on their way,   *)
(* carried out and not answered, or carried out late.                      *)
(*                                                                         *)
(* Requests meet only in the catalog, so each one accounts for its own     *)
(* time: left is what remains of its deadline, and every attempt, backoff  *)
(* and scorer call takes some of it.  The retry loop is that of module     *)
(* Upstream without jitter; its breaker's rejections are attempts that     *)
(* fail before they are sent.                                              *)
(***************************************************************************)
EXTENDS Catalog

CONSTANTS
    Clients,        \* each with one request at a time
    Writers, Readers, Walkers,  \* those that create, that look up, that list
    Existing,       \* ids the database holds when the model begins
    Limits,         \* page sizes clients ask for
    Degrade,        \* DEGRADE_ON_CATALOG_FAILURE
    MaxAttempts,    \* RetryConfig.MaxAttempts
    CallTime,       \* UPSTREAM_TIMEOUT: the longest an attempt takes
    CallTimes,      \* bound of the model: how long attempts take, CallTime at most
    Backoff,        \* the delay before a retry
    Deadline,       \* REQUEST_TIMEOUT, on every request's context
    MaxCreates      \* bound of the model: devices a client tries to create

ASSUME GatewayAssumption ==
    /\ Writers \cup Readers \cup Walkers \subseteq Clients
    /\ Existing \subseteq Ids
    /\ Limits \subseteq Int /\ Degrade \in BOOLEAN
    /\ MaxAttempts \in Nat \ {0} /\ CallTime \in Nat /\ Backoff \in Nat
    /\ CallTimes \subseteq 0 .. CallTime
    /\ Deadline \in Nat \ {0} /\ MaxCreates \in Nat

VARIABLES
    g,      \* each client's request in the gateway
    walk,   \* each client's progress through a listing
    posts,  \* how many devices each client has tried to create
    late    \* creations given up by the gateway and still on their way

vars == <<store, devices, g, walk, posts, late>>

NoStatus == 0
Somebody == <<>>          \* who created the existing devices
BadLimit == -1            \* a limit that is no number, or a negative one
Elsewhere == "elsewhere"  \* a site where only they may be

\* Strings that idPattern refuses and that the path of a lookup, made without
\* url.PathEscape, changes into something else: one that a URL cuts off behind
\* the id i, at a ? or a #, or unescapes to it (BadId + i); one that is a
\* relative path (Dots); and one that makes no URL (Garbled).
Altered == {BadId + i : i \in Respelled}
Dots == BadId + MaxId + 1
Garbled == BadId + MaxId + 2
Strings == RawIds \cup Altered \cup {Dots, Garbled}

\* The id that "/v1/devices/" + raw names, when it names one.
pathId(raw) == IF raw > BadId THEN raw - BadId ELSE raw

\* The id a client means by a spelling, whatever the code makes of it.
meant(raw) == IF raw < 0 THEN -raw ELSE raw

\* The id a request is about: the one that is spelled, and for a string that
\* spells none the one it is changed into.
subject(raw) == meant(IF raw \in RawIds THEN raw ELSE pathId(raw))

\* A request without content: kind is create, get, list or score, and phase is
\* sent, replied or score until it is done.  attempt and left are what Retry
\* and the request's deadline count; reply, page and next are the catalog's
\* answer on its way back; result is what the client was answered; registered is
\* history: was the device there when the request began?
NoRequest ==
    [kind |-> "get", phase |-> "done", raw |-> NoId, site |-> NoSite, attempt |-> 1,
     left |-> Deadline, reply |-> NoStatus, page |-> {}, next |-> NoId,
     degraded |-> FALSE, registered |-> FALSE, result |-> NoStatus]

\* A walk through the pages that is off, and not on or done: the query, the
\* next_cursor, how many devices the pages have listed (count) and which ones
\* (seen), and history: the devices that were there when it began (known).
NoWalk ==
    [state |-> "off", limit |-> 0, cursor |-> NoId, seen |-> {}, count |-> 0,
     known |-> {}, site |-> NoSite]

-----------------------------------------------------------------------------
(* The handlers, as functions of the request.                              *)

\* An answer, with what it says about a device.
answered(q, status) ==
    LET r == [NoRequest EXCEPT !.result = status]
    IN  CASE status \in {200, 201, 409} ->
               [r EXCEPT !.kind = q.kind, !.raw = q.raw, !.site = q.site, !.degraded = q.degraded]
          [] status = 404 -> [r EXCEPT !.registered = q.registered]
          [] OTHER -> r

\* The call of the catalog is over, and ScoreReading goes on to the scorer.
enriched(q) == [q EXCEPT !.phase = "score", !.attempt = 1, !.reply = NoStatus]

\* An upstream call ended with an error: proxy answers 503; ScoreReading goes
\* on without the device, if it may.
callFailed(q) ==
    IF q.kind = "score" /\ Degrade
    THEN [enriched(q) EXCEPT !.degraded = TRUE]
    ELSE answered(q, 503)

\* Seeded fault: the attempts are not counted.
Fault_attemptUncounted(q) == q.attempt

\* The loop variable of Retry.
nextAttempt(q) == q.attempt + 1

\* An attempt failed after t, before the deadline: the loop goes on, or the call
\* has failed.
attemptFailed(q, t) ==
    LET spent == [q EXCEPT !.left = @ - t]
    IN  IF q.attempt < MaxAttempts /\ spent.left > Backoff
        THEN [spent EXCEPT !.phase = "sent", !.attempt = nextAttempt(q),
                           !.left = @ - Backoff, !.reply = NoStatus]
        ELSE callFailed(spent)

\* The same, or the deadline passed: then the handler's error and the answer of
\* Timeout race.
failures(q, t) ==
    IF t = q.left THEN {answered(q, 503), answered(q, 504)} ELSE {attemptFailed(q, t)}

\* The catalog has handled an attempt, and its answer is on the way.
replied(q, status, answer) ==
    [q EXCEPT !.phase = "replied", !.reply = status, !.page = answer.ids, !.next = answer.next]

\* ScoreReading, with the catalog's answer to fetchDevice.
enrich(q) ==
    CASE q.reply = 200 -> enriched(q)
      [] q.reply = 404 -> answered(q, 404)
      [] OTHER         -> callFailed(q)

\* The catalog's answer arrives after t: proxy passes it on, errors included;
\* attempt turns a 5xx into an error.
received(q, t) ==
    LET spent == [q EXCEPT !.left = @ - t]
    IN  IF q.reply = 500 THEN attemptFailed(q, t)
        ELSE IF q.kind = "score" THEN enrich(spent)
        ELSE answered(spent, q.reply)

\* The client's side of a listing, with a page received; the limit is no longer
\* of interest after the last one.
turnPage(w, q) ==
    LET more == q.next # NoId
    IN  [w EXCEPT !.seen = @ \cup q.page, !.count = @ + Cardinality(q.page), !.cursor = q.next,
                  !.state = IF more THEN "on" ELSE "done", !.limit = IF more THEN @ ELSE 0]

-----------------------------------------------------------------------------
(* The actions.                                                            *)

Init ==
    /\ store \in {"memory", "postgres"}
    /\ devices \in [IF store = "memory" THEN {} ELSE Existing ->
                     [site : Sites \cup {Elsewhere}, owner : {Somebody}]]
    /\ g = [c \in Clients |-> NoRequest]
    /\ walk = [c \in Clients |-> NoWalk]
    /\ posts = [c \in Clients |-> 0]
    /\ late = {}

Accept(c, kind, raw, site) ==
    /\ g[c].phase = "done"
    /\ g' = [g EXCEPT ![c] = [NoRequest EXCEPT !.kind = kind, !.phase = "sent", !.raw = raw,
                                               !.site = site,
                                               !.registered = kind \in {"get", "score"} /\ subject(raw) \in DOMAIN devices]]
    /\ UNCHANGED <<store, devices, late>>

\* POST /api/v1/devices.  A blank id is one of those that Validate refuses.
CreateDevice(c) ==
    /\ c \in Writers /\ posts[c] < MaxCreates
    /\ \E raw \in RawIds \ {NoId}, site \in Sites : Accept(c, "create", raw, site)
    /\ posts' = [posts EXCEPT ![c] = @ + 1]
    /\ walk' = [walk EXCEPT ![c] = NoWalk]

\* A body that cannot be read, or a reading to score with no device, no values or
\* too many: answered without a call.
RejectInput(c) ==
    /\ g[c].phase = "done"
    /\ \E kind \in {k \in {"create", "score"} : c \in IF k = "create" THEN Writers ELSE Readers} :
         g' = [g EXCEPT ![c] = answered([NoRequest EXCEPT !.kind = kind], 400)]
    /\ walk' = [walk EXCEPT ![c] = NoWalk]
    /\ UNCHANGED <<store, devices, posts, late>>

\* GET /api/v1/devices/{id}, and POST /api/v1/readings/score past the checks
\* of its input.
Lookup(c) ==
    /\ c \in Readers
    /\ \E kind \in {"get", "score"}, raw \in Strings : Accept(c, kind, raw, NoSite)
    /\ walk' = [walk EXCEPT ![c] = NoWalk]
    /\ UNCHANGED posts

\* GET /api/v1/devices, the first page of a listing.
ListDevices(c) ==
    /\ c \in Walkers /\ walk[c].state # "on"
    /\ \E site \in Sites \cup {NoSite}, limit \in Limits \cup {BadLimit} :
         /\ Accept(c, "list", NoId, site)
         /\ walk' = [walk EXCEPT ![c] =
                       [NoWalk EXCEPT !.state = "on", !.limit = limit, !.site = site,
                                      !.known = DOMAIN devices]]
    /\ UNCHANGED posts

\* The page after it, or the same page again if it was not answered.
NextPage(c) ==
    /\ walk[c].state = "on"
    /\ Accept(c, "list", NoId, walk[c].site)
    /\ UNCHANGED <<walk, posts>>

\* GET "/v1/devices/" + raw, as the status the catalog answers.  Its mux
\* redirects a relative path to the listing, and the HTTP client follows.
lookupStatus(raw) == IF raw = Dots THEN listStatus(0) ELSE getStatus(pathId(raw))

DeviceOf(c) == [site |-> g[c].site, owner |-> <<c, posts[c]>>]

\* The catalog handles an attempt.
Serve(c) ==
    /\ g[c].phase = "sent"
    /\ \E status \in {200, 201, 400, 404, 409, 500} :
         /\ \/ g[c].kind = "create" /\ Create(g[c].raw, DeviceOf(c), status)
            \/ /\ g[c].kind \in {"get", "score"} /\ g[c].raw # Garbled
               /\ \/ status = lookupStatus(g[c].raw)
                  \/ status = 500 /\ mayFail /\ lookupStatus(g[c].raw) # 400
               /\ UNCHANGED devices
            \/ /\ g[c].kind = "list"
               /\ \/ status = listStatus(walk[c].limit)
                  \/ status = 500 /\ mayFail /\ listStatus(walk[c].limit) = 200
               /\ UNCHANGED devices
         /\ LET answer == IF g[c].kind = "list" /\ status = 200
                          THEN List(g[c].site, walk[c].cursor, walk[c].limit)
                          ELSE [ids |-> {}, next |-> NoId]
            IN  g' = [g EXCEPT ![c] = replied(@, status, answer)]
    /\ UNCHANGED <<store, walk, posts, late>>

\* The path is no URL: attempt returns a Permanent error, nothing is sent and
\* nothing is retried.
Malformed(c) ==
    /\ g[c].phase = "sent" /\ g[c].raw = Garbled
    /\ g' = [g EXCEPT ![c] = callFailed(@)]
    /\ UNCHANGED <<store, devices, walk, posts, late>>

\* The answer reaches the gateway in time.
Receive(c) ==
    /\ g[c].phase = "replied"
    /\ \E t \in CallTimes :
         /\ t < g[c].left
         /\ g' = [g EXCEPT ![c] = received(@, t)]
    /\ walk' = IF g[c].kind = "list" /\ g[c].reply = 200
               THEN [walk EXCEPT ![c] = turnPage(@, g[c])] ELSE walk
    /\ UNCHANGED <<store, devices, posts, late>>

\* It does not: the breaker is open, the connection fails, or the answer takes
\* too long.  What was sent may still be carried out; an invalid creation would
\* change nothing.
Fail(c) ==
    /\ g[c].phase \in {"sent", "replied"}
    /\ \E t \in CallTimes :
         LET elapsed == IF t < g[c].left THEN t ELSE g[c].left
         IN  \E q \in failures(g[c], elapsed) : g' = [g EXCEPT ![c] = q]
    /\ \/ UNCHANGED late
       \/ /\ g[c].phase = "sent" /\ g[c].kind = "create" /\ Validate(g[c].raw)
          /\ late' = late \cup {[raw |-> g[c].raw, device |-> DeviceOf(c)]}
    /\ UNCHANGED <<store, devices, walk, posts>>

\* A creation nobody waits for arrives at the catalog.
ServeLate(m) ==
    /\ \E status \in {201, 409, 500} : Create(m.raw, m.device, status)
    /\ late' = late \ {m}
    /\ UNCHANGED <<store, g, walk, posts>>

\* ScoreReading calls the scorer, through an Upstream of its own: a score, a 4xx
\* that is relayed, a body that makes no sense, or no answer; or the deadline.
Score(c) ==
    /\ g[c].phase = "score"
    /\ \E status \in {200, 422, 502, 503, 504} : g' = [g EXCEPT ![c] = answered(@, status)]
    /\ UNCHANGED <<store, devices, walk, posts, late>>

Next ==
    \/ \E c \in Clients :
         \/ CreateDevice(c) \/ RejectInput(c) \/ Lookup(c) \/ ListDevices(c) \/ NextPage(c)
         \/ Serve(c) \/ Malformed(c) \/ Receive(c) \/ Fail(c) \/ Score(c)
    \/ \E m \in late : ServeLate(m)

Spec == Init /\ [][Next]_vars

-----------------------------------------------------------------------------
(* Properties.                                                             *)

\* Of the devices S, those that a walk asks for.
ofSite(w, S) == {i \in S : w.site = NoSite \/ devices[i].site = w.site}

\* Keyset pagination, with devices inserted meanwhile and pages asked for
\* again: a walk lists no device twice and none of another site, and it ends
\* only when it has listed every device that was there when it began.
WalkExact ==
    \A c \in Clients :
        LET w == walk[c]
        IN  /\ w.count = Cardinality(w.seen)
            /\ w.seen \subseteq ofSite(w, DOMAIN devices)
            /\ w.state = "done" => ofSite(w, w.known) \subseteq w.seen

\* "an outage in a non-essential enrichment path" does not "take down the
\* essential scoring path" (ScoreReading): when the catalog has failed, with all
\* its retries, there is still time for a full attempt at the scorer, and before
\* that for every attempt at the catalog that Retry begins.
EnrichmentLeavesTime ==
    \A c \in Clients :
        g[c].kind = "score" =>
            /\ g[c].phase = "score" => g[c].left >= CallTime
            /\ g[c].phase \in {"sent", "replied"} => g[c].left >= 2 * CallTime

\* "every write endpoint in this platform is idempotent by contract [...] upsert
\* operations" (Upstream.Post): a POST that is retried is answered as if it had
\* been sent once, so no client is told 409 for the device it has just created.
RetryIsIdempotent ==
    \A c \in Clients :
        g[c].kind = "create" /\ g[c].result = 409
            => devices[meant(g[c].raw)].owner # <<c, posts[c]>>

\* "a device the catalog has never heard of is a client error worth reporting"
\* (ScoreReading), so that a client "can tell a full result from a partial one":
\* whoever is told of a device, alone or with a score, has named a registered one.
FullMeansRegistered ==
    \A c \in Clients :
        g[c].kind \in {"get", "score"} /\ g[c].result = 200 /\ ~g[c].degraded
            => meant(g[c].raw) \in DOMAIN devices

-----------------------------------------------------------------------------
(* Refinement.                                                             *)

\* The requests of the clients, without their attempts, spellings and times.
\* A relative path has become a request for a listing.
asks(q) == IF q.raw = Dots THEN "list" ELSE q.kind
NoDevice == [site |-> NoSite, owner |-> Somebody]

abstractCalls ==
    [c \in Clients |->
        IF g[c].phase = "done"
        THEN [busy |-> FALSE, status |-> g[c].result, full |-> ~g[c].degraded]
        ELSE [busy |-> TRUE, kind |-> asks(g[c]), id |-> subject(g[c].raw), there |-> g[c].registered,
              device |-> IF g[c].kind = "create" THEN DeviceOf(c) ELSE NoDevice]]

\* The creations that are on their way, whatever spelling they were sent with.
abstractOrphans == {[id |-> meant(m.raw), device |-> m.device] : m \in late}

Reg == INSTANCE Registry WITH
    table <- devices, call <- abstractCalls, orphans <- abstractOrphans

\* Lost and late answers, retries, two spellings of an id and a choice of
\* repositories notwithstanding, clients are served by a registry in which an
\* id is registered once and every answer is true of some moment of the
\* request.  That includes what the code claims one by one: "letting the
\* database decide [...] keeps the operation atomic" (Create), so the device of
\* a client told 201 is the registered one for ever; a registered device is
\* never answered with 404, however often its lookup is retried; and a client
\* "can tell a full result from a partial one" (ScoreResponse), of the device
\* its request is about: see FullMeansRegistered for strings that spell no id.
ImplementsRegistry == Reg!Spec
==============================================================================
