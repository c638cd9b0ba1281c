---------------------------- MODULE GatewayProofs ----------------------------
(***************************************************************************)
(* Proofs about Gateway, for any number of clients, ids and attempts: an   *)
(* outage of the catalog leaves the scorer its time, the clients are       *)
(* served by the abstract Registry, and walks through listings are exact.  *)
(***************************************************************************)
EXTENDS Gateway, FiniteSetTheorems, WellFoundedInduction, TLAPS

-----------------------------------------------------------------------------
(* Inductive invariants.                                                   *)

Requests ==
    [kind : {"create", "get", "list", "score"}, phase : {"sent", "replied", "score", "done"},
     raw : Strings, site : Sites \cup {NoSite}, attempt : 1 .. MaxAttempts, left : Nat,
     reply : Nat, page : SUBSET Ids, next : Ids \cup {NoId},
     degraded : BOOLEAN, registered : BOOLEAN, result : Nat]

Walks ==
    [state : {"off", "on", "done"}, limit : Int, cursor : Ids \cup {NoId}, seen : SUBSET Ids,
     count : Nat, known : SUBSET Ids, site : Sites \cup {NoSite}]

\* Only the id of a lookup is changed by a URL; that of a creation is not.
Spelled(q) == q.kind = "create" /\ q.phase # "done" => q.raw \in RawIds

\* A creation on its way is one that Validate has accepted.
TypeInv ==
    /\ store \in {"memory", "postgres"}
    /\ DOMAIN devices \subseteq Ids /\ devices = [i \in DOMAIN devices |-> devices[i]]
    /\ g \in [Clients -> Requests] /\ \A c \in Clients : Spelled(g[c])
    /\ walk \in [Clients -> Walks]
    /\ posts \in [Clients -> Nat]
    /\ \A m \in late : m.raw \in RawIds /\ Validate(m.raw)

\* What the attempts and backoffs so far have left of a reading's deadline.
TimeInv ==
    \A c \in Clients :
        LET q == g[c]
        IN  q.kind = "score" =>
              /\ q.phase \in {"sent", "replied"} =>
                   q.left + (q.attempt - 1) * (CallTime + Backoff) >= Deadline
              /\ q.phase = "score" =>
                   q.left + MaxAttempts * CallTime + (MaxAttempts - 1) * Backoff >= Deadline

\* An answer on its way back stays true of the registry until it is received.
AnswerInv ==
    \A c \in Clients :
        LET q  == g[c]
            id == subject(q.raw)
        IN  /\ q.kind = "create" /\ q.phase = "replied" =>
                 /\ q.reply = 201 => id \in DOMAIN devices /\ devices[id] = DeviceOf(c)
                 /\ q.reply = 409 => id \in DOMAIN devices
            /\ asks(q) \in {"get", "score"} /\ q.phase # "done" =>
                 /\ q.registered => id \in DOMAIN devices
                 /\ q.phase = "replied" /\ q.reply = 200 => id \in DOMAIN devices
                 /\ q.phase = "replied" /\ q.reply = 404 => ~q.registered
                 /\ q.phase = "score" /\ ~q.degraded => id \in DOMAIN devices

\* A walk has listed what it asks for up to its cursor, and the page on its way
\* is what comes next; devices that are inserted behind it change neither.
WalkInv ==
    \A c \in Clients :
        LET w == walk[c]
            q == g[c]
        IN  /\ w.known \subseteq DOMAIN devices
            /\ w.state = "on" =>
                 /\ \A i \in w.seen : i <= w.cursor
                 /\ \A i \in ofSite(w, w.known) : i <= w.cursor => i \in w.seen
            /\ q.kind = "list" /\ q.phase # "done" => w.state = "on" /\ q.site = w.site
            /\ q.kind = "list" /\ q.phase = "replied" /\ q.reply = 200 =>
                 /\ q.page \subseteq ofSite(w, DOMAIN devices)
                 /\ \A i \in q.page : w.cursor < i /\ (q.next # NoId => i <= q.next)
                 /\ q.next # NoId => w.cursor < q.next
                 /\ \A i \in ofSite(w, w.known) :
                      w.cursor < i /\ (q.next = NoId \/ i <= q.next) => i \in q.page

-----------------------------------------------------------------------------
LEMMA Constants ==
    /\ MaxAttempts \in Nat \ {0} /\ CallTime \in Nat /\ Backoff \in Nat /\ Deadline \in Nat
    /\ CallTimes \subseteq 0 .. CallTime
    /\ MaxId \in Nat /\ Ids \subseteq Nat \ {0} /\ IsFiniteSet(Ids)
    /\ RawIds \subseteq Int /\ NoId = 0 /\ RawIds \subseteq Strings
<1>1. IsFiniteSet(Ids)
  BY FS_Interval, CatalogAssumption DEF Ids
<1>2. RawIds \subseteq Int
  BY CatalogAssumption DEF RawIds, Ids, NoId, BadId
<1> QED BY <1>1, <1>2, GatewayAssumption, CatalogAssumption DEF Ids, NoId, Strings

\* The id a request is about is the one the catalog looks up, in every spelling
\* and for every string; a relative path is about none.
LEMMA Subject ==
    ASSUME NEW raw \in Strings
    PROVE  /\ subject(raw) = normalise(pathId(raw))
           /\ raw \in RawIds => subject(raw) = meant(raw) /\ raw # Dots
           /\ raw = Dots => subject(raw) \notin Ids
<1>1. MaxId \in Nat /\ BadId = MaxId + 1 /\ Dots = 2 * MaxId + 2 /\ Respelled \subseteq Ids
  BY CatalogAssumption DEF BadId, Dots, Ids
<1>2. \A i \in RawIds : i \in Int /\ i <= MaxId + 1
  BY <1>1 DEF RawIds, Ids, NoId
<1>3. raw \in RawIds => raw # Dots /\ pathId(raw) = raw
  BY <1>1, <1>2 DEF pathId
<1>4. \A i : meant(i) = normalise(i)
  BY DEF meant, normalise
<1>5. raw \in RawIds => subject(raw) = meant(raw)
  BY DEF subject
<1>6. raw \notin RawIds => subject(raw) = meant(pathId(raw))
  BY DEF subject
<1>7. meant(pathId(Dots)) \notin Ids
  BY <1>1 DEF meant, pathId, Ids
<1> QED BY <1>3, <1>4, <1>5, <1>6, <1>7

\* What a request asks for.
LEMMA Asks ==
    ASSUME NEW q
    PROVE  /\ asks(q) \in {"create", "get", "score"} => q.kind = asks(q)
           /\ q.raw # Dots => asks(q) = q.kind
           /\ q.raw = Dots => asks(q) = "list"
BY DEF asks

\* A creation asks for the id that it spells.
LEMMA CreateAsks ==
    ASSUME TypeInv, NEW c \in Clients, g[c].kind = "create", g[c].phase # "done"
    PROVE  /\ asks(g[c]) = "create" /\ g[c].raw \in RawIds
           /\ subject(g[c].raw) = meant(g[c].raw)
<1>1. g[c].raw \in RawIds
  BY DEF TypeInv, Spelled
<1>2. g[c].raw \in Strings
  BY <1>1 DEF Strings
<1> QED BY <1>1, <1>2, Subject, Asks

LEMMA NoRequestType == NoRequest \in Requests
BY Constants DEF NoRequest, Requests, Strings, RawIds, NoStatus

LEMMA Answered ==
    ASSUME NEW q \in Requests, NEW status \in Nat
    PROVE  /\ answered(q, status) \in Requests
           /\ answered(q, status).phase = "done"
           /\ answered(q, status).result = status
           /\ status \in {200, 201, 409} =>
                /\ answered(q, status).raw = q.raw /\ answered(q, status).degraded = q.degraded
<1> DEFINE r == [NoRequest EXCEPT !.result = status]
<1>1. r \in Requests /\ r.phase = "done" /\ r.result = status
  BY NoRequestType DEF Requests, NoRequest
<1> HIDE DEF r
<1>2. LET x == [r EXCEPT !.kind = q.kind, !.raw = q.raw, !.site = q.site, !.degraded = q.degraded]
      IN x \in Requests /\ x.phase = "done" /\ x.result = status /\ x.raw = q.raw /\ x.degraded = q.degraded
  BY <1>1 DEF Requests
<1>3. LET x == [r EXCEPT !.registered = q.registered]
      IN x \in Requests /\ x.phase = "done" /\ x.result = status
  BY <1>1 DEF Requests
<1> QED BY <1>1, <1>2, <1>3 DEF answered, r

LEMMA Enriched ==
    ASSUME NEW q \in Requests
    PROVE  LET x == enriched(q)
           IN  /\ x \in Requests /\ x.phase = "score" /\ x.kind = q.kind /\ x.raw = q.raw
               /\ x.site = q.site /\ x.left = q.left /\ x.registered = q.registered
               /\ x.degraded = q.degraded
<1> DEFINE y == [q EXCEPT !.phase = "score"]
           z == [y EXCEPT !.attempt = 1]
<1>1. /\ y \in Requests /\ y.phase = "score" /\ y.kind = q.kind /\ y.raw = q.raw
      /\ y.site = q.site /\ y.left = q.left /\ y.registered = q.registered
      /\ y.degraded = q.degraded
  BY DEF Requests
<1>2. enriched(q) = [z EXCEPT !.reply = NoStatus]
  BY DEF enriched, Requests
<1> HIDE DEF y
<1>3. 1 \in 1 .. MaxAttempts
  BY Constants
<1>4. /\ z \in Requests /\ z.phase = "score" /\ z.kind = q.kind /\ z.raw = q.raw
      /\ z.site = q.site /\ z.left = q.left /\ z.registered = q.registered
      /\ z.degraded = q.degraded
  BY <1>1, <1>3 DEF Requests
<1> HIDE DEF z
<1> QED BY <1>2, <1>4 DEF Requests, NoStatus

\* What becomes of a request when an attempt ends: the same request with an
\* attempt more, and time left; on to the scorer without the device; or an answer.
Same(q, x) ==
    x.kind = q.kind /\ x.raw = q.raw /\ x.site = q.site /\ x.registered = q.registered

\* ... which asks for the same.
LEMMA SameAsks ==
    ASSUME NEW q, NEW x, Same(q, x)
    PROVE  asks(x) = asks(q)
BY DEF asks, Same

Retried(q, x, left) == x.phase = "sent" /\ x.attempt = q.attempt + 1 /\ x.left = left

Degraded(x, left) ==
    x.phase = "score" /\ x.kind = "score" /\ x.left = left /\ x.degraded = TRUE

Refused(x) == x.phase = "done" /\ x.result \in {503, 504}

\* An upstream call that failed for good ends the request, or degrades it.
LEMMA CallFailed ==
    ASSUME NEW q \in Requests
    PROVE  /\ callFailed(q) \in Requests
           /\ \/ Refused(callFailed(q))
              \/ Same(q, callFailed(q)) /\ Degraded(callFailed(q), q.left)
<1> DEFINE y == enriched(q)
           x == callFailed(q)
<1>1. CASE q.kind = "score" /\ Degrade
  <2>1. /\ y \in Requests /\ y.phase = "score" /\ y.kind = q.kind /\ y.raw = q.raw
        /\ y.site = q.site /\ y.left = q.left /\ y.registered = q.registered
    BY Enriched
  <2>2. x = [y EXCEPT !.degraded = TRUE]
    BY <1>1 DEF callFailed
  <2> HIDE DEF y, x
  <2>3. x \in Requests
    BY <2>1, <2>2 DEF Requests
  <2>4. /\ x.phase = "score" /\ x.kind = y.kind /\ x.raw = y.raw /\ x.site = y.site
        /\ x.left = y.left /\ x.registered = y.registered
    BY <2>1, <2>2 DEF Requests
  <2>5. x.degraded = TRUE
    BY <2>1, <2>2 DEF Requests
  <2>6. Same(q, x)
    BY <2>1, <2>4, Zenon DEF Same
  <2>7. Degraded(x, q.left)
    BY <1>1, <2>1, <2>4, <2>5, Zenon DEF Degraded
  <2> QED BY <2>3, <2>6, <2>7 DEF x
<1>2. CASE ~(q.kind = "score" /\ Degrade)
  BY <1>2, Answered DEF callFailed, Refused
<1> QED BY <1>1, <1>2

LEMMA AttemptFailed ==
    ASSUME NEW q \in Requests, NEW t \in Nat, t < q.left
    PROVE  LET x == attemptFailed(q, t)
           IN  /\ x \in Requests
               /\ \/ Refused(x)
                  \/ Same(q, x) /\ (Retried(q, x, q.left - t - Backoff) \/ Degraded(x, q.left - t))
<1> DEFINE s == [q EXCEPT !.left = @ - t]
<1>0. q.left \in Nat /\ q.left - t \in Nat /\ q.attempt \in 1 .. MaxAttempts
  BY DEF Requests
<1>1. /\ s \in Requests /\ s.left = q.left - t /\ s.kind = q.kind /\ s.raw = q.raw
      /\ s.site = q.site /\ s.registered = q.registered /\ s.attempt = q.attempt
  BY <1>0 DEF Requests
<1>2. CASE q.attempt < MaxAttempts /\ s.left > Backoff
  <2> DEFINE s1 == [s EXCEPT !.phase = "sent"]
             s2 == [s1 EXCEPT !.attempt = q.attempt + 1]
             s3 == [s2 EXCEPT !.left = s.left - Backoff]
  <2>1. attemptFailed(q, t) = [s3 EXCEPT !.reply = NoStatus]
    <3> HIDE DEF s
    <3>1. attemptFailed(q, t) = [s EXCEPT !.phase = "sent", !.attempt = nextAttempt(q),
                                          !.left = @ - Backoff, !.reply = NoStatus]
      BY <1>2 DEF attemptFailed, s
    <3> QED BY <1>1, <3>1 DEF nextAttempt, Requests
  <2> HIDE DEF s
  <2>2. s1 \in Requests /\ s1.phase = "sent" /\ Same(q, s1)
    BY <1>1 DEF Requests, Same
  <2> HIDE DEF s1
  <2>3. q.attempt + 1 \in 1 .. MaxAttempts /\ s.left - Backoff \in Nat
    BY <1>0, <1>1, <1>2, Constants
  <2>4. s2 \in Requests /\ s2.phase = "sent" /\ Same(q, s2) /\ s2.attempt = q.attempt + 1
    BY <2>2, <2>3 DEF Requests, Same
  <2> HIDE DEF s2
  <2>5. s3 \in Requests /\ s3.phase = "sent" /\ Same(q, s3) /\ s3.attempt = q.attempt + 1
        /\ s3.left = s.left - Backoff
    BY <2>3, <2>4 DEF Requests, Same
  <2> HIDE DEF s3
  <2>6. LET x == attemptFailed(q, t)
        IN  x \in Requests /\ Same(q, x) /\ Retried(q, x, q.left - t - Backoff)
    BY <1>1, <2>1, <2>5 DEF Requests, Same, Retried, NoStatus
  <2> QED BY <2>6
<1>3. CASE ~(q.attempt < MaxAttempts /\ s.left > Backoff)
  <2>1. attemptFailed(q, t) = callFailed(s)
    BY <1>3 DEF attemptFailed
  <2> HIDE DEF s
  <2>2. \A x : Same(s, x) => Same(q, x)
    BY <1>1, Zenon DEF Same
  <2>3. /\ callFailed(s) \in Requests
        /\ Refused(callFailed(s)) \/ (Same(s, callFailed(s)) /\ Degraded(callFailed(s), s.left))
    BY <1>1, CallFailed
  <2> QED BY <1>1, <2>1, <2>2, <2>3
<1> QED BY <1>2, <1>3

\* Receive, of an answer that was served.
LEMMA Received ==
    ASSUME NEW q \in Requests, NEW t \in Nat, t < q.left
    PROVE  LET x == received(q, t)
           IN  /\ x \in Requests
               /\ \/ Refused(x)
                  \/ Same(q, x) /\ (Retried(q, x, q.left - t - Backoff) \/ Degraded(x, q.left - t))
                  \/ x.phase = "done" /\ q.kind # "score" /\ x.result = q.reply
                  \/ x.phase = "done" /\ q.kind = "score" /\ x.result = 404 /\ q.reply = 404
                  \/ /\ x.phase = "score" /\ Same(q, x) /\ q.kind = "score" /\ q.reply = 200
                     /\ x.left = q.left - t
<1> DEFINE s == [q EXCEPT !.left = @ - t]
<1>0. q.left \in Nat /\ q.left - t \in Nat
  BY DEF Requests
<1>1. /\ s \in Requests /\ s.left = q.left - t /\ s.kind = q.kind /\ s.raw = q.raw
      /\ s.site = q.site /\ s.registered = q.registered /\ s.reply = q.reply
  BY <1>0 DEF Requests
<1>2. q.reply \in Nat
  BY DEF Requests
<1>3. CASE q.reply = 500
  BY <1>3, AttemptFailed DEF received
<1>4. CASE q.reply # 500 /\ q.kind # "score"
  <2>1. received(q, t) = answered(s, q.reply)
    BY <1>4 DEF received
  <2> HIDE DEF s
  <2>2. answered(s, q.reply) \in Requests /\ answered(s, q.reply).phase = "done"
        /\ answered(s, q.reply).result = q.reply
    BY <1>1, <1>2, Answered
  <2> QED BY <1>4, <2>1, <2>2
<1>5. CASE q.reply # 500 /\ q.kind = "score"
  <2>1. received(q, t) = enrich(s)
    BY <1>5 DEF received
  <2> HIDE DEF s
  <2>2. CASE q.reply = 200
    BY <1>1, <1>5, <2>1, <2>2, Enriched DEF enrich, Same
  <2>3. CASE q.reply = 404
    BY <1>1, <1>5, <2>1, <2>3, Answered DEF enrich
  <2>4. CASE q.reply # 200 /\ q.reply # 404
    <3>1. received(q, t) = callFailed(s)
      BY <1>1, <2>1, <2>4 DEF enrich
    <3>2. \A x : Same(s, x) => Same(q, x)
      BY <1>1, Zenon DEF Same
    <3>3. /\ callFailed(s) \in Requests
          /\ Refused(callFailed(s)) \/ (Same(s, callFailed(s)) /\ Degraded(callFailed(s), s.left))
      BY <1>1, CallFailed
    <3> QED BY <1>1, <3>1, <3>2, <3>3
  <2> QED BY <2>2, <2>3, <2>4
<1> QED BY <1>3, <1>4, <1>5

\* Fail, after t or at the deadline.
LEMMA Failures ==
    ASSUME NEW q \in Requests, NEW t \in Nat, t <= q.left, NEW x \in failures(q, t)
    PROVE  /\ x \in Requests
           /\ \/ Refused(x)
              \/ Same(q, x) /\ (Retried(q, x, q.left - t - Backoff) \/ Degraded(x, q.left - t))
<1>1. CASE t = q.left
  BY <1>1, Answered DEF failures, Refused
<1>2. CASE t # q.left
  <2>1. t < q.left
    BY <1>2 DEF Requests
  <2> QED BY <1>2, <2>1, AttemptFailed DEF failures
<1> QED BY <1>1, <1>2

-----------------------------------------------------------------------------
(* Pages.                                                                  *)

\* A set of numbers that is not empty has a smallest one; if it is bounded, it
\* has a largest one.
LEMMA Smallest ==
    ASSUME NEW S, S \subseteq Nat, S # {}
    PROVE  \E x \in S : \A y \in S : x <= y
<1> DEFINE R == {ss \in Nat \X Nat : ss[1] < ss[2]}
<1>1. IsWellFoundedOn(R, Nat)
  BY NatLessThanWellFounded, Zenon DEF OpToRel
<1>2. PICK x \in S : \A y \in S : <<y, x>> \notin R
  <2> HIDE DEF R
  <2> QED BY <1>1, WFMin
<1>3. ASSUME NEW y \in S PROVE x <= y
  <2>1. x \in Nat /\ y \in Nat /\ <<y, x>> \notin R
    BY <1>2
  <2>2. ~(y < x)
    BY <2>1
  <2> QED BY <2>1, <2>2
<1> QED BY <1>2, <1>3

LEMMA Largest ==
    ASSUME NEW S, S \subseteq Ids, S # {}
    PROVE  Last(S) \in S /\ \A y \in S : y <= Last(S)
<1> DEFINE T == {MaxId - x : x \in S}
<1>0. ASSUME NEW x \in S PROVE x \in Nat /\ MaxId - x \in Nat
  <2>1. x \in 1 .. MaxId
    BY DEF Ids
  <2> QED BY <2>1, Constants
<1>1. T \subseteq Nat /\ T # {}
  BY <1>0
<1>2. PICK m \in T : \A y \in T : m <= y
  <2> HIDE DEF T
  <2> QED BY <1>1, Smallest
<1>3. PICK z \in S : m = MaxId - z
  BY <1>2
<1>4. ASSUME NEW y \in S PROVE y <= z
  <2>1. m <= MaxId - y
    BY <1>2
  <2> QED BY <1>0, <1>3, <2>1, Constants
<1>5. \E x \in S : \A y \in S : y <= x
  BY <1>4
<1> QED BY <1>5 DEF Last

\* First cuts off an initial part of a set, all of it if that is less than n.
LEMMA FirstOf ==
    ASSUME NEW S, S \subseteq Ids, NEW n \in Nat
    PROVE  /\ First(S, n) \subseteq S
           /\ \A x \in First(S, n), y \in S : y < x => y \in First(S, n)
           /\ S # {} /\ n > 0 => First(S, n) # {}
           /\ Cardinality(First(S, n)) < n => First(S, n) = S
<1> DEFINE below(x) == {y \in S : y < x}
<1>0. IsFiniteSet(S) /\ S \subseteq Nat
  BY Constants, FS_Subset
<1>1. ASSUME NEW x \in S
      PROVE  IsFiniteSet(below(x)) /\ Cardinality(below(x)) \in Nat
  BY <1>0, FS_Subset, FS_CardinalityType
<1>2. First(S, n) = {x \in S : Cardinality(below(x)) < n}
  BY DEF First
<1>3. ASSUME NEW x \in First(S, n), NEW y \in S, y < x PROVE y \in First(S, n)
  <2>1. below(y) \subseteq below(x) /\ x \in S
    <3>1. x \in S /\ x \in Nat /\ y \in Nat
      BY <1>0, <1>2
    <3>2. ASSUME NEW z \in S, z < y PROVE z < x
      <4>1. z \in Nat
        BY <1>0
      <4> QED BY <1>3, <3>1, <3>2, <4>1
    <3> QED BY <3>1, <3>2
  <2>2. Cardinality(below(y)) <= Cardinality(below(x))
    <3> HIDE DEF below
    <3> QED BY <1>1, <2>1, FS_Subset
  <2>3. Cardinality(below(x)) < n
    BY <1>2
  <2>4. Cardinality(below(y)) < n
    <3> HIDE DEF below
    <3> QED BY <1>1, <2>1, <2>2, <2>3
  <2> QED BY <1>2, <2>4
<1>4. ASSUME S # {}, n > 0 PROVE First(S, n) # {}
  <2>1. PICK x \in S : \A y \in S : x <= y
    BY <1>0, <1>4, Smallest
  <2>2. below(x) = {}
    <3>1. ASSUME NEW y \in S PROVE ~(y < x)
      <4>1. x <= y /\ x \in Nat /\ y \in Nat
        BY <1>0, <2>1
      <4> QED BY <4>1
    <3> QED BY <3>1
  <2>3. Cardinality(below(x)) = 0
    BY <2>2, FS_EmptySet
  <2> QED BY <1>2, <1>4, <2>3
<1>5. ASSUME Cardinality(First(S, n)) < n, First(S, n) # S PROVE FALSE
  <2> DEFINE rest == S \ First(S, n)
  <2>1. rest # {} /\ rest \subseteq Nat
    BY <1>0, <1>2, <1>5
  <2>2. PICK x \in rest : \A y \in rest : x <= y
    <3> HIDE DEF rest
    <3> QED BY <2>1, Smallest
  <2>3. below(x) \subseteq First(S, n)
    <3>1. ASSUME NEW y \in S, y < x PROVE y \in First(S, n)
      <4>1. x \in Nat /\ y \in Nat
        BY <1>0, <2>2
      <4>2. y \notin rest
        BY <2>2, <3>1, <4>1
      <4> QED BY <4>2
    <3> QED BY <3>1
  <2>4. x \in S /\ ~(Cardinality(below(x)) < n)
    BY <1>2, <2>2
  <2>5. IsFiniteSet(First(S, n)) /\ Cardinality(First(S, n)) \in Nat
    BY <1>0, <1>2, FS_Subset, FS_CardinalityType
  <2>6. Cardinality(below(x)) <= Cardinality(First(S, n))
    <3> HIDE DEF below
    <3> QED BY <2>3, <2>5, FS_Subset
  <2> HIDE DEF below
  <2> QED BY <1>1, <1>5, <2>4, <2>5, <2>6
<1> QED BY <1>2, <1>3, <1>4, <1>5

\* Both repositories answer with an initial part of the devices that match, and
\* say that there is nothing more only if that is all of them.
LEMMA PageOf ==
    ASSUME DOMAIN devices \subseteq Ids, NEW site, NEW cursor, NEW limit \in Int
    PROVE  LET M == matching(site, cursor)
               a == List(site, cursor, limit)
           IN  /\ a.ids \subseteq M /\ a.next \in Ids \cup {NoId}
               /\ a.next = NoId => a.ids = M
               /\ a.next # NoId => /\ a.next \in M
                                   /\ \A i \in a.ids : i <= a.next
                                   /\ \A i \in M : i <= a.next => i \in a.ids
<1> DEFINE M == matching(site, cursor)
           L == clamp(limit)
           fetched == rows(site, cursor, L)
           page == First(fetched, L)
           a == List(site, cursor, limit)
<1>1. L \in Nat \ {0}
  BY CatalogAssumption DEF clamp
<1>2. M \subseteq Ids
  BY DEF matching
<1> HIDE DEF L, M
<1>3. /\ fetched \subseteq M
      /\ \A x \in fetched, y \in M : y < x => y \in fetched
      /\ Cardinality(fetched) < L + 1 => fetched = M
  <2>1. CASE store = "memory"
    BY <2>1 DEF rows, M
  <2>2. CASE store # "memory"
    <3>1. fetched = First(M, L + 1)
      BY <2>2 DEF rows, M
    <3> HIDE DEF fetched
    <3>2. L + 1 \in Nat
      BY <1>1
    <3> QED BY <1>2, <3>1, <3>2, FirstOf
  <2> QED BY <2>1, <2>2
<1>4. a = IF Cardinality(fetched) > L THEN [ids |-> page, next |-> Last(page)]
                                      ELSE [ids |-> fetched, next |-> NoId]
  BY DEF List, L
<1> HIDE DEF fetched, a
<1>5. IsFiniteSet(fetched) /\ Cardinality(fetched) \in Nat
  BY <1>2, <1>3, Constants, FS_Subset, FS_CardinalityType
<1>6. CASE Cardinality(fetched) > L
  <2>1. a.ids = page /\ a.next = Last(page)
    BY <1>4, <1>6
  <2>2. fetched # {}
    BY <1>1, <1>6, FS_EmptySet
  <2>3. page \subseteq fetched /\ page # {}
        /\ \A x \in page, y \in fetched : y < x => y \in page
    BY <1>1, <1>2, <1>3, <2>2, FirstOf
  <2> HIDE DEF page
  <2>4. Last(page) \in page /\ \A y \in page : y <= Last(page)
    BY <1>2, <1>3, <2>3, Largest
  <2>5. Last(page) \in M /\ Last(page) \in Ids /\ Last(page) # NoId
    BY <1>2, <1>3, <2>3, <2>4, Constants
  <2>6. ASSUME NEW i \in M, i <= Last(page) PROVE i \in page
    <3>1. i \in Nat /\ Last(page) \in Nat
      BY <1>2, <2>5, Constants
    <3> QED BY <1>3, <2>3, <2>4, <2>6, <3>1
  <2> QED BY <1>3, <2>1, <2>3, <2>4, <2>5, <2>6 DEF M, a
<1>7. CASE ~(Cardinality(fetched) > L)
  <2>1. a.ids = fetched /\ a.next = NoId
    BY <1>4, <1>7
  <2>2. fetched = M
    BY <1>1, <1>3, <1>5, <1>7
  <2> QED BY <2>1, <2>2 DEF M, a
<1> QED BY <1>6, <1>7

-----------------------------------------------------------------------------
(* The steps.                                                              *)

\* Devices are added, and stay as they are.
Grown == /\ DOMAIN devices \subseteq DOMAIN devices'
         /\ \A i \in DOMAIN devices : devices'[i] = devices[i]

Inserted(id, device) ==
    /\ id \in Ids \ DOMAIN devices
    /\ devices' = [i \in DOMAIN devices \cup {id} |-> IF i = id THEN device ELSE devices[i]]

LEMMA Spelling ==
    ASSUME NEW raw
    PROVE  meant(raw) = normalise(raw)
BY DEF meant, normalise

\* Create inserts the device if the id is free, or changes nothing; it answers
\* 201 only for what it inserted, and 409 only for an id that is taken.
LEMMA Creates ==
    ASSUME TypeInv, NEW raw \in RawIds, NEW device, NEW status, Create(raw, device, status)
    PROVE  /\ devices' = devices \/ Inserted(meant(raw), device)
           /\ status = 201 => Inserted(meant(raw), device)
           /\ status = 409 => meant(raw) \in DOMAIN devices
<1>2. createStatus(raw) # 201 => afterCreate(raw, device) = devices
  BY DEF afterCreate
<1>3. devices' = afterCreate(raw, device) /\ createStatus(raw) = 201 => Inserted(meant(raw), device)
  BY Spelling DEF afterCreate, createStatus, Validate, Inserted
<1>4. createStatus(raw) = 409 => meant(raw) \in DOMAIN devices
  BY Spelling DEF createStatus
<1>5. devices' \in {devices, afterCreate(raw, device)}
  BY DEF Create
<1>6. status \in {201, 409} => status = createStatus(raw) /\ devices' = afterCreate(raw, device)
  BY DEF Create
<1> QED BY <1>2, <1>3, <1>4, <1>5, <1>6

LEMMA InsertGrows ==
    ASSUME TypeInv, NEW id, NEW device, devices' = devices \/ Inserted(id, device)
    PROVE  /\ Grown
           /\ DOMAIN devices' \subseteq Ids /\ devices' = [i \in DOMAIN devices' |-> devices'[i]]
           /\ Inserted(id, device) => id \in DOMAIN devices' /\ devices'[id] = device
<1>1. CASE devices' = devices
  BY <1>1 DEF Grown, TypeInv, Inserted
<1>2. CASE Inserted(id, device)
  BY <1>2 DEF Grown, TypeInv, Inserted
<1> QED BY <1>1, <1>2

\* The request that Accept makes.
Requested(kind, raw, site, there) ==
    [NoRequest EXCEPT !.kind = kind, !.phase = "sent", !.raw = raw, !.site = site,
                      !.registered = there]

LEMMA Accepted ==
    ASSUME NEW kind \in {"create", "get", "list", "score"}, NEW raw \in Strings,
           NEW site \in Sites \cup {NoSite}, NEW there \in BOOLEAN
    PROVE  LET x == Requested(kind, raw, site, there)
           IN  /\ x \in Requests
               /\ x.kind = kind /\ x.phase = "sent" /\ x.raw = raw /\ x.site = site
               /\ x.attempt = 1 /\ x.left = Deadline /\ x.registered = there
<1> DEFINE x1 == [NoRequest EXCEPT !.kind = kind]
           x2 == [x1 EXCEPT !.phase = "sent"]
           x3 == [x2 EXCEPT !.raw = raw]
           x4 == [x3 EXCEPT !.site = site]
           x5 == [x4 EXCEPT !.registered = there]
<1>1. x1 \in Requests /\ x1.kind = kind /\ x1.attempt = 1 /\ x1.left = Deadline
  BY NoRequestType DEF Requests, NoRequest
<1>2. x2 \in Requests /\ x2.kind = kind /\ x2.attempt = 1 /\ x2.left = Deadline /\ x2.phase = "sent"
  <2> HIDE DEF x1
  <2> QED BY <1>1 DEF Requests
<1>3. x3 \in Requests /\ x3.kind = kind /\ x3.attempt = 1 /\ x3.left = Deadline /\ x3.phase = "sent"
      /\ x3.raw = raw
  <2> HIDE DEF x2
  <2> QED BY <1>2 DEF Requests
<1>4. x4 \in Requests /\ x4.kind = kind /\ x4.attempt = 1 /\ x4.left = Deadline /\ x4.phase = "sent"
      /\ x4.raw = raw /\ x4.site = site
  <2> HIDE DEF x3
  <2> QED BY <1>3 DEF Requests
<1>5. x5 \in Requests /\ x5.kind = kind /\ x5.attempt = 1 /\ x5.left = Deadline /\ x5.phase = "sent"
      /\ x5.raw = raw /\ x5.site = site
  <2> HIDE DEF x4
  <2> QED BY <1>4 DEF Requests
<1>6. x5.registered = there
  <2> HIDE DEF x4
  <2> QED BY <1>4 DEF Requests
<1>7. Requested(kind, raw, site, there) = x5
  BY DEF Requested
<1> HIDE DEF x5
<1> QED BY <1>5, <1>6, <1>7, Zenon

\* A client's request is accepted.
LEMMA Accepts ==
    ASSUME TypeInv, NEW c \in Clients, NEW kind \in {"create", "get", "list", "score"},
           NEW raw \in Strings, NEW site \in Sites \cup {NoSite}, Accept(c, kind, raw, site)
    PROVE  /\ g[c].phase = "done"
           /\ UNCHANGED <<store, devices, late>>
           /\ g' \in [Clients -> Requests] /\ \A d \in Clients \ {c} : g'[d] = g[d]
           /\ g'[c].kind = kind /\ g'[c].phase = "sent" /\ g'[c].raw = raw /\ g'[c].site = site
           /\ g'[c].attempt = 1 /\ g'[c].left = Deadline
           /\ g'[c].registered = (kind \in {"get", "score"} /\ subject(raw) \in DOMAIN devices)
<1> DEFINE there == kind \in {"get", "score"} /\ subject(raw) \in DOMAIN devices
           x == Requested(kind, raw, site, there)
<1>1. there \in BOOLEAN
  OBVIOUS
<1>2. g' = [g EXCEPT ![c] = x] /\ g[c].phase = "done" /\ UNCHANGED <<store, devices, late>>
  BY DEF Accept, Requested
<1> HIDE DEF there
<1>3. /\ x \in Requests
      /\ x.kind = kind /\ x.phase = "sent" /\ x.raw = raw /\ x.site = site
      /\ x.attempt = 1 /\ x.left = Deadline /\ x.registered = there
  <2> SUFFICES ASSUME NEW v \in BOOLEAN
               PROVE  LET z == Requested(kind, raw, site, v)
                      IN  /\ z \in Requests
                          /\ z.kind = kind /\ z.phase = "sent" /\ z.raw = raw /\ z.site = site
                          /\ z.attempt = 1 /\ z.left = Deadline /\ z.registered = v
    BY <1>1, Zenon
  <2> QED BY Accepted
<1> HIDE DEF x
<1>4. g' \in [Clients -> Requests] /\ g'[c] = x /\ \A d \in Clients \ {c} : g'[d] = g[d]
  BY <1>2, <1>3 DEF TypeInv
<1> QED BY <1>2, <1>3, <1>4, Zenon DEF there

\* What the catalog's answer to an attempt changes, and what it leaves alone.
IsReply(q, status, a) ==
    LET x == replied(q, status, a)
    IN  /\ x \in Requests /\ Same(q, x) /\ x.phase = "replied" /\ x.reply = status
        /\ x.page = a.ids /\ x.next = a.next /\ x.attempt = q.attempt /\ x.left = q.left

\* The catalog answers an attempt.
LEMMA Served ==
    ASSUME NEW q \in Requests, NEW status \in Nat, NEW a,
           a.ids \in SUBSET Ids, a.next \in Ids \cup {NoId}
    PROVE  IsReply(q, status, a)
<1> DEFINE ids == a.ids
           next == a.next
<1>0. ids \in SUBSET Ids /\ next \in Ids \cup {NoId}
  OBVIOUS
<1> HIDE DEF ids, next
<1> DEFINE x1 == [q EXCEPT !.phase = "replied"]
           x2 == [x1 EXCEPT !.reply = status]
           x3 == [x2 EXCEPT !.page = ids]
           x4 == [x3 EXCEPT !.next = next]
<1>1. x1 \in Requests /\ Same(q, x1) /\ x1.phase = "replied"
      /\ x1.attempt = q.attempt /\ x1.left = q.left
  BY DEF Requests, Same
<1>2. x2 \in Requests /\ Same(q, x2) /\ x2.phase = "replied" /\ x2.reply = status
      /\ x2.attempt = q.attempt /\ x2.left = q.left
  <2> HIDE DEF x1
  <2> QED BY <1>1 DEF Requests, Same
<1>3. x3 \in Requests /\ Same(q, x3) /\ x3.phase = "replied" /\ x3.reply = status
      /\ x3.attempt = q.attempt /\ x3.left = q.left /\ x3.page = ids
  <2> HIDE DEF x2
  <2> QED BY <1>0, <1>2 DEF Requests, Same
<1>4. x4 \in Requests /\ Same(q, x4) /\ x4.phase = "replied" /\ x4.reply = status
      /\ x4.attempt = q.attempt /\ x4.left = q.left /\ x4.page = ids /\ x4.next = next
  <2> HIDE DEF x3
  <2> QED BY <1>0, <1>3 DEF Requests, Same
<1>5. replied(q, status, a) = x4
  BY DEF replied, ids, next
<1> HIDE DEF x4
<1> QED BY <1>4, <1>5 DEF ids, next, IsReply

\* The catalog's step: what it may answer, and what it does to the devices.
LEMMA Serves ==
    ASSUME TypeInv, NEW c \in Clients, Serve(c)
    PROVE  LET q == g[c]
               x == g'[c]
               id == subject(q.raw)
               a == List(q.site, walk[c].cursor, walk[c].limit)
           IN  /\ q.phase = "sent" /\ UNCHANGED <<store, walk, posts, late>>
               /\ g' \in [Clients -> Requests] /\ \A d \in Clients \ {c} : g'[d] = g[d]
               /\ Same(q, x) /\ x.phase = "replied" /\ x.attempt = q.attempt /\ x.left = q.left
               /\ devices' = devices \/ (q.kind = "create" /\ Inserted(id, DeviceOf(c)))
               /\ q.kind = "create" =>
                    /\ x.reply = 201 => Inserted(id, DeviceOf(c))
                    /\ x.reply = 409 => id \in DOMAIN devices
               /\ asks(q) \in {"get", "score"} =>
                    /\ x.reply = 200 => id \in DOMAIN devices
                    /\ x.reply = 404 => id \notin DOMAIN devices
               /\ q.kind = "list" /\ x.reply = 200 => x.page = a.ids /\ x.next = a.next
<1> DEFINE q == g[c]
           x == g'[c]
           id == subject(q.raw)
           a == List(q.site, walk[c].cursor, walk[c].limit)
           answer(status) == IF q.kind = "list" /\ status = 200 THEN a ELSE [ids |-> {}, next |-> NoId]
<1>0. /\ q \in Requests /\ q.raw \in Strings /\ Spelled(q) /\ walk[c].limit \in Int /\ DOMAIN devices \subseteq Ids
      /\ q.kind \in {"create", "get", "list", "score"}
  BY DEF TypeInv, Requests, Walks
<1>1. PICK status \in {200, 201, 400, 404, 409, 500} :
        /\ \/ g[c].kind = "create" /\ Create(g[c].raw, DeviceOf(c), status)
           \/ /\ g[c].kind \in {"get", "score"} /\ g[c].raw # Garbled
              /\ \/ status = lookupStatus(g[c].raw)
                 \/ status = 500 /\ mayFail /\ lookupStatus(g[c].raw) # 400
              /\ UNCHANGED devices
           \/ /\ g[c].kind = "list"
              /\ \/ status = listStatus(walk[c].limit)
                 \/ status = 500 /\ mayFail /\ listStatus(walk[c].limit) = 200
              /\ UNCHANGED devices
        /\ g' = [g EXCEPT ![c] = replied(g[c], status, answer(status))]
  BY Zenon DEF Serve
<1>2. q.phase = "sent" /\ UNCHANGED <<store, walk, posts, late>>
  BY DEF Serve
<1>3. a.ids \in SUBSET Ids /\ a.next \in Ids \cup {NoId}
  <2>1. a.ids \subseteq matching(q.site, walk[c].cursor) /\ a.next \in Ids \cup {NoId}
    BY <1>0, PageOf
  <2> HIDE DEF a
  <2> QED BY <1>0, <2>1 DEF matching
<1> HIDE DEF a
<1>4. answer(status).ids \in SUBSET Ids /\ answer(status).next \in Ids \cup {NoId}
  BY <1>3
<1> DEFINE y == replied(q, status, answer(status))
<1>5. g' = [g EXCEPT ![c] = y]
  BY <1>1
<1>6. /\ y \in Requests /\ Same(q, y) /\ y.phase = "replied" /\ y.reply = status
      /\ y.page = answer(status).ids /\ y.next = answer(status).next
      /\ y.attempt = q.attempt /\ y.left = q.left
  <2> DEFINE ans == answer(status)
  <2>1. ans.ids \in SUBSET Ids /\ ans.next \in Ids \cup {NoId} /\ status \in Nat
    BY <1>4
  <2>2. q \in Requests
    BY <1>0
  <2> HIDE DEF q, ans
  <2>3. IsReply(q, status, ans)
    BY <2>1, <2>2, Served
  <2> QED BY <2>3 DEF IsReply, ans
<1> HIDE DEF y
<1>7. g' \in [Clients -> Requests] /\ (\A d \in Clients \ {c} : g'[d] = g[d]) /\ x = y
  BY <1>5, <1>6 DEF TypeInv
<1>8. q.kind = "create" =>
        /\ devices' = devices \/ Inserted(id, DeviceOf(c))
        /\ x.reply = 201 => Inserted(id, DeviceOf(c))
        /\ x.reply = 409 => id \in DOMAIN devices
  <2> SUFFICES ASSUME q.kind = "create"
               PROVE  /\ devices' = devices \/ Inserted(id, DeviceOf(c))
                      /\ status = 201 => Inserted(id, DeviceOf(c))
                      /\ status = 409 => id \in DOMAIN devices
    BY <1>6, <1>7
  <2>1. q.raw \in RawIds
    BY <1>0, <1>2 DEF Spelled
  <2>2. Create(q.raw, DeviceOf(c), status) /\ id = meant(q.raw)
    BY <1>0, <1>1, <2>1, Subject
  <2> QED BY <2>1, <2>2, Creates
<1>9. asks(q) \in {"get", "score"} =>
        /\ x.reply = 200 => id \in DOMAIN devices
        /\ x.reply = 404 => id \notin DOMAIN devices
  <2> SUFFICES ASSUME asks(q) \in {"get", "score"}
               PROVE  /\ status = 200 => id \in DOMAIN devices
                      /\ status = 404 => id \notin DOMAIN devices
    BY <1>6, <1>7
  <2>1. q.kind = asks(q) /\ q.raw # Dots
    BY Asks
  <2>2. status = lookupStatus(q.raw) \/ status = 500
    BY <1>1, <2>1
  <2>3. lookupStatus(q.raw) = getStatus(pathId(q.raw)) /\ id = normalise(pathId(q.raw))
    BY <1>0, <2>1, Subject DEF lookupStatus
  <2> HIDE DEF id
  <2> QED BY <2>2, <2>3 DEF getStatus, Get
<1>10. q.kind # "create" => devices' = devices
  BY <1>1
<1>11. q.kind = "list" /\ x.reply = 200 => x.page = a.ids /\ x.next = a.next
  BY <1>6, <1>7
<1> HIDE DEF x, q
<1> QED BY <1>2, <1>6, <1>7, <1>8, <1>9, <1>10, <1>11 DEF a, x, q

\* The answer arrives, or it does not.
LEMMA Receives ==
    ASSUME TypeInv, NEW c \in Clients, Receive(c)
    PROVE  /\ g[c].phase = "replied" /\ UNCHANGED <<store, devices, posts, late>>
           /\ g' \in [Clients -> Requests] /\ \A d \in Clients \ {c} : g'[d] = g[d]
           /\ \E t \in 0 .. CallTime : t < g[c].left /\ g'[c] = received(g[c], t)
           /\ g'[c].phase = "done" \/ Same(g[c], g'[c])
<1>1. PICK t \in CallTimes : t < g[c].left /\ g' = [g EXCEPT ![c] = received(g[c], t)]
  BY DEF Receive
<1>2. t \in 0 .. CallTime /\ t \in Nat /\ g[c] \in Requests
  BY Constants DEF TypeInv
<1>3. received(g[c], t) \in Requests
  BY <1>1, <1>2, Received
<1>4. g' \in [Clients -> Requests] /\ g'[c] = received(g[c], t) /\ \A d \in Clients \ {c} : g'[d] = g[d]
  BY <1>1, <1>3 DEF TypeInv
<1>5. g'[c].phase = "done" \/ Same(g[c], g'[c])
  <2> DEFINE q == g[c]
             x == g'[c]
  <2>1. Refused(x) \/ Same(q, x) \/ x.phase = "done"
    BY <1>1, <1>2, <1>4, Received
  <2> HIDE DEF q, x
  <2>2. Refused(x) => x.phase = "done"
    BY DEF Refused
  <2> QED BY <2>1, <2>2 DEF q, x
<1> QED BY <1>1, <1>2, <1>4, <1>5 DEF Receive

LEMMA Fails ==
    ASSUME TypeInv, NEW c \in Clients, Fail(c)
    PROVE  /\ g[c].phase \in {"sent", "replied"} /\ UNCHANGED <<store, devices, walk, posts>>
           /\ g' \in [Clients -> Requests] /\ \A d \in Clients \ {c} : g'[d] = g[d]
           /\ \E t \in 0 .. CallTime : t <= g[c].left /\ g'[c] \in failures(g[c], t)
           /\ g'[c].phase = "done" \/ Same(g[c], g'[c])
           /\ \/ late' = late
              \/ /\ g[c].kind = "create" /\ Validate(g[c].raw)
                 /\ late' = late \cup {[raw |-> g[c].raw, device |-> DeviceOf(c)]}
<1> DEFINE elapsed(t) == IF t < g[c].left THEN t ELSE g[c].left
<1>1. PICK t \in CallTimes :
        \E q \in failures(g[c], elapsed(t)) : g' = [g EXCEPT ![c] = q]
  BY DEF Fail
<1>2. PICK q \in failures(g[c], elapsed(t)) : g' = [g EXCEPT ![c] = q]
  BY <1>1
<1>3. g[c] \in Requests /\ g[c].left \in Nat
  BY DEF TypeInv, Requests
<1>4. t \in Nat /\ t <= CallTime
  BY Constants
<1>5. elapsed(t) \in 0 .. CallTime /\ elapsed(t) \in Nat /\ elapsed(t) <= g[c].left
  BY <1>3, <1>4, Constants
<1> HIDE DEF elapsed
<1>6. q \in Requests
  BY <1>2, <1>3, <1>5, Failures
<1>7. g' \in [Clients -> Requests] /\ g'[c] = q /\ \A d \in Clients \ {c} : g'[d] = g[d]
  BY <1>2, <1>6 DEF TypeInv
<1>8. q.phase = "done" \/ Same(g[c], q)
  <2>1. Refused(q) \/ Same(g[c], q)
    BY <1>2, <1>3, <1>5, Failures
  <2> QED BY <2>1 DEF Refused
<1> QED BY <1>2, <1>5, <1>7, <1>8 DEF Fail

\* The request was for no URL.
LEMMA Malforms ==
    ASSUME TypeInv, NEW c \in Clients, Malformed(c)
    PROVE  /\ g[c].phase = "sent" /\ UNCHANGED <<store, devices, walk, posts, late>>
           /\ g' \in [Clients -> Requests] /\ \A d \in Clients \ {c} : g'[d] = g[d]
           /\ \/ Refused(g'[c])
              \/ Same(g[c], g'[c]) /\ Degraded(g'[c], g[c].left)
<1>1. g' = [g EXCEPT ![c] = callFailed(g[c])]
  BY DEF Malformed
<1>2. g[c] \in Requests
  BY DEF TypeInv
<1>3. callFailed(g[c]) \in Requests
  BY <1>2, CallFailed
<1>4. g' \in [Clients -> Requests] /\ g'[c] = callFailed(g[c]) /\ \A d \in Clients \ {c} : g'[d] = g[d]
  BY <1>1, <1>3 DEF TypeInv
<1>5. Refused(g'[c]) \/ (Same(g[c], g'[c]) /\ Degraded(g'[c], g[c].left))
  BY <1>2, <1>4, CallFailed
<1> QED BY <1>4, <1>5 DEF Malformed

\* The walk after a page.
LEMMA TurnPage ==
    ASSUME NEW w \in Walks, NEW q \in Requests
    PROVE  LET x == turnPage(w, q)
           IN  /\ x \in Walks /\ x.seen = w.seen \cup q.page /\ x.cursor = q.next
               /\ x.count = w.count + Cardinality(q.page)
               /\ x.state = IF q.next # NoId THEN "on" ELSE "done"
               /\ x.known = w.known /\ x.site = w.site
<1> DEFINE more == q.next # NoId
           n == Cardinality(q.page)
           x1 == [w EXCEPT !.seen = w.seen \cup q.page]
           x2 == [x1 EXCEPT !.count = w.count + n]
           x3 == [x2 EXCEPT !.cursor = q.next]
           x4 == [x3 EXCEPT !.state = IF more THEN "on" ELSE "done"]
           x5 == [x4 EXCEPT !.limit = IF more THEN w.limit ELSE 0]
<1>0. q.page \in SUBSET Ids /\ q.next \in Ids \cup {NoId} /\ w.limit \in Int /\ w.count \in Nat
  BY DEF Requests, Walks
<1>1. n \in Nat
  BY <1>0, Constants, FS_Subset, FS_CardinalityType
<1>2. turnPage(w, q) = x5
  BY DEF turnPage, Walks
<1> HIDE DEF n, more
<1>3. x1 \in Walks /\ x1.seen = w.seen \cup q.page /\ x1.known = w.known /\ x1.site = w.site
  BY <1>0 DEF Walks
<1>4. x2 \in Walks /\ x2.seen = w.seen \cup q.page /\ x2.known = w.known /\ x2.site = w.site
      /\ x2.count = w.count + n
  <2> HIDE DEF x1
  <2>1. w.count + n \in Nat
    BY <1>0, <1>1
  <2> QED BY <1>3, <2>1 DEF Walks
<1>5. x3 \in Walks /\ x3.seen = w.seen \cup q.page /\ x3.known = w.known /\ x3.site = w.site
      /\ x3.count = w.count + n /\ x3.cursor = q.next
  <2> HIDE DEF x2
  <2> QED BY <1>0, <1>4 DEF Walks
<1>6. x4 \in Walks /\ x4.seen = w.seen \cup q.page /\ x4.known = w.known /\ x4.site = w.site
      /\ x4.count = w.count + n /\ x4.cursor = q.next /\ x4.state = IF more THEN "on" ELSE "done"
  <2> HIDE DEF x3
  <2> QED BY <1>5 DEF Walks
<1>7. x5 \in Walks /\ x5.seen = w.seen \cup q.page /\ x5.known = w.known /\ x5.site = w.site
      /\ x5.count = w.count + n /\ x5.cursor = q.next /\ x5.state = IF more THEN "on" ELSE "done"
  <2> HIDE DEF x4
  <2> QED BY <1>0, <1>6 DEF Walks
<1> HIDE DEF x5
<1> QED BY <1>2, <1>7 DEF n, more

\* A walk that begins.
Begun(site, limit, known) ==
    [NoWalk EXCEPT !.state = "on", !.limit = limit, !.site = site, !.known = known]

LEMMA WalkBegins ==
    ASSUME NEW site \in Sites \cup {NoSite}, NEW limit \in Int, NEW known \in SUBSET Ids
    PROVE  LET x == Begun(site, limit, known)
           IN  /\ x \in Walks /\ x.state = "on" /\ x.site = site /\ x.known = known
               /\ x.seen = {} /\ x.count = 0 /\ x.cursor = NoId
<1> DEFINE x1 == [NoWalk EXCEPT !.state = "on"]
           x2 == [x1 EXCEPT !.limit = limit]
           x3 == [x2 EXCEPT !.site = site]
           x4 == [x3 EXCEPT !.known = known]
<1>1. x1 \in Walks /\ x1.state = "on" /\ x1.seen = {} /\ x1.count = 0 /\ x1.cursor = NoId
  BY DEF NoWalk, Walks
<1>2. x2 \in Walks /\ x2.state = "on" /\ x2.seen = {} /\ x2.count = 0 /\ x2.cursor = NoId
  <2> HIDE DEF x1
  <2> QED BY <1>1 DEF Walks
<1>3. x3 \in Walks /\ x3.state = "on" /\ x3.seen = {} /\ x3.count = 0 /\ x3.cursor = NoId
      /\ x3.site = site
  <2> HIDE DEF x2
  <2> QED BY <1>2 DEF Walks
<1>4. x4 \in Walks /\ x4.state = "on" /\ x4.seen = {} /\ x4.count = 0 /\ x4.cursor = NoId
      /\ x4.site = site /\ x4.known = known
  <2> HIDE DEF x3
  <2> QED BY <1>3 DEF Walks
<1>5. Begun(site, limit, known) = x4
  BY DEF Begun
<1> HIDE DEF x4
<1> QED BY <1>4, <1>5

LEMMA NoWalkType == NoWalk \in Walks
BY DEF NoWalk, Walks

\* What ListDevices begins.
LEMMA Lists ==
    ASSUME TypeInv, NEW c \in Clients, ListDevices(c)
    PROVE  \E site \in Sites \cup {NoSite}, limit \in Int :
             /\ Accept(c, "list", NoId, site)
             /\ walk' = [walk EXCEPT ![c] = Begun(site, limit, DOMAIN devices)]
<1>1. Limits \cup {BadLimit} \subseteq Int
  BY GatewayAssumption DEF BadLimit
<1> QED BY <1>1 DEF ListDevices, Begun

-----------------------------------------------------------------------------
(* Types.                                                                  *)

LEMMA InitTypes == Init => TypeInv
<1> SUFFICES ASSUME Init PROVE TypeInv
  OBVIOUS
<1>1. store \in {"memory", "postgres"} /\ late = {}
  BY DEF Init
<1>2. DOMAIN devices \subseteq Ids /\ devices = [i \in DOMAIN devices |-> devices[i]]
  BY GatewayAssumption DEF Init
<1>3. g \in [Clients -> Requests] /\ walk \in [Clients -> Walks] /\ posts \in [Clients -> Nat]
  BY NoRequestType, NoWalkType DEF Init
<1>4. \A c \in Clients : Spelled(g[c])
  BY DEF Init, NoRequest, Spelled
<1> QED BY <1>1, <1>2, <1>3, <1>4 DEF TypeInv

\* Which kinds of request there are, and in which spellings, by action.
LEMMA Kinds ==
    ASSUME NEW c \in Clients
    PROVE  /\ CreateDevice(c) => \E raw \in RawIds, site \in Sites : Accept(c, "create", raw, site)
           /\ Lookup(c) => \E kind \in {"get", "score"}, raw \in Strings : Accept(c, kind, raw, NoSite)
           /\ NoId \in RawIds /\ RawIds \subseteq Strings
<1>1. NoId \in RawIds
  BY DEF RawIds
<1> QED BY <1>1, Constants DEF CreateDevice, Lookup

\* A client's next request is another, the same one further on, or answered.
LEMMA StaysSpelled ==
    ASSUME TypeInv, NEW c \in Clients, \A d \in Clients \ {c} : g'[d] = g[d],
           \/ g'[c].phase = "done" \/ g'[c].kind # "create" \/ g'[c].raw \in RawIds
           \/ Same(g[c], g'[c]) /\ g[c].phase # "done"
    PROVE  \A d \in Clients : Spelled(g'[d])
BY DEF Spelled, Same, TypeInv

LEMMA NextTypes == TypeInv /\ [Next]_vars => TypeInv'
<1> SUFFICES ASSUME TypeInv, [Next]_vars PROVE TypeInv'
  OBVIOUS
<1>0. ASSUME g' \in [Clients -> Requests], walk' \in [Clients -> Walks], posts' \in [Clients -> Nat],
             UNCHANGED <<store, devices, late>>, \A c \in Clients : Spelled(g'[c])
      PROVE  TypeInv'
  <2>1. \A c \in Clients : Spelled(g[c])'
    BY <1>0 DEF Spelled
  <2> QED BY <1>0, <2>1 DEF TypeInv, Validate
<1>1. ASSUME NEW c \in Clients, CreateDevice(c) PROVE TypeInv'
  <2>0. PICK raw \in RawIds, site \in Sites : Accept(c, "create", raw, site)
    BY <1>1, Kinds
  <2>1. /\ g' \in [Clients -> Requests] /\ UNCHANGED <<store, devices, late>>
        /\ g'[c].raw = raw /\ \A d \in Clients \ {c} : g'[d] = g[d]
    BY <2>0, Constants, Accepts
  <2>2. walk' \in [Clients -> Walks]
    BY <1>1, NoWalkType DEF CreateDevice, TypeInv
  <2>3. posts' \in [Clients -> Nat]
    BY <1>1 DEF CreateDevice, TypeInv
  <2> QED BY <1>0, <2>1, <2>2, <2>3, StaysSpelled
<1>2. ASSUME NEW c \in Clients, RejectInput(c) PROVE TypeInv'
  <2>1. PICK kind \in {"create", "score"} :
          g' = [g EXCEPT ![c] = answered([NoRequest EXCEPT !.kind = kind], 400)]
    BY <1>2, ZenonT(60) DEF RejectInput
  <2>2. [NoRequest EXCEPT !.kind = kind] \in Requests
    BY NoRequestType DEF Requests
  <2>3. /\ answered([NoRequest EXCEPT !.kind = kind], 400) \in Requests
        /\ answered([NoRequest EXCEPT !.kind = kind], 400).phase = "done"
    BY <2>2, Answered
  <2>4. g' \in [Clients -> Requests] /\ g'[c].phase = "done" /\ \A d \in Clients \ {c} : g'[d] = g[d]
    BY <2>1, <2>3 DEF TypeInv
  <2>5. walk' \in [Clients -> Walks] /\ posts' \in [Clients -> Nat] /\ UNCHANGED <<store, devices, late>>
    BY <1>2, NoWalkType DEF RejectInput, TypeInv
  <2> QED BY <1>0, <2>4, <2>5, StaysSpelled
<1>3. ASSUME NEW c \in Clients, Lookup(c) PROVE TypeInv'
  <2>0. PICK kind \in {"get", "score"}, raw \in Strings : Accept(c, kind, raw, NoSite)
    BY <1>3, Kinds
  <2>1. /\ g' \in [Clients -> Requests] /\ UNCHANGED <<store, devices, late>>
        /\ g'[c].kind = kind /\ \A d \in Clients \ {c} : g'[d] = g[d]
    BY <2>0, Accepts
  <2>2. walk' \in [Clients -> Walks] /\ posts' \in [Clients -> Nat]
    BY <1>3, NoWalkType DEF Lookup, TypeInv
  <2> QED BY <1>0, <2>1, <2>2, StaysSpelled
<1>4. ASSUME NEW c \in Clients, ListDevices(c) PROVE TypeInv'
  <2>1. PICK site \in Sites \cup {NoSite}, limit \in Int :
          /\ Accept(c, "list", NoId, site)
          /\ walk' = [walk EXCEPT ![c] = Begun(site, limit, DOMAIN devices)]
    BY <1>4, Lists
  <2>2. /\ g' \in [Clients -> Requests] /\ UNCHANGED <<store, devices, late>>
        /\ g'[c].kind = "list" /\ \A d \in Clients \ {c} : g'[d] = g[d]
    BY <2>1, Kinds, Accepts
  <2>3. Begun(site, limit, DOMAIN devices) \in Walks
    BY WalkBegins DEF TypeInv
  <2>4. walk' \in [Clients -> Walks] /\ posts' \in [Clients -> Nat]
    BY <1>4, <2>1, <2>3 DEF ListDevices, TypeInv
  <2> QED BY <1>0, <2>2, <2>4, StaysSpelled
<1>5. ASSUME NEW c \in Clients, NextPage(c) PROVE TypeInv'
  <2>1. walk[c].site \in Sites \cup {NoSite}
    BY DEF TypeInv, Walks
  <2>2. /\ g' \in [Clients -> Requests] /\ UNCHANGED <<store, devices, late>>
        /\ g'[c].kind = "list" /\ \A d \in Clients \ {c} : g'[d] = g[d]
    BY <1>5, <2>1, Kinds, Accepts DEF NextPage
  <2>3. walk' \in [Clients -> Walks] /\ posts' \in [Clients -> Nat]
    BY <1>5 DEF NextPage, TypeInv
  <2> QED BY <1>0, <2>2, <2>3, StaysSpelled
<1>6. ASSUME NEW c \in Clients, Serve(c) PROVE TypeInv'
  <2>1. /\ g' \in [Clients -> Requests] /\ UNCHANGED <<store, walk, posts, late>>
        /\ devices' = devices \/ Inserted(subject(g[c].raw), DeviceOf(c))
        /\ Same(g[c], g'[c]) /\ g[c].phase # "done" /\ \A d \in Clients \ {c} : g'[d] = g[d]
    BY <1>6, Serves
  <2>2. DOMAIN devices' \subseteq Ids /\ devices' = [i \in DOMAIN devices' |-> devices'[i]]
    BY <2>1, InsertGrows
  <2>3. \A d \in Clients : Spelled(g[d])'
    BY <2>1, StaysSpelled DEF Spelled
  <2> QED BY <2>1, <2>2, <2>3 DEF TypeInv, Validate
<1>7. ASSUME NEW c \in Clients, Receive(c) PROVE TypeInv'
  <2>1. /\ g' \in [Clients -> Requests] /\ UNCHANGED <<store, devices, posts, late>>
        /\ g'[c].phase = "done" \/ (Same(g[c], g'[c]) /\ g[c].phase # "done")
        /\ \A d \in Clients \ {c} : g'[d] = g[d]
    BY <1>7, Receives
  <2>2. walk[c] \in Walks /\ g[c] \in Requests
    BY DEF TypeInv
  <2>3. turnPage(walk[c], g[c]) \in Walks
    BY <2>2, TurnPage
  <2>4. walk' \in [Clients -> Walks]
    BY <1>7, <2>3 DEF Receive, TypeInv
  <2>5. \A d \in Clients : Spelled(g'[d])
    BY <2>1, StaysSpelled
  <2> QED BY <1>0, <2>1, <2>4, <2>5 DEF TypeInv
<1>8. ASSUME NEW c \in Clients, Fail(c) PROVE TypeInv'
  <2>1. /\ g' \in [Clients -> Requests] /\ UNCHANGED <<store, devices, walk, posts>>
        /\ g[c].phase # "done" /\ (g'[c].phase = "done" \/ Same(g[c], g'[c]))
        /\ \A d \in Clients \ {c} : g'[d] = g[d]
        /\ \/ late' = late
           \/ /\ g[c].kind = "create" /\ Validate(g[c].raw)
              /\ late' = late \cup {[raw |-> g[c].raw, device |-> DeviceOf(c)]}
    BY <1>8, Fails
  <2>2. g[c].kind = "create" => g[c].raw \in RawIds
    BY <2>1 DEF TypeInv, Spelled
  <2>3. \A m \in late' : m.raw \in RawIds /\ Validate(m.raw)
    BY <2>1, <2>2 DEF TypeInv
  <2>4. \A d \in Clients : Spelled(g[d])'
    BY <2>1, StaysSpelled DEF Spelled
  <2> QED BY <2>1, <2>3, <2>4 DEF TypeInv, Validate
<1>9. ASSUME NEW m \in late, ServeLate(m) PROVE TypeInv'
  <2>1. m.raw \in RawIds /\ late' \subseteq late /\ UNCHANGED <<store, g, walk, posts>>
    BY <1>9 DEF TypeInv, ServeLate
  <2>2. devices' = devices \/ Inserted(meant(m.raw), m.device)
    BY <1>9, <2>1, Creates DEF ServeLate
  <2>3. DOMAIN devices' \subseteq Ids /\ devices' = [i \in DOMAIN devices' |-> devices'[i]]
    BY <2>2, InsertGrows
  <2>4. \A d \in Clients : Spelled(g[d])'
    BY <2>1 DEF Spelled, TypeInv
  <2> QED BY <2>1, <2>3, <2>4 DEF TypeInv, Validate
<1>10. ASSUME NEW c \in Clients, Score(c) PROVE TypeInv'
  <2>1. PICK status \in {200, 422, 502, 503, 504} : g' = [g EXCEPT ![c] = answered(g[c], status)]
    BY <1>10 DEF Score
  <2>2. g[c] \in Requests /\ status \in Nat
    BY DEF TypeInv
  <2>3. answered(g[c], status) \in Requests /\ answered(g[c], status).phase = "done"
    BY <2>2, Answered
  <2>4. g' \in [Clients -> Requests] /\ g'[c].phase = "done" /\ \A d \in Clients \ {c} : g'[d] = g[d]
    BY <2>1, <2>3 DEF TypeInv
  <2>5. \A d \in Clients : Spelled(g'[d])
    BY <2>4, StaysSpelled
  <2>6. walk' \in [Clients -> Walks] /\ posts' \in [Clients -> Nat] /\ UNCHANGED <<store, devices, late>>
    BY <1>10 DEF Score, TypeInv
  <2> QED BY <1>0, <2>4, <2>5, <2>6
<1>12. ASSUME NEW c \in Clients, Malformed(c) PROVE TypeInv'
  <2>1. /\ g' \in [Clients -> Requests] /\ UNCHANGED <<store, devices, walk, posts, late>>
        /\ g[c].phase # "done" /\ (Refused(g'[c]) \/ Same(g[c], g'[c]))
        /\ \A d \in Clients \ {c} : g'[d] = g[d]
    BY <1>12, Malforms
  <2>2. \A d \in Clients : Spelled(g'[d])
    BY <2>1, StaysSpelled DEF Refused
  <2>3. walk' \in [Clients -> Walks] /\ posts' \in [Clients -> Nat]
    BY <2>1 DEF TypeInv
  <2> QED BY <1>0, <2>1, <2>2, <2>3
<1>11. CASE UNCHANGED vars
  <2>1. \A c \in Clients : Spelled(g'[c])
    BY <1>11 DEF vars, TypeInv
  <2> QED BY <1>0, <1>11, <2>1 DEF vars, TypeInv
<1> QED
  BY <1>1, <1>2, <1>3, <1>4, <1>5, <1>6, <1>7, <1>8, <1>9, <1>10, <1>11, <1>12 DEF Next

-----------------------------------------------------------------------------
(* Time.                                                                   *)

\* TimeInv, of one request.
Timed(q) ==
    q.kind = "score" =>
        /\ q.phase \in {"sent", "replied"} =>
             q.left + (q.attempt - 1) * (CallTime + Backoff) >= Deadline
        /\ q.phase = "score" =>
             q.left + MaxAttempts * CallTime + (MaxAttempts - 1) * Backoff >= Deadline

LEMMA TimedEach == TimeInv <=> \A c \in Clients : Timed(g[c])
BY DEF TimeInv, Timed

\* An attempt of at most CallTime ends.
LEMMA TimePasses ==
    ASSUME NEW q \in Requests, NEW x \in Requests, NEW t \in 0 .. CallTime, Timed(q),
           q.phase \in {"sent", "replied"}, x.kind = q.kind,
           \/ Retried(q, x, q.left - t - Backoff)
           \/ x.phase = "score" /\ x.left = q.left - t
    PROVE  Timed(x)
<1> DEFINE e == CallTime + Backoff
           k == q.attempt - 1
           n == MaxAttempts - 1
<1>1. /\ CallTime \in Nat /\ Backoff \in Nat /\ Deadline \in Nat /\ MaxAttempts \in Nat \ {0}
      /\ q.left \in Nat /\ k \in 0 .. n /\ e \in Nat /\ n \in Nat
  BY Constants DEF Requests
<1> SUFFICES ASSUME x.kind = "score" PROVE Timed(x)
  BY DEF Timed
<1>2. q.left + k * e >= Deadline
  BY DEF Timed
<1>3. CASE Retried(q, x, q.left - t - Backoff)
  <2>1. x.phase = "sent" /\ x.attempt - 1 = k + 1 /\ x.left = q.left - t - Backoff
    BY <1>1, <1>3 DEF Retried, Requests
  <2>2. (k + 1) * e = k * e + e /\ k * e \in Int
    BY <1>1
  <2>3. x.left + (k + 1) * e >= Deadline
    BY <1>1, <1>2, <2>1, <2>2
  <2> QED BY <2>1, <2>3 DEF Timed
<1>4. CASE x.phase = "score" /\ x.left = q.left - t
  <2>1. k * e <= n * e /\ k * e \in Int /\ n * e \in Int
    BY <1>1
  <2>2. MaxAttempts * CallTime + n * Backoff = n * e + CallTime
    BY <1>1
  <2>3. x.left + n * e + CallTime >= Deadline
    BY <1>1, <1>2, <1>4, <2>1
  <2>4. MaxAttempts * CallTime \in Int /\ n * Backoff \in Int /\ x.left \in Int
    BY <1>1, <1>4
  <2>5. x.left + MaxAttempts * CallTime + n * Backoff >= Deadline
    BY <1>1, <2>1, <2>2, <2>3, <2>4
  <2> QED BY <1>4, <2>5 DEF Timed
<1> QED BY <1>3, <1>4

LEMMA NextTime == TypeInv /\ TimeInv /\ [Next]_vars => TimeInv'
<1> SUFFICES ASSUME TypeInv, TimeInv, [Next]_vars, NEW d \in Clients PROVE Timed(g'[d])
  BY DEF TimeInv, Timed
<1>0. g[d] \in Requests /\ Timed(g[d])
  BY TimedEach DEF TypeInv
<1>1. ASSUME g'[d] = g[d] PROVE Timed(g'[d])
  BY <1>0, <1>1
<1>2. ASSUME NEW q, q.phase = "done" PROVE Timed(q)
  BY <1>2 DEF Timed
<1>3. ASSUME NEW c \in Clients, NEW kind \in {"create", "get", "list", "score"}, NEW raw \in Strings,
             NEW site \in Sites \cup {NoSite}, Accept(c, kind, raw, site)
      PROVE  Timed(g'[d])
  <2>1. CASE c = d
    <3>1. g'[d].phase = "sent" /\ g'[d].attempt = 1 /\ g'[d].left = Deadline
      BY <1>3, <2>1, Accepts
    <3>2. 0 * (CallTime + Backoff) = 0
      BY Constants
    <3> QED BY <3>1, <3>2, Constants DEF Timed
  <2>2. CASE c # d
    BY <1>1, <1>3, <2>2, Accepts
  <2> QED BY <2>1, <2>2
<1>4. ASSUME NEW c \in Clients,
             CreateDevice(c) \/ Lookup(c) \/ ListDevices(c) \/ NextPage(c)
      PROVE  Timed(g'[d])
  <2>1. walk[c].site \in Sites \cup {NoSite}
    BY DEF TypeInv, Walks
  <2>2. CASE CreateDevice(c)
    <3>1. PICK raw \in RawIds, site \in Sites : Accept(c, "create", raw, site)
      BY <2>2, Kinds
    <3> QED BY <1>3, <3>1, Constants
  <2>3. CASE Lookup(c)
    BY <1>3, <2>3, Kinds
  <2>4. CASE ListDevices(c)
    BY <1>3, <2>4, Kinds, Lists
  <2>5. CASE NextPage(c)
    BY <1>3, <2>1, <2>5, Kinds DEF NextPage
  <2> QED BY <1>4, <2>2, <2>3, <2>4, <2>5
<1>5. ASSUME NEW c \in Clients, RejectInput(c) PROVE Timed(g'[d])
  <2>1. PICK kind \in {"create", "score"} :
          g' = [g EXCEPT ![c] = answered([NoRequest EXCEPT !.kind = kind], 400)]
    BY <1>5, ZenonT(60) DEF RejectInput
  <2>2. [NoRequest EXCEPT !.kind = kind] \in Requests
    BY NoRequestType DEF Requests
  <2>3. answered([NoRequest EXCEPT !.kind = kind], 400).phase = "done"
    BY <2>2, Answered
  <2> QED BY <1>1, <1>2, <2>1, <2>3 DEF TypeInv
<1>6. ASSUME NEW c \in Clients, Serve(c) PROVE Timed(g'[d])
  <2>1. CASE c = d
    BY <1>0, <1>6, <2>1, Serves DEF Same, Timed
  <2>2. CASE c # d
    BY <1>1, <1>6, <2>2, Serves
  <2> QED BY <2>1, <2>2
<1>7. ASSUME NEW c \in Clients, Receive(c) PROVE Timed(g'[d])
  <2>1. CASE c = d
    <3>1. PICK t \in 0 .. CallTime : t < g[d].left /\ g'[d] = received(g[d], t)
      BY <1>7, <2>1, Receives
    <3>2. t \in Nat /\ g[d].phase = "replied"
      BY <1>7, <2>1, Constants, Receives
    <3>3. /\ g'[d] \in Requests
          /\ \/ g'[d].phase = "done"
             \/ /\ g'[d].kind = g[d].kind
                /\ \/ Retried(g[d], g'[d], g[d].left - t - Backoff)
                   \/ g'[d].phase = "score" /\ g'[d].left = g[d].left - t
      <4> DEFINE q == g[d]
                 x == g'[d]
      <4>1. /\ x \in Requests
            /\ \/ Refused(x)
               \/ Same(q, x) /\ (Retried(q, x, q.left - t - Backoff) \/ Degraded(x, q.left - t))
               \/ x.phase = "done"
               \/ x.phase = "score" /\ Same(q, x) /\ x.left = q.left - t
        BY <1>0, <3>1, <3>2, Received
      <4> QED BY <4>1, Zenon DEF Same, Degraded, Refused
    <3> QED BY <1>0, <1>2, <3>2, <3>3, TimePasses
  <2>2. CASE c # d
    BY <1>1, <1>7, <2>2, Receives
  <2> QED BY <2>1, <2>2
<1>8. ASSUME NEW c \in Clients, Fail(c) PROVE Timed(g'[d])
  <2>1. CASE c = d
    <3>1. PICK t \in 0 .. CallTime : t <= g[d].left /\ g'[d] \in failures(g[d], t)
      BY <1>8, <2>1, Fails
    <3>2. t \in Nat /\ g[d].phase \in {"sent", "replied"}
      BY <1>8, <2>1, Constants, Fails
    <3>3. /\ g'[d] \in Requests
          /\ \/ g'[d].phase = "done"
             \/ /\ g'[d].kind = g[d].kind
                /\ \/ Retried(g[d], g'[d], g[d].left - t - Backoff)
                   \/ g'[d].phase = "score" /\ g'[d].left = g[d].left - t
      <4> DEFINE q == g[d]
                 x == g'[d]
      <4>1. /\ x \in Requests
            /\ \/ Refused(x)
               \/ Same(q, x) /\ (Retried(q, x, q.left - t - Backoff) \/ Degraded(x, q.left - t))
        BY <1>0, <3>1, <3>2, Failures
      <4> QED BY <4>1, Zenon DEF Same, Degraded, Refused
    <3> QED BY <1>0, <1>2, <3>2, <3>3, TimePasses
  <2>2. CASE c # d
    BY <1>1, <1>8, <2>2, Fails
  <2> QED BY <2>1, <2>2
<1>9. ASSUME NEW c \in Clients, Score(c) PROVE Timed(g'[d])
  <2>1. PICK status \in {200, 422, 502, 503, 504} : g' = [g EXCEPT ![c] = answered(g[c], status)]
    BY <1>9 DEF Score
  <2>2. answered(g[c], status).phase = "done"
    <3>1. g[c] \in Requests /\ status \in Nat
      BY DEF TypeInv
    <3> QED BY <3>1, Answered
  <2> QED BY <1>1, <1>2, <2>1, <2>2 DEF TypeInv
<1>10. ASSUME UNCHANGED g PROVE Timed(g'[d])
  BY <1>1, <1>10
<1>11. ASSUME NEW c \in Clients, Malformed(c) PROVE Timed(g'[d])
  <2>1. CASE c = d
    <3>1. /\ g[d].phase = "sent" /\ g'[d] \in Requests
          /\ Refused(g'[d]) \/ (Same(g[d], g'[d]) /\ Degraded(g'[d], g[d].left))
      BY <1>11, <2>1, Malforms
    <3>2. CASE Refused(g'[d])
      BY <1>2, <3>2 DEF Refused
    <3>3. CASE Same(g[d], g'[d]) /\ Degraded(g'[d], g[d].left)
      <4>1. g'[d].kind = g[d].kind /\ g'[d].phase = "score" /\ g'[d].left = g[d].left - 0
        BY <1>0, <3>3 DEF Same, Degraded, Requests
      <4>2. 0 \in 0 .. CallTime
        BY Constants
      <4> QED BY <1>0, <3>1, <4>1, <4>2, TimePasses
    <3> QED BY <3>1, <3>2, <3>3
  <2>2. CASE c # d
    BY <1>1, <1>11, <2>2, Malforms
  <2> QED BY <2>1, <2>2
<1> QED
  BY <1>4, <1>5, <1>6, <1>7, <1>8, <1>9, <1>10, <1>11 DEF Next, ServeLate, vars

\* With a deadline for every attempt at the catalog, their backoffs and one
\* attempt at the scorer, an outage of the catalog leaves the scorer its time,
\* however slow each attempt is and whatever else the gateway does.
THEOREM OutageLeavesTime ==
    ASSUME Deadline >= (MaxAttempts + 1) * CallTime + (MaxAttempts - 1) * Backoff
    PROVE  Spec => []EnrichmentLeavesTime
<1>1. Init => TimeInv
  BY DEF Init, TimeInv, NoRequest
<1>2. TypeInv /\ TimeInv => EnrichmentLeavesTime
  <2> SUFFICES ASSUME TypeInv, NEW c \in Clients, Timed(g[c]), g[c].kind = "score"
               PROVE  /\ g[c].phase = "score" => g[c].left >= CallTime
                      /\ g[c].phase \in {"sent", "replied"} => g[c].left >= 2 * CallTime
    BY TimedEach DEF EnrichmentLeavesTime
  <2> DEFINE e == CallTime + Backoff
             k == g[c].attempt - 1
             n == MaxAttempts - 1
  <2>1. /\ CallTime \in Nat /\ Backoff \in Nat /\ Deadline \in Nat /\ MaxAttempts \in Nat \ {0}
        /\ g[c].left \in Nat /\ k \in 0 .. n /\ e \in Nat /\ n \in Nat
    BY Constants DEF TypeInv, Requests
  <2>2. k * e <= n * e /\ k * e \in Int /\ n * e \in Int
    BY <2>1
  <2>3. (MaxAttempts + 1) * CallTime + n * Backoff = n * e + 2 * CallTime
    BY <2>1
  <2>4. MaxAttempts * CallTime + n * Backoff = n * e + CallTime
        /\ MaxAttempts * CallTime \in Int /\ n * Backoff \in Int
    BY <2>1
  <2>5. ASSUME g[c].phase = "score" PROVE g[c].left >= CallTime
    <3>1. g[c].left + MaxAttempts * CallTime + n * Backoff >= Deadline
      BY <2>5 DEF Timed
    <3>2. g[c].left + n * e + CallTime >= Deadline
      BY <2>1, <2>2, <2>4, <3>1
    <3> QED BY <2>1, <2>2, <2>3, <3>2
  <2>6. ASSUME g[c].phase \in {"sent", "replied"} PROVE g[c].left >= 2 * CallTime
    <3>1. g[c].left + k * e >= Deadline
      BY <2>6 DEF Timed
    <3> QED BY <2>1, <2>2, <2>3, <3>1
  <2> QED BY <2>5, <2>6
<1> QED BY <1>1, <1>2, InitTypes, NextTypes, NextTime, PTL DEF Spec

-----------------------------------------------------------------------------
(* Answers.                                                                *)

\* AnswerInv, of one request: its answer so far is true of the table.
True(q, device, table) ==
    LET id == subject(q.raw)
    IN  /\ q.kind = "create" /\ q.phase = "replied" =>
             /\ q.reply = 201 => id \in DOMAIN table /\ table[id] = device
             /\ q.reply = 409 => id \in DOMAIN table
        /\ asks(q) \in {"get", "score"} /\ q.phase # "done" =>
             /\ q.registered => id \in DOMAIN table
             /\ q.phase = "replied" /\ q.reply = 200 => id \in DOMAIN table
             /\ q.phase = "replied" /\ q.reply = 404 => ~q.registered
             /\ q.phase = "score" /\ ~q.degraded => id \in DOMAIN table

LEMMA TrueEach ==
    /\ AnswerInv <=> \A c \in Clients : True(g[c], DeviceOf(c), devices)
    /\ AnswerInv' <=> \A c \in Clients : True(g'[c], DeviceOf(c)', devices')
BY Zenon DEF AnswerInv, True, DeviceOf

\* No step takes a device away or changes one.
LEMMA NextGrows == TypeInv /\ [Next]_vars => Grown
<1> SUFFICES ASSUME TypeInv, [Next]_vars PROVE Grown
  OBVIOUS
<1>1. CASE devices' = devices
  BY <1>1 DEF Grown
<1>2. ASSUME NEW c \in Clients, Serve(c) PROVE Grown
  <2>1. devices' = devices \/ Inserted(subject(g[c].raw), DeviceOf(c))
    BY <1>2, Serves
  <2> QED BY <2>1, InsertGrows
<1>3. ASSUME NEW m \in late, ServeLate(m) PROVE Grown
  <2>1. m.raw \in RawIds
    BY DEF TypeInv
  <2>2. devices' = devices \/ Inserted(meant(m.raw), m.device)
    BY <1>3, <2>1, Creates DEF ServeLate
  <2> QED BY <2>2, InsertGrows
<1>4. ASSUME NEW c \in Clients,
             \/ CreateDevice(c) \/ RejectInput(c) \/ Lookup(c) \/ ListDevices(c) \/ NextPage(c)
             \/ Malformed(c) \/ Receive(c) \/ Fail(c) \/ Score(c)
      PROVE  devices' = devices
  BY <1>4, ZenonT(60)
  DEF CreateDevice, RejectInput, Lookup, ListDevices, NextPage, Accept, Malformed, Receive, Fail, Score
<1>5. UNCHANGED vars => devices' = devices
  BY DEF vars
<1> QED BY <1>1, <1>2, <1>3, <1>4, <1>5 DEF Next

\* How many devices a client has asked for is part of its device.
LEMMA DeviceKept ==
    ASSUME NEW c \in Clients, g'[c].site = g[c].site, posts'[c] = posts[c]
    PROVE  DeviceOf(c)' = DeviceOf(c)
BY DEF DeviceOf

LEMMA NextAnswer == TypeInv /\ AnswerInv /\ [Next]_vars => AnswerInv'
<1> SUFFICES ASSUME TypeInv, AnswerInv, [Next]_vars, NEW d \in Clients
             PROVE  True(g'[d], DeviceOf(d)', devices')
  BY TrueEach
<1> DEFINE q == g[d]
           x == g'[d]
           id == subject(q.raw)
<1>0. q \in Requests /\ True(q, DeviceOf(d), devices) /\ Grown
  BY TrueEach, NextGrows DEF TypeInv
<1>1. ASSUME x = q, posts'[d] = posts[d] PROVE True(x, DeviceOf(d)', devices')
  <2>1. DeviceOf(d)' = DeviceOf(d)
    BY <1>1, DeviceKept
  <2> HIDE DEF q, x
  <2> QED BY <1>0, <1>1, <2>1, ZenonT(60) DEF True, Grown
<1>2. ASSUME x.phase = "done" PROVE True(x, DeviceOf(d)', devices')
  BY <1>2 DEF True
<1>3. ASSUME Same(q, x), q.phase # "done", x.phase = "sent" PROVE True(x, DeviceOf(d)', devices')
  <2> HIDE DEF q, x
  <2>1. x.phase # "replied" /\ x.phase # "score" /\ x.phase # "done"
    BY <1>3
  <2>2. asks(x) = asks(q)
    BY <1>3 DEF asks, Same
  <2> QED BY <1>0, <1>3, <2>1, <2>2, ZenonT(60) DEF True, Grown, Same
<1>4. ASSUME Same(q, x), x.kind = "score", x.phase = "score", q.phase # "done",
             x.degraded = TRUE \/ id \in DOMAIN devices \/ asks(q) = "list"
      PROVE  True(x, DeviceOf(d)', devices')
  <2> HIDE DEF q, x
  <2>1. x.phase # "replied" /\ x.kind # "create" /\ "list" \notin {"get", "score"}
    BY <1>4
  <2>2. asks(x) = asks(q)
    BY <1>4 DEF asks, Same
  <2> QED BY <1>0, <1>4, <2>1, <2>2, Zenon DEF True, Grown, Same
<1>5. ASSUME NEW c \in Clients, NEW kind \in {"create", "get", "list", "score"}, NEW raw \in Strings,
             NEW site \in Sites \cup {NoSite}, Accept(c, kind, raw, site),
             \A e \in Clients \ {c} : posts'[e] = posts[e]
      PROVE  True(x, DeviceOf(d)', devices')
  <2>1. CASE c = d
    <3>1. /\ x.kind = kind /\ x.phase = "sent" /\ x.raw = raw
          /\ x.registered = (kind \in {"get", "score"} /\ subject(raw) \in DOMAIN devices)
      <4>1. /\ g'[c].kind = kind /\ g'[c].phase = "sent" /\ g'[c].raw = raw
            /\ g'[c].registered = (kind \in {"get", "score"} /\ subject(raw) \in DOMAIN devices)
        <5>1. Accept(c, kind, raw, site)
          BY <1>5
        <5>2. g'[c].kind = kind /\ g'[c].phase = "sent" /\ g'[c].raw = raw
          BY <5>1, Accepts
        <5>3. g'[c].registered = (kind \in {"get", "score"} /\ subject(raw) \in DOMAIN devices)
          BY <5>1, Accepts
        <5> QED BY <5>2, <5>3
      <4> QED BY <2>1, <4>1, Zenon
    <3>2. x.phase # "replied" /\ x.phase # "score" /\ (asks(x) \in {"get", "score"} => asks(x) = kind)
      BY <3>1, Asks
    <3> HIDE DEF x
    <3> QED BY <1>0, <3>1, <3>2, Zenon DEF True, Grown
  <2>2. CASE c # d
    BY <1>1, <1>5, <2>2, Accepts
  <2> QED BY <2>1, <2>2
<1>6. ASSUME NEW c \in Clients,
             CreateDevice(c) \/ Lookup(c) \/ ListDevices(c) \/ NextPage(c)
      PROVE  True(x, DeviceOf(d)', devices')
  <2>1. walk[c].site \in Sites \cup {NoSite}
    BY DEF TypeInv, Walks
  <2>2. \A e \in Clients \ {c} : posts'[e] = posts[e]
    BY <1>6 DEF CreateDevice, Lookup, ListDevices, NextPage, TypeInv
  <2>3. CASE CreateDevice(c)
    <3>1. PICK raw \in RawIds, site \in Sites : Accept(c, "create", raw, site)
      BY <2>3, Kinds
    <3>2. raw \in Strings
      BY Kinds
    <3> QED BY <1>5, <2>2, <3>1, <3>2
  <2>4. CASE Lookup(c)
    BY <1>5, <2>2, <2>4, Kinds
  <2>5. CASE ListDevices(c)
    BY <1>5, <2>2, <2>5, Kinds, Lists
  <2>6. CASE NextPage(c)
    BY <1>5, <2>1, <2>2, <2>6, Kinds DEF NextPage
  <2> QED BY <1>6, <2>3, <2>4, <2>5, <2>6
<1>7. ASSUME NEW c \in Clients, RejectInput(c) PROVE True(x, DeviceOf(d)', devices')
  <2>1. PICK kind \in {"create", "score"} :
          g' = [g EXCEPT ![c] = answered([NoRequest EXCEPT !.kind = kind], 400)]
    BY <1>7, ZenonT(60) DEF RejectInput
  <2>2. [NoRequest EXCEPT !.kind = kind] \in Requests
    BY NoRequestType DEF Requests
  <2>3. answered([NoRequest EXCEPT !.kind = kind], 400).phase = "done"
    BY <2>2, Answered
  <2>4. UNCHANGED posts
    BY <1>7 DEF RejectInput
  <2> QED BY <1>1, <1>2, <2>1, <2>3, <2>4 DEF TypeInv
<1>8. ASSUME NEW c \in Clients, Serve(c) PROVE True(x, DeviceOf(d)', devices')
  <2>1. CASE c = d
    <3>1. /\ q.phase = "sent" /\ Same(q, x) /\ x.phase = "replied" /\ UNCHANGED posts
          /\ q.kind = "create" =>
               /\ x.reply = 201 => Inserted(id, DeviceOf(d))
               /\ x.reply = 409 => id \in DOMAIN devices
          /\ asks(q) \in {"get", "score"} =>
               /\ x.reply = 200 => id \in DOMAIN devices
               /\ x.reply = 404 => id \notin DOMAIN devices
      BY <1>8, <2>1, Serves
    <3>2. Inserted(id, DeviceOf(d)) => id \in DOMAIN devices' /\ devices'[id] = DeviceOf(d)
      BY InsertGrows
    <3>3. DeviceOf(d)' = DeviceOf(d)
      BY <3>1, DeviceKept DEF Same
    <3>4. q.phase # "done" /\ x.phase # "score"
      BY <3>1
    <3>5. subject(x.raw) = id /\ x.kind = q.kind /\ asks(x) = asks(q)
      BY <3>1, SameAsks DEF Same
    <3> HIDE DEF q, x, id
    <3>6. x.kind = "create" =>
            /\ x.reply = 201 => id \in DOMAIN devices' /\ devices'[id] = DeviceOf(d)'
            /\ x.reply = 409 => id \in DOMAIN devices'
      BY <1>0, <3>1, <3>2, <3>3, <3>5 DEF Grown
    <3>7. asks(x) \in {"get", "score"} =>
            /\ x.registered => id \in DOMAIN devices'
            /\ x.reply = 200 => id \in DOMAIN devices'
            /\ x.reply = 404 => ~x.registered
      BY <1>0, <3>1, <3>4, <3>5, ZenonT(60) DEF True, Grown, Same, id
    <3> QED BY <3>4, <3>5, <3>6, <3>7, Zenon DEF True
  <2>2. CASE c # d
    BY <1>1, <1>8, <2>2, Serves
  <2> QED BY <2>1, <2>2
<1>9. ASSUME NEW c \in Clients, Receive(c) PROVE True(x, DeviceOf(d)', devices')
  <2>1. CASE c = d
    <3>1. PICK t \in 0 .. CallTime : t < q.left /\ x = received(q, t)
      BY <1>9, <2>1, Receives
    <3>2. t \in Nat /\ q.phase = "replied"
      BY <1>9, <2>1, Constants, Receives
    <3> HIDE DEF q, x
    <3>3. \/ Refused(x)
          \/ Same(q, x) /\ (Retried(q, x, q.left - t - Backoff) \/ Degraded(x, q.left - t))
          \/ x.phase = "done"
          \/ x.phase = "score" /\ Same(q, x) /\ q.kind = "score" /\ q.reply = 200
      BY <1>0, <3>1, <3>2, Received
    <3>4. q.kind = "score" /\ q.reply = 200 => id \in DOMAIN devices \/ asks(q) = "list"
      <4>1. asks(q) = q.kind \/ asks(q) = "list"
        BY Asks
      <4>2. asks(q) = "score" /\ q.reply = 200 => id \in DOMAIN devices
        <5>1. q.phase # "done" /\ "score" \in {"get", "score"}
          BY <3>2
        <5> QED BY <1>0, <3>2, <5>1, Zenon DEF True
      <4> QED BY <4>1, <4>2
    <3>5. CASE Refused(x) \/ x.phase = "done"
      BY <1>2, <3>5, Zenon DEF Refused
    <3>6. CASE Same(q, x) /\ Retried(q, x, q.left - t - Backoff)
      BY <1>3, <3>2, <3>6 DEF Retried
    <3>7. CASE Same(q, x) /\ Degraded(x, q.left - t)
      BY <1>4, <3>2, <3>7, Zenon DEF Degraded
    <3>8. CASE x.phase = "score" /\ Same(q, x) /\ q.kind = "score" /\ q.reply = 200
      <4>1. x.kind = "score" /\ q.phase # "done"
        BY <3>2, <3>8 DEF Same
      <4> QED BY <1>4, <3>4, <3>8, <4>1, Zenon
    <3> QED BY <3>3, <3>5, <3>6, <3>7, <3>8, Zenon
  <2>2. CASE c # d
    BY <1>1, <1>9, <2>2, Receives
  <2> QED BY <2>1, <2>2
<1>10. ASSUME NEW c \in Clients, Fail(c) PROVE True(x, DeviceOf(d)', devices')
  <2>1. CASE c = d
    <3>1. PICK t \in 0 .. CallTime : t <= q.left /\ x \in failures(q, t)
      BY <1>10, <2>1, Fails
    <3>2. t \in Nat /\ q.phase # "done"
      BY <1>10, <2>1, Constants, Fails
    <3> HIDE DEF q, x
    <3>3. \/ Refused(x)
          \/ Same(q, x) /\ (Retried(q, x, q.left - t - Backoff) \/ Degraded(x, q.left - t))
      BY <1>0, <3>1, <3>2, Failures
    <3> QED BY <1>2, <1>3, <1>4, <3>2, <3>3, Zenon DEF Refused, Retried, Degraded
  <2>2. CASE c # d
    BY <1>1, <1>10, <2>2, Fails
  <2> QED BY <2>1, <2>2
<1>11. ASSUME NEW c \in Clients, Score(c) PROVE True(x, DeviceOf(d)', devices')
  <2>1. PICK status \in {200, 422, 502, 503, 504} : g' = [g EXCEPT ![c] = answered(g[c], status)]
    BY <1>11 DEF Score
  <2>2. g[c] \in Requests /\ status \in Nat
    BY DEF TypeInv
  <2>3. answered(g[c], status).phase = "done" /\ UNCHANGED posts
    BY <1>11, <2>2, Answered DEF Score
  <2> QED BY <1>1, <1>2, <2>1, <2>3 DEF TypeInv
<1>12. ASSUME NEW c \in Clients, Malformed(c) PROVE True(x, DeviceOf(d)', devices')
  <2>1. CASE c = d
    <3>1. q.phase = "sent" /\ (Refused(x) \/ (Same(q, x) /\ Degraded(x, q.left)))
      BY <1>12, <2>1, Malforms
    <3>2. q.phase # "done"
      BY <3>1
    <3> HIDE DEF q, x
    <3> QED BY <1>2, <1>4, <3>1, <3>2, Zenon DEF Refused, Degraded
  <2>2. CASE c # d
    BY <1>1, <1>12, <2>2, Malforms
  <2> QED BY <2>1, <2>2
<1>13. ASSUME UNCHANGED <<g, posts>> PROVE True(x, DeviceOf(d)', devices')
  BY <1>1, <1>13
<1> QED
  BY <1>6, <1>7, <1>8, <1>9, <1>10, <1>11, <1>12, <1>13 DEF Next, ServeLate, vars

\* Answers, in the end: every one on its way is true of the registry.
LEMMA AnswersTrue == Spec => [](TypeInv /\ AnswerInv)
<1>1. Init => AnswerInv
  BY DEF Init, AnswerInv, NoRequest
<1> QED BY <1>1, InitTypes, NextTypes, NextAnswer, PTL DEF Spec

-----------------------------------------------------------------------------
(* Refinement.                                                             *)

\* A request as the registry sees it, with the device that it would create.
Seen(q, device) ==
    IF q.phase = "done"
    THEN [busy |-> FALSE, status |-> q.result, full |-> ~q.degraded]
    ELSE [busy |-> TRUE, kind |-> asks(q), id |-> subject(q.raw), there |-> q.registered,
          device |-> IF q.kind = "create" THEN device ELSE NoDevice]

LEMMA SeenEach ==
    /\ abstractCalls = [c \in Clients |-> Seen(g[c], DeviceOf(c))]
    /\ abstractCalls' = [c \in Clients |-> Seen(g'[c], DeviceOf(c)')]
BY DEF abstractCalls, Seen, DeviceOf

LEMMA SeenBusy ==
    ASSUME NEW q, NEW device, q.phase # "done"
    PROVE  /\ Seen(q, device).busy = TRUE
           /\ Seen(q, device).kind = asks(q)
           /\ Seen(q, device).id = subject(q.raw)
           /\ Seen(q, device).there = q.registered
           /\ q.kind = "create" => Seen(q, device).device = device
BY DEF Seen

LEMMA SeenDone ==
    ASSUME NEW q, NEW device, q.phase = "done"
    PROVE  /\ Seen(q, device).busy = FALSE
           /\ Seen(q, device).status = q.result
           /\ Seen(q, device).full = ~q.degraded
BY DEF Seen

\* Attempts and retries are not seen.
LEMMA SeenSame ==
    ASSUME NEW q, NEW x, NEW device, q.phase # "done", x.phase # "done", Same(q, x)
    PROVE  Seen(x, device) = Seen(q, device)
BY SameAsks DEF Seen, Same

LEMMA NothingSeen ==
    ASSUME \A d \in Clients : Seen(g'[d], DeviceOf(d)') = Seen(g[d], DeviceOf(d))
    PROVE  abstractCalls' = abstractCalls
BY SeenEach

LEMMA OthersSeen ==
    ASSUME NEW c \in Clients, UNCHANGED devices,
           \A d \in Clients \ {c} : g'[d] = g[d] /\ posts'[d] = posts[d]
    PROVE  Reg!OnlyCall(c)
<1> SUFFICES ASSUME NEW d \in Clients \ {c} PROVE abstractCalls'[d] = abstractCalls[d]
  BY DEF Reg!OnlyCall
<1>1. DeviceOf(d)' = DeviceOf(d)
  BY DeviceKept
<1> QED BY <1>1, SeenEach

\* A client that asks is a Begin of the registry.
LEMMA AcceptBegins ==
    ASSUME TypeInv, NEW c \in Clients, NEW kind \in {"create", "get", "list", "score"},
           NEW raw \in Strings, NEW site \in Sites \cup {NoSite}, Accept(c, kind, raw, site),
           \A d \in Clients \ {c} : posts'[d] = posts[d]
    PROVE  Reg!Begin(c, abstractCalls[c], abstractCalls'[c])
<1> DEFINE q == Seen(g[c], DeviceOf(c))
           r == Seen(g'[c], DeviceOf(c)')
<1>1. abstractCalls[c] = q /\ abstractCalls'[c] = r
  BY SeenEach
<1>2. Reg!OnlyCall(c) /\ abstractOrphans' = abstractOrphans
  BY Accepts, OthersSeen DEF abstractOrphans
<1>3. q.busy = FALSE
  <2>1. g[c].phase = "done"
    BY Accepts
  <2> QED BY <2>1, SeenDone
<1>4. g'[c].phase # "done" /\ g'[c].kind = kind /\ g'[c].raw = raw
  BY Accepts
<1>5. r.busy = TRUE /\ r.kind = asks(g'[c]) /\ r.id = subject(raw) /\ r.there = g'[c].registered
  BY <1>4, SeenBusy
<1>6. g'[c].registered = (kind \in {"get", "score"} /\ subject(raw) \in DOMAIN devices)
  BY Accepts
<1> HIDE DEF q, r
<1>7. r.there = (r.kind \in {"get", "score"} /\ r.id \in DOMAIN devices)
  <2>1. CASE raw # Dots
    <3>1. r.kind = kind
      BY <1>4, <1>5, <2>1, Asks
    <3> QED BY <1>5, <1>6, <3>1, Zenon
  <2>2. CASE raw = Dots
    <3>1. r.kind = "list" /\ "list" \notin {"get", "score"}
      BY <1>4, <1>5, <2>2, Asks
    <3>2. subject(raw) \notin DOMAIN devices
      BY <2>2, Subject DEF TypeInv
    <3> QED BY <1>5, <1>6, <3>1, <3>2, Zenon
  <2> QED BY <2>1, <2>2
<1> QED BY <1>1, <1>2, <1>3, <1>5, <1>7, Zenon DEF Reg!Begin

\* A request that ends with x is an Answer, if x tells the truth.
LEMMA DoneAnswers ==
    ASSUME TypeInv, NEW c \in Clients, g[c].phase # "done", g'[c].phase = "done",
           \A d \in Clients \ {c} : g'[d] = g[d],
           UNCHANGED <<devices, posts>>,
           LET q  == g[c]
               id == subject(q.raw)
               x  == g'[c]
           IN  /\ q.kind = "create" /\ x.result = 201 =>
                    id \in DOMAIN devices /\ devices[id] = DeviceOf(c)
               /\ q.kind = "create" /\ x.result = 409 => id \in DOMAIN devices
               /\ asks(q) \in {"get", "score"} /\ x.result = 404 => ~q.registered
               /\ asks(q) \in {"get", "score"} /\ x.result = 200 /\ ~x.degraded => id \in DOMAIN devices,
           \/ abstractOrphans' = abstractOrphans
           \/ /\ g[c].kind = "create"
              /\ abstractOrphans' =
                   abstractOrphans \cup {[id |-> meant(g[c].raw), device |-> DeviceOf(c)]}
    PROVE  Reg!Answer(c, abstractCalls[c], abstractCalls'[c])
<1> DEFINE q == Seen(g[c], DeviceOf(c))
           r == Seen(g'[c], DeviceOf(c)')
<1>1. abstractCalls[c] = q /\ abstractCalls'[c] = r
  BY SeenEach
<1>2. Reg!OnlyCall(c)
  BY OthersSeen DEF TypeInv
<1>3. /\ q.busy = TRUE /\ q.kind = asks(g[c]) /\ q.id = subject(g[c].raw) /\ q.there = g[c].registered
      /\ g[c].kind = "create" => q.device = DeviceOf(c)
  BY SeenBusy, ZenonT(60)
<1>4. r.busy = FALSE /\ r.status = g'[c].result /\ r.full = ~g'[c].degraded
  BY SeenDone
<1>0. /\ q.kind = "create" => g[c].kind = "create"
      /\ g[c].kind = "create" => q.kind = "create" /\ q.id = meant(g[c].raw)
  <2>1. q.kind = "create" => g[c].kind = "create"
    BY <1>3, Asks
  <2>2. g[c].kind = "create" => asks(g[c]) = "create" /\ subject(g[c].raw) = meant(g[c].raw)
    BY CreateAsks
  <2> HIDE DEF q
  <2> QED BY <1>3, <2>1, <2>2
<1> HIDE DEF q, r
<1>5. Reg!Truthful(q, r)
  <2>1. q.kind = "create" /\ r.status = 201 => q.id \in DOMAIN devices /\ devices[q.id] = q.device
    BY <1>0, <1>3, <1>4
  <2>2. q.kind = "create" /\ r.status = 409 => q.id \in DOMAIN devices
    BY <1>0, <1>3, <1>4
  <2>3. q.kind \in {"get", "score"} /\ r.status = 404 => ~q.there
    BY <1>3, <1>4, ZenonT(60)
  <2>4. q.kind \in {"get", "score"} /\ r.status = 200 /\ r.full => q.id \in DOMAIN devices
    BY <1>3, <1>4, Zenon
  <2> QED BY <2>1, <2>2, <2>3, <2>4, Zenon DEF Reg!Truthful
<1>6. abstractOrphans' = abstractOrphans
      \/ (Reg!Creating(q) /\ abstractOrphans' = abstractOrphans \cup {Reg!Creation(q)})
  BY <1>0, <1>3, Zenon DEF Reg!Creating, Reg!Creation
<1> QED BY <1>1, <1>2, <1>3, <1>4, <1>5, <1>6, Zenon DEF Reg!Answer

\* An attempt that ends, and not the request, is not seen.
LEMMA RetryUnseen ==
    ASSUME TypeInv, NEW c \in Clients, g[c].phase # "done", g'[c].phase # "done",
           Same(g[c], g'[c]), \A d \in Clients \ {c} : g'[d] = g[d], UNCHANGED posts
    PROVE  abstractCalls' = abstractCalls
<1> SUFFICES ASSUME NEW d \in Clients PROVE Seen(g'[d], DeviceOf(d)') = Seen(g[d], DeviceOf(d))
  BY NothingSeen
<1>1. g'[d].site = g[d].site
  BY DEF Same
<1>2. DeviceOf(d)' = DeviceOf(d)
  BY <1>1, DeviceKept
<1>3. CASE d = c
  BY <1>2, <1>3, SeenSame
<1>4. CASE d # c
  BY <1>2, <1>4
<1> QED BY <1>3, <1>4

\* A creation that arrives late is one orphan fewer, unless the same one is
\* still on its way with another spelling.
LEMMA OrphanGone ==
    ASSUME NEW m \in late, late' = late \ {m}
    PROVE  LET o == [id |-> meant(m.raw), device |-> m.device]
           IN  o \in abstractOrphans /\ abstractOrphans' \in {abstractOrphans, abstractOrphans \ {o}}
<1> DEFINE abs(n) == [id |-> meant(n.raw), device |-> n.device]
<1>1. abstractOrphans = {abs(n) : n \in late} /\ abstractOrphans' = {abs(n) : n \in late \ {m}}
  BY DEF abstractOrphans
<1> HIDE DEF abs
<1>2. abs(m) \in abstractOrphans
  BY <1>1
<1>3. CASE abs(m) \in abstractOrphans'
  <2>1. abstractOrphans' = abstractOrphans
    BY <1>1, <1>3
  <2> QED BY <1>2, <2>1 DEF abs
<1>4. CASE abs(m) \notin abstractOrphans'
  <2>1. abstractOrphans' = abstractOrphans \ {abs(m)}
    BY <1>1, <1>4
  <2> QED BY <1>2, <2>1 DEF abs
<1> QED BY <1>3, <1>4

\* The registry's step for an insertion by client c.
LEMMA InsertRegisters ==
    ASSUME TypeInv, NEW c \in Clients, g[c].phase # "done", g[c].kind = "create",
           Inserted(subject(g[c].raw), DeviceOf(c)),
           abstractCalls' = abstractCalls, abstractOrphans' = abstractOrphans
    PROVE  Reg!Next
<1> DEFINE q == abstractCalls[c]
<1>0. asks(g[c]) = "create"
  BY CreateAsks
<1>1. q.busy = TRUE /\ q.kind = "create" /\ q.id = subject(g[c].raw) /\ q.device = DeviceOf(c)
  BY <1>0, SeenEach, SeenBusy, ZenonT(60)
<1>2. Inserted(q.id, q.device)
  BY <1>1
<1> HIDE DEF q
<1>3. Reg!Register(Reg!Creation(q))
  BY <1>2 DEF Reg!Register, Reg!Creation, Inserted
<1>4. Reg!Creating(q)
  BY <1>1, Zenon DEF Reg!Creating
<1> QED BY <1>3, <1>4, Zenon DEF Reg!Next, q

LEMMA ReceiveRefines ==
    ASSUME TypeInv, AnswerInv, NEW c \in Clients, Receive(c)
    PROVE  [Reg!Next]_(Reg!vars)
<1> DEFINE q == g[c]
           x == g'[c]
           id == subject(q.raw)
<1>1. /\ q.phase = "replied" /\ UNCHANGED <<devices, posts, late>>
      /\ \A d \in Clients \ {c} : g'[d] = g[d]
  BY Receives
<1>2. PICK t \in 0 .. CallTime : t < q.left /\ x = received(q, t)
  BY Receives
<1>3. abstractOrphans' = abstractOrphans
  BY <1>1 DEF abstractOrphans
<1>4. q \in Requests /\ t \in Nat /\ True(q, DeviceOf(c), devices)
  BY TrueEach, Constants DEF TypeInv
<1>5. \/ Refused(x)
      \/ Same(q, x) /\ x.phase # "done"
      \/ x.phase = "done" /\ q.kind # "score" /\ x.result = q.reply
      \/ x.phase = "done" /\ q.kind = "score" /\ x.result = 404 /\ q.reply = 404
  <2>1. \/ Refused(x)
        \/ Same(q, x) /\ (Retried(q, x, q.left - t - Backoff) \/ Degraded(x, q.left - t))
        \/ x.phase = "done" /\ q.kind # "score" /\ x.result = q.reply
        \/ x.phase = "done" /\ q.kind = "score" /\ x.result = 404 /\ q.reply = 404
        \/ x.phase = "score" /\ Same(q, x)
    BY <1>2, <1>4, Received
  <2>2. (\E left : Retried(q, x, left)) \/ (\E left : Degraded(x, left)) => x.phase # "done"
    BY DEF Retried, Degraded
  <2>3. x.phase = "score" => x.phase # "done"
    OBVIOUS
  <2> HIDE DEF q, x
  <2> QED BY <2>1, <2>2, <2>3, Zenon
<1>6. CASE Same(q, x) /\ x.phase # "done"
  <2>1. abstractCalls' = abstractCalls
    BY <1>1, <1>6, RetryUnseen
  <2> QED BY <1>1, <1>3, <2>1 DEF Reg!vars
<1>7. CASE Refused(x) \/ (x.phase = "done" /\ q.kind # "score" /\ x.result = q.reply)
           \/ (x.phase = "done" /\ q.kind = "score" /\ x.result = 404 /\ q.reply = 404)
  <2>1. x.phase = "done" /\ (x.result \in {503, 504} \/ x.result = q.reply)
        /\ (q.kind = "score" => x.result # 200)
    BY <1>7 DEF Refused
  <2>2. x.result \in {200, 201, 404, 409} => x.result = q.reply
    BY <2>1
  <2>3. q.kind = "create" /\ x.result = 201 => id \in DOMAIN devices /\ devices[id] = DeviceOf(c)
    BY <1>1, <1>4, <2>2 DEF True
  <2>4. q.kind = "create" /\ x.result = 409 => id \in DOMAIN devices
    BY <1>1, <1>4, <2>2 DEF True
  <2>5. q.phase # "done" /\ 200 \in {200, 201, 404, 409} /\ 404 \in {200, 201, 404, 409}
    BY <1>1
  <2> HIDE DEF q, x
  <2>6. asks(q) \in {"get", "score"} /\ x.result = 404 => ~q.registered
    BY <1>1, <1>4, <2>2, <2>5, ZenonT(60) DEF True
  <2>7. asks(q) \in {"get", "score"} /\ x.result = 200 => id \in DOMAIN devices
    <3>1. x.result = 200 => q.reply = 200
      BY <2>2
    <3>2. asks(q) \in {"get", "score"} /\ q.reply = 200 => id \in DOMAIN devices
      BY <1>1, <1>4, <2>5, ZenonT(60) DEF True
    <3> QED BY <3>1, <3>2
  <2>8. Reg!Answer(c, abstractCalls[c], abstractCalls'[c])
    <3>1. UNCHANGED <<devices, posts>>
      BY <1>1
    <3>2. g[c].phase # "done" /\ g'[c].phase = "done" /\ \A d \in Clients \ {c} : g'[d] = g[d]
      BY <1>1, <2>1 DEF q, x
    <3>3. /\ q.kind = "create" /\ x.result = 201 => id \in DOMAIN devices /\ devices[id] = DeviceOf(c)
          /\ q.kind = "create" /\ x.result = 409 => id \in DOMAIN devices
          /\ asks(q) \in {"get", "score"} /\ x.result = 404 => ~q.registered
          /\ asks(q) \in {"get", "score"} /\ x.result = 200 /\ ~x.degraded => id \in DOMAIN devices
      BY <2>3, <2>4, <2>6, <2>7, Zenon
    <3> QED BY <1>3, <3>1, <3>2, <3>3, DoneAnswers, Zenon DEF q, x, id
  <2> QED BY <2>8, Zenon DEF Reg!Next
<1> QED BY <1>5, <1>6, <1>7

LEMMA FailRefines ==
    ASSUME TypeInv, AnswerInv, NEW c \in Clients, Fail(c)
    PROVE  [Reg!Next]_(Reg!vars)
<1> DEFINE q == g[c]
           x == g'[c]
           o == [id |-> meant(q.raw), device |-> DeviceOf(c)]
<1>1. /\ q.phase \in {"sent", "replied"} /\ UNCHANGED <<devices, posts>>
      /\ \A d \in Clients \ {c} : g'[d] = g[d]
  BY Fails
<1>2. abstractOrphans' = abstractOrphans
      \/ (q.kind = "create" /\ abstractOrphans' = abstractOrphans \cup {o})
  <2>1. CASE late' = late
    BY <2>1 DEF abstractOrphans
  <2>2. CASE q.kind = "create" /\ late' = late \cup {[raw |-> q.raw, device |-> DeviceOf(c)]}
    BY <2>2 DEF abstractOrphans
  <2> QED BY <2>1, <2>2, Fails
<1>3. PICK t \in 0 .. CallTime : t <= q.left /\ x \in failures(q, t)
  BY Fails
<1>4. q \in Requests /\ t \in Nat
  BY Constants DEF TypeInv
<1>5. Refused(x) \/ (Same(q, x) /\ x.phase # "done")
  <2>1. \/ Refused(x)
        \/ Same(q, x) /\ (Retried(q, x, q.left - t - Backoff) \/ Degraded(x, q.left - t))
    BY <1>3, <1>4, Failures
  <2>2. (\E left : Retried(q, x, left)) \/ (\E left : Degraded(x, left)) => x.phase # "done"
    BY DEF Retried, Degraded
  <2> HIDE DEF q, x
  <2> QED BY <2>1, <2>2, Zenon
<1>6. CASE Refused(x)
  <2>1. g[c].phase # "done" /\ g'[c].phase = "done" /\ x.result \notin {200, 201, 404, 409}
    BY <1>1, <1>6 DEF Refused
  <2>2. Reg!Answer(c, abstractCalls[c], abstractCalls'[c])
    BY <1>1, <1>2, <2>1, DoneAnswers
  <2> QED BY <2>2, Zenon DEF Reg!Next
<1>7. CASE Same(q, x) /\ x.phase # "done"
  <2>1. abstractCalls' = abstractCalls
    BY <1>1, <1>7, RetryUnseen
  <2>2. CASE abstractOrphans' = abstractOrphans
    BY <1>1, <2>1, <2>2 DEF Reg!vars
  <2>3. CASE q.kind = "create" /\ abstractOrphans' = abstractOrphans \cup {o}
    <3> DEFINE r == abstractCalls[c]
    <3>1. r.busy = TRUE /\ r.kind = "create" /\ r.id = o.id /\ r.device = o.device
      <4>1. r = Seen(q, DeviceOf(c))
        BY SeenEach
      <4>2. q.phase # "done" /\ q.kind = "create"
        BY <1>1, <2>3
      <4>3. asks(q) = "create" /\ subject(q.raw) = meant(q.raw)
        BY <4>2, CreateAsks
      <4> HIDE DEF q, r
      <4> QED BY <4>1, <4>2, <4>3, SeenBusy
    <3> HIDE DEF r
    <3>2. Reg!Creation(r) = o
      BY <3>1 DEF Reg!Creation
    <3>3. Reg!Creating(r)
      BY <3>1, Zenon DEF Reg!Creating
    <3>4. Reg!Leave(r)
      BY <1>1, <2>1, <2>3, <3>2, <3>3 DEF Reg!Leave
    <3> QED BY <3>4, Zenon DEF Reg!Next, r
  <2> QED BY <1>2, <2>2, <2>3
<1> QED BY <1>5, <1>6, <1>7

LEMMA ScoreRefines ==
    ASSUME TypeInv, AnswerInv, NEW c \in Clients, Score(c)
    PROVE  Reg!Next
<1> DEFINE q == g[c]
           id == subject(q.raw)
<1>1. PICK status \in {200, 422, 502, 503, 504} : g' = [g EXCEPT ![c] = answered(g[c], status)]
  BY DEF Score
<1>2. q \in Requests /\ status \in Nat /\ True(q, DeviceOf(c), devices)
  <2>1. q \in Requests
    BY DEF TypeInv
  <2>2. status \in Nat
    OBVIOUS
  <2> QED BY <2>1, <2>2, TrueEach, ZenonT(60)
<1>3. /\ q.phase = "score" /\ UNCHANGED <<devices, posts>> /\ abstractOrphans' = abstractOrphans
      /\ g'[c] = answered(q, status) /\ \A d \in Clients \ {c} : g'[d] = g[d]
  BY <1>1 DEF Score, TypeInv, abstractOrphans
<1>4. /\ g'[c].phase = "done" /\ g'[c].result = status
      /\ status = 200 => g'[c].degraded = q.degraded
  <2> DEFINE a == answered(q, status)
  <2>1. a.phase = "done" /\ a.result = status
    BY <1>2, Answered
  <2>2. status = 200 => a.degraded = q.degraded
    BY <1>2, Answered
  <2>3. g'[c] = a
    BY <1>3
  <2> HIDE DEF a, q
  <2> QED BY <2>1, <2>2, <2>3, ZenonT(60)
<1>5. g'[c].result \notin {201, 404, 409} /\ q.phase # "done"
  BY <1>3, <1>4
<1>6. asks(q) \in {"get", "score"} /\ g'[c].result = 200 /\ ~g'[c].degraded => id \in DOMAIN devices
  BY <1>2, <1>3, <1>4, <1>5, Zenon DEF True
<1>7. Reg!Answer(c, abstractCalls[c], abstractCalls'[c])
  BY <1>3, <1>4, <1>5, <1>6, DoneAnswers
<1> HIDE DEF q, id
<1> QED BY <1>7 DEF Reg!Next

LEMMA RejectRefines ==
    ASSUME TypeInv, NEW c \in Clients, RejectInput(c)
    PROVE  Reg!Next
<1>1. PICK kind \in {"create", "score"} :
        g' = [g EXCEPT ![c] = answered([NoRequest EXCEPT !.kind = kind], 400)]
  BY ZenonT(60) DEF RejectInput
<1>2. [NoRequest EXCEPT !.kind = kind] \in Requests
  BY NoRequestType DEF Requests
<1>3. g'[c].phase = "done" /\ g'[c].result = 400
  <2> DEFINE a == answered([NoRequest EXCEPT !.kind = kind], 400)
  <2>1. a.phase = "done" /\ a.result = 400
    BY <1>2, Answered
  <2>2. g'[c] = a
    BY <1>1 DEF TypeInv
  <2> HIDE DEF a
  <2> QED BY <2>1, <2>2
<1>4. /\ g[c].phase = "done" /\ UNCHANGED <<devices, posts>> /\ abstractOrphans' = abstractOrphans
      /\ \A d \in Clients \ {c} : g'[d] = g[d]
  BY <1>1 DEF RejectInput, TypeInv, abstractOrphans
<1> DEFINE q == Seen(g[c], DeviceOf(c))
           r == Seen(g'[c], DeviceOf(c)')
<1>5. abstractCalls[c] = q /\ abstractCalls'[c] = r
  BY SeenEach
<1>6. q.busy = FALSE
  BY <1>4, SeenDone
<1>7. r.busy = FALSE /\ r.status = g'[c].result
  <2>1. g'[c].phase = "done"
    BY <1>3
  <2> QED BY <2>1, SeenDone
<1>8. Reg!OnlyCall(c)
  BY <1>4, OthersSeen
<1> HIDE DEF q, r
<1>9. Reg!Refuse(c, q, r)
  BY <1>3, <1>4, <1>6, <1>7, <1>8, Zenon DEF Reg!Refuse
<1> QED BY <1>5, <1>9, Zenon DEF Reg!Next

LEMMA ServeRefines ==
    ASSUME TypeInv, NEW c \in Clients, Serve(c)
    PROVE  [Reg!Next]_(Reg!vars)
<1>1. /\ g[c].phase = "sent" /\ g'[c].phase = "replied" /\ Same(g[c], g'[c])
      /\ UNCHANGED <<posts, late>> /\ \A d \in Clients \ {c} : g'[d] = g[d]
      /\ devices' = devices \/ (g[c].kind = "create" /\ Inserted(subject(g[c].raw), DeviceOf(c)))
  BY Serves
<1>2. abstractCalls' = abstractCalls /\ abstractOrphans' = abstractOrphans
  BY <1>1, RetryUnseen DEF abstractOrphans
<1>3. CASE devices' = devices
  BY <1>2, <1>3 DEF Reg!vars
<1>4. CASE g[c].kind = "create" /\ Inserted(subject(g[c].raw), DeviceOf(c))
  BY <1>1, <1>2, <1>4, InsertRegisters
<1> QED BY <1>1, <1>3, <1>4

LEMMA MalformedRefines ==
    ASSUME TypeInv, NEW c \in Clients, Malformed(c)
    PROVE  [Reg!Next]_(Reg!vars)
<1>1. /\ g[c].phase # "done" /\ UNCHANGED <<devices, posts, late>>
      /\ \A d \in Clients \ {c} : g'[d] = g[d]
  BY Malforms
<1>2. abstractOrphans' = abstractOrphans
  BY <1>1 DEF abstractOrphans
<1>3. CASE Refused(g'[c])
  <2>1. g'[c].phase = "done" /\ g'[c].result \notin {200, 201, 404, 409}
    BY <1>3 DEF Refused
  <2>2. Reg!Answer(c, abstractCalls[c], abstractCalls'[c])
    BY <1>1, <1>2, <2>1, DoneAnswers
  <2> QED BY <2>2, Zenon DEF Reg!Next
<1>4. CASE Same(g[c], g'[c]) /\ Degraded(g'[c], g[c].left)
  <2>1. g'[c].phase # "done"
    BY <1>4 DEF Degraded
  <2>2. abstractCalls' = abstractCalls
    BY <1>1, <1>4, <2>1, RetryUnseen
  <2> QED BY <1>1, <1>2, <2>2 DEF Reg!vars
<1> QED BY <1>3, <1>4, Malforms

LEMMA ServeLateRefines ==
    ASSUME TypeInv, NEW m \in late, ServeLate(m)
    PROVE  [Reg!Next]_(Reg!vars)
<1> DEFINE o == [id |-> meant(m.raw), device |-> m.device]
<1>1. devices' = devices \/ Inserted(o.id, o.device)
  BY Creates DEF ServeLate, TypeInv
<1>2. o \in abstractOrphans /\ abstractOrphans' \in {abstractOrphans, abstractOrphans \ {o}}
  BY OrphanGone DEF ServeLate
<1>3. abstractCalls' = abstractCalls
  BY SeenEach DEF ServeLate, DeviceOf
<1> HIDE DEF o
<1>4. CASE devices' = devices /\ abstractOrphans' = abstractOrphans
  BY <1>3, <1>4 DEF Reg!vars
<1>5. CASE devices' = devices /\ abstractOrphans' = abstractOrphans \ {o}
  <2>1. Reg!Drop(o)
    BY <1>3, <1>5 DEF Reg!Drop
  <2> QED BY <1>2, <2>1, Zenon DEF Reg!Next
<1>6. CASE Inserted(o.id, o.device)
  <2>1. Reg!Register(o)
    BY <1>2, <1>3, <1>6 DEF Reg!Register, Inserted
  <2> QED BY <1>2, <2>1, Zenon DEF Reg!Next
<1> QED BY <1>1, <1>2, <1>4, <1>5, <1>6

LEMMA InitRefines == Init => Reg!Init
<1> SUFFICES ASSUME Init PROVE Reg!Init
  OBVIOUS
<1>1. DOMAIN devices \subseteq Ids /\ abstractOrphans = {}
  BY InitTypes DEF Init, TypeInv, abstractOrphans
<1>2. ASSUME NEW c \in Clients PROVE ~abstractCalls[c].busy
  <2>1. g[c].phase = "done"
    BY DEF Init, NoRequest
  <2>2. Seen(g[c], DeviceOf(c)).busy = FALSE
    BY <2>1, SeenDone
  <2>3. abstractCalls[c] = Seen(g[c], DeviceOf(c))
    BY SeenEach
  <2> QED BY <2>2, <2>3, Zenon
<1>3. DOMAIN abstractCalls = Clients
  BY SeenEach
<1> QED BY <1>1, <1>2, <1>3, Zenon DEF Reg!Init

LEMMA NextRefines == TypeInv /\ AnswerInv /\ [Next]_vars => [Reg!Next]_(Reg!vars)
<1> SUFFICES ASSUME TypeInv, AnswerInv, [Next]_vars PROVE [Reg!Next]_(Reg!vars)
  OBVIOUS
<1>1. ASSUME NEW c \in Clients,
             CreateDevice(c) \/ Lookup(c) \/ ListDevices(c) \/ NextPage(c)
      PROVE  Reg!Next
  <2>1. walk[c].site \in Sites \cup {NoSite}
    BY DEF TypeInv, Walks
  <2>2. \A d \in Clients \ {c} : posts'[d] = posts[d]
    BY <1>1 DEF CreateDevice, Lookup, ListDevices, NextPage, TypeInv
  <2>3. PICK kind \in {"create", "get", "list", "score"}, raw \in Strings, site \in Sites \cup {NoSite} :
          Accept(c, kind, raw, site)
    <3>1. CASE CreateDevice(c)
      BY <3>1, Kinds
    <3>2. CASE Lookup(c)
      <4>1. PICK kind \in {"get", "score"}, raw \in Strings : Accept(c, kind, raw, NoSite)
        BY <3>2, Kinds
      <4> QED BY <4>1
    <3>3. CASE ListDevices(c)
      BY <3>3, Kinds, Lists
    <3>4. CASE NextPage(c)
      BY <2>1, <3>4, Kinds DEF NextPage
    <3> QED BY <1>1, <3>1, <3>2, <3>3, <3>4
  <2>4. Reg!Begin(c, abstractCalls[c], abstractCalls'[c])
    BY <2>2, <2>3, AcceptBegins
  <2> QED BY <2>4 DEF Reg!Next
<1>2. ASSUME UNCHANGED vars PROVE UNCHANGED Reg!vars
  <2>1. abstractCalls' = abstractCalls /\ abstractOrphans' = abstractOrphans
    BY <1>2, SeenEach DEF vars, DeviceOf, abstractOrphans
  <2> QED BY <1>2, <2>1 DEF vars, Reg!vars
<1> QED
  BY <1>1, <1>2, RejectRefines, ServeRefines, MalformedRefines, ReceiveRefines, FailRefines,
     ScoreRefines, ServeLateRefines DEF Next

\* Lost and late answers, retries, spellings and the choice of a repository
\* cannot be seen: the handlers of gateway and catalog implement a registry in
\* which ids are registered once and answers are true, for any number of
\* clients, ids and attempts.
THEOREM GatewayImplementsRegistry == Spec => ImplementsRegistry
<1>1. Init => Reg!Init
  BY InitRefines
<1>2. TypeInv /\ AnswerInv /\ [Next]_vars => [Reg!Next]_(Reg!vars)
  BY NextRefines
<1> QED BY <1>1, <1>2, AnswersTrue, PTL DEF Spec, ImplementsRegistry, Reg!Spec

-----------------------------------------------------------------------------
(* Listings.                                                               *)

\* Of the devices S, those that a walk asks for, in a table.
Asked(w, S, table) == {i \in S : w.site = NoSite \/ table[i].site = w.site}

\* WalkExact and WalkInv, of one client: what its walk has listed, and
Progress(w, table) ==
    /\ w.count = Cardinality(w.seen)
    /\ w.seen \subseteq Asked(w, DOMAIN table, table)
    /\ w.state = "done" => Asked(w, w.known, table) \subseteq w.seen
    /\ w.known \subseteq DOMAIN table
    /\ w.state = "on" =>
         /\ \A i \in w.seen : i <= w.cursor
         /\ \A i \in Asked(w, w.known, table) : i <= w.cursor => i \in w.seen

\* the page on its way.
Follows(w, q, table) ==
    /\ q.page \subseteq Asked(w, DOMAIN table, table)
    /\ \A i \in q.page : w.cursor < i /\ (q.next # NoId => i <= q.next)
    /\ q.next # NoId => w.cursor < q.next
    /\ \A i \in Asked(w, w.known, table) :
         w.cursor < i /\ (q.next = NoId \/ i <= q.next) => i \in q.page

Pending(w, q, table) ==
    /\ q.kind = "list" /\ q.phase # "done" => w.state = "on" /\ q.site = w.site
    /\ q.kind = "list" /\ q.phase = "replied" /\ q.reply = 200 => Follows(w, q, table)

LEMMA WalkEach ==
    /\ WalkExact /\ WalkInv <=>
         \A c \in Clients : Progress(walk[c], devices) /\ Pending(walk[c], g[c], devices)
    /\ WalkExact' /\ WalkInv' <=>
         \A c \in Clients : Progress(walk'[c], devices') /\ Pending(walk'[c], g'[c], devices')
<1>1. WalkExact /\ WalkInv <=>
        \A c \in Clients : Progress(walk[c], devices) /\ Pending(walk[c], g[c], devices)
  BY Zenon DEF WalkExact, WalkInv, ofSite, Asked, Progress, Follows, Pending
<1>2. WalkExact' /\ WalkInv' <=>
        \A c \in Clients : Progress(walk'[c], devices') /\ Pending(walk'[c], g'[c], devices')
  BY Zenon DEF WalkExact, WalkInv, ofSite, Asked, Progress, Follows, Pending
<1> QED BY <1>1, <1>2

\* Devices that are inserted do not disturb a walk.
LEMMA WalkGrows ==
    ASSUME Grown, NEW w, NEW q, Progress(w, devices)
    PROVE  /\ Progress(w, devices')
           /\ Pending(w, q, devices) => Pending(w, q, devices')
<1>1. /\ Asked(w, DOMAIN devices, devices) \subseteq Asked(w, DOMAIN devices', devices')
      /\ Asked(w, w.known, devices') = Asked(w, w.known, devices)
      /\ w.known \subseteq DOMAIN devices'
  BY DEF Grown, Asked, Progress
<1>2. Progress(w, devices')
  BY <1>1 DEF Progress
<1>3. Follows(w, q, devices) => Follows(w, q, devices')
  BY <1>1 DEF Follows
<1> QED BY <1>2, <1>3 DEF Pending

\* A request that is no listing, or over, or not answered yet, has no page.
LEMMA NoPage ==
    ASSUME NEW w, NEW x, NEW table,
           x.kind # "list" \/ x.phase = "done"
             \/ (x.phase # "replied" /\ w.state = "on" /\ x.site = w.site)
    PROVE  Pending(w, x, table)
BY DEF Pending

LEMMA NoProgress ==
    ASSUME NEW table
    PROVE  Progress(NoWalk, table)
<1>1. Cardinality({}) = 0
  BY FS_EmptySet
<1> QED BY <1>1 DEF Progress, NoWalk, Asked

LEMMA FirstProgress ==
    ASSUME TypeInv, NEW site \in Sites \cup {NoSite}, NEW limit \in Int
    PROVE  Progress(Begun(site, limit, DOMAIN devices), devices)
<1> DEFINE w == Begun(site, limit, DOMAIN devices)
<1>1. /\ w.state = "on" /\ w.known = DOMAIN devices /\ w.seen = {} /\ w.count = 0
      /\ w.cursor = NoId
  <2>1. DOMAIN devices \in SUBSET Ids
    BY DEF TypeInv
  <2> QED BY <2>1, WalkBegins
<1>2. Cardinality({}) = 0
  BY FS_EmptySet
<1>3. \A i \in DOMAIN devices : ~(i <= NoId)
  BY Constants DEF TypeInv
<1> HIDE DEF w
<1>4. Asked(w, w.known, devices) \subseteq DOMAIN devices /\ w.state # "done"
  BY <1>1 DEF Asked
<1>5. Progress(w, devices)
  BY <1>1, <1>2, <1>3, <1>4 DEF Progress
<1> QED BY <1>5 DEF w

\* A page received: it is all new, and nothing before its end is left out.
LEMMA PageProgress ==
    ASSUME TypeInv, NEW w \in Walks, NEW q \in Requests,
           Progress(w, devices), Follows(w, q, devices), w.state = "on"
    PROVE  Progress(turnPage(w, q), devices)
<1> DEFINE x == turnPage(w, q)
<1>1. /\ x.seen = w.seen \cup q.page /\ x.cursor = q.next /\ x.known = w.known /\ x.site = w.site
      /\ x.count = w.count + Cardinality(q.page)
      /\ x.state = IF q.next # NoId THEN "on" ELSE "done"
  BY TurnPage
<1> HIDE DEF x
<1>2. /\ w.seen \subseteq Ids /\ q.page \subseteq Ids /\ w.cursor \in Nat /\ q.next \in Nat
      /\ Ids \subseteq Nat /\ w.known \subseteq Ids
  <2>1. w.seen \subseteq Ids /\ w.cursor \in Ids \cup {NoId} /\ w.known \subseteq Ids
    BY DEF Walks
  <2>2. q.page \subseteq Ids /\ q.next \in Ids \cup {NoId}
    BY DEF Requests
  <2>3. Ids \subseteq Nat /\ NoId \in Nat
    BY Constants
  <2> QED BY <2>1, <2>2, <2>3
<1>3. x.count = Cardinality(x.seen)
  <2>1. w.seen \cap q.page = {}
    <3> SUFFICES ASSUME NEW i \in w.seen, i \in q.page PROVE FALSE
      OBVIOUS
    <3>1. i <= w.cursor /\ w.cursor < i
      BY DEF Progress, Follows
    <3>2. i \in Nat /\ w.cursor \in Nat
      BY <1>2
    <3> QED BY <3>1, <3>2
  <2>2. IsFiniteSet(w.seen) /\ IsFiniteSet(q.page)
    BY <1>2, Constants, FS_Subset
  <2>3. Cardinality(w.seen \cup q.page)
          = Cardinality(w.seen) + Cardinality(q.page) - Cardinality(w.seen \cap q.page)
    BY <2>2, FS_Union
  <2>4. Cardinality({}) = 0 /\ Cardinality(w.seen) \in Nat /\ Cardinality(q.page) \in Nat
    BY <2>2, FS_EmptySet, FS_CardinalityType
  <2>5. w.count = Cardinality(w.seen)
    BY DEF Progress
  <2> QED BY <1>1, <2>1, <2>3, <2>4, <2>5
<1>4. Asked(x, DOMAIN devices, devices) = Asked(w, DOMAIN devices, devices)
      /\ Asked(x, x.known, devices) = Asked(w, w.known, devices)
  BY <1>1 DEF Asked
<1>5. x.seen \subseteq Asked(x, DOMAIN devices, devices) /\ x.known \subseteq DOMAIN devices
  BY <1>1, <1>4 DEF Progress, Follows
<1>6. ASSUME NEW i \in Asked(w, w.known, devices), q.next = NoId \/ i <= q.next
      PROVE  i \in w.seen \cup q.page
  <2>1. i \in Nat
    BY <1>2, <1>6 DEF Asked
  <2>2. i <= w.cursor \/ w.cursor < i
    BY <1>2, <2>1
  <2> QED BY <1>6, <2>2 DEF Progress, Follows
<1>7. x.state = "done" => Asked(x, x.known, devices) \subseteq x.seen
  BY <1>1, <1>4, <1>6
<1>8. x.state = "on" => \A i \in Asked(x, x.known, devices) : i <= x.cursor => i \in x.seen
  BY <1>1, <1>4, <1>6
<1>9. x.state = "on" => \A i \in x.seen : i <= x.cursor
  <2> SUFFICES ASSUME x.state = "on", NEW i \in w.seen \cup q.page PROVE i <= q.next
    BY <1>1
  <2>1. q.next # NoId
    BY <1>1
  <2>2. w.cursor < q.next /\ (i \in q.page => i <= q.next) /\ (i \in w.seen => i <= w.cursor)
    BY <2>1 DEF Progress, Follows
  <2>3. i \in Nat
    BY <1>2
  <2> QED BY <1>2, <2>2, <2>3
<1> QED BY <1>3, <1>5, <1>7, <1>8, <1>9 DEF Progress, x

\* The page that the catalog serves comes next.
LEMMA ServedFollows ==
    ASSUME TypeInv, NEW c \in Clients, Progress(walk[c], devices), g[c].site = walk[c].site,
           NEW x, LET a == List(g[c].site, walk[c].cursor, walk[c].limit)
                  IN  x.page = a.ids /\ x.next = a.next
    PROVE  Follows(walk[c], x, devices)
<1> DEFINE w == walk[c]
           M == matching(w.site, w.cursor)
<1>1. /\ w.cursor \in Nat /\ DOMAIN devices \subseteq Nat \ {0} /\ DOMAIN devices \subseteq Ids
      /\ w.limit \in Int
  BY Constants DEF TypeInv, Walks
<1>2. M = {i \in Asked(w, DOMAIN devices, devices) : w.cursor < i}
  BY <1>1, Constants DEF matching, normalise, Asked
<1>3. /\ x.page \subseteq M
      /\ x.next = NoId => x.page = M
      /\ x.next # NoId => /\ x.next \in M
                          /\ \A i \in x.page : i <= x.next
                          /\ \A i \in M : i <= x.next => i \in x.page
  BY <1>1, PageOf
<1>4. Asked(w, w.known, devices) \subseteq Asked(w, DOMAIN devices, devices)
  BY DEF Asked, Progress
<1> HIDE DEF w, M
<1> QED BY <1>2, <1>3, <1>4 DEF Follows, w

\* What a step makes of a request in flight: an answer, or the same request
\* waiting for one.
LEMMA Ends ==
    ASSUME NEW q \in Requests, NEW t \in Nat, NEW x,
           \/ t < q.left /\ x = received(q, t)
           \/ t <= q.left /\ x \in failures(q, t)
    PROVE  \/ x.phase = "done"
           \/ x.phase # "done" /\ x.phase # "replied" /\ x.kind = q.kind /\ x.site = q.site
<1>1. \/ Refused(x)
      \/ Same(q, x) /\ (Retried(q, x, q.left - t - Backoff) \/ Degraded(x, q.left - t))
      \/ x.phase = "done"
      \/ x.phase = "score" /\ Same(q, x)
  <2>1. CASE t < q.left /\ x = received(q, t)
    BY <2>1, Received
  <2>2. CASE t <= q.left /\ x \in failures(q, t)
    BY <2>2, Failures
  <2> QED BY <2>1, <2>2
<1>2. (\E left : Retried(q, x, left)) \/ (\E left : Degraded(x, left)) =>
        x.phase # "done" /\ x.phase # "replied"
  BY DEF Retried, Degraded
<1>3. Refused(x) => x.phase = "done"
  BY DEF Refused
<1>4. Same(q, x) => x.kind = q.kind /\ x.site = q.site
  BY DEF Same
<1>5. x.phase = "score" => x.phase # "done" /\ x.phase # "replied"
  OBVIOUS
<1> QED BY <1>1, <1>2, <1>3, <1>4, <1>5, Zenon

\* A page that arrives ends its request.
LEMMA PageEnds ==
    ASSUME NEW q \in Requests, NEW t \in Nat, t < q.left, q.kind = "list", q.reply = 200
    PROVE  received(q, t).phase = "done"
<1> DEFINE s == [q EXCEPT !.left = @ - t]
<1>1. s \in Requests
  <2>1. q.left - t \in Nat
    BY DEF Requests
  <2> QED BY <2>1 DEF Requests
<1>2. received(q, t) = answered(s, 200)
  BY DEF received
<1>3. 200 \in Nat
  OBVIOUS
<1> HIDE DEF s
<1> QED BY <1>1, <1>2, <1>3, Answered

LEMMA NextWalk == TypeInv /\ WalkExact /\ WalkInv /\ [Next]_vars => WalkExact' /\ WalkInv'
<1> SUFFICES ASSUME TypeInv, WalkExact, WalkInv, [Next]_vars, NEW d \in Clients
             PROVE  Progress(walk'[d], devices') /\ Pending(walk'[d], g'[d], devices')
  BY WalkEach
<1> DEFINE q == g[d]
           w == walk[d]
           x == g'[d]
           v == walk'[d]
           Goal == Progress(v, devices') /\ Pending(v, x, devices')
<1>1. Progress(w, devices) /\ Pending(w, q, devices) /\ Grown /\ q \in Requests /\ w \in Walks
  BY WalkEach, NextGrows DEF TypeInv
<1>2. Progress(w, devices') /\ Pending(w, q, devices')
  BY <1>1, WalkGrows
<1>3. ASSUME x = q, v = w PROVE Goal
  BY <1>2, <1>3
<1>4. ASSUME v = w, x.phase = "done"
             \/ (x.phase # "replied" /\ x.kind = q.kind /\ x.site = q.site /\ q.phase # "done")
      PROVE  Goal
  <2>1. x.kind = "list" /\ x.phase # "done" => w.state = "on" /\ x.site = w.site
    BY <1>1, <1>4 DEF Pending
  <2> HIDE DEF v, x, w, q
  <2>2. Pending(w, x, devices')
    BY <1>4, <2>1, NoPage
  <2> QED BY <1>2, <1>4, <2>2
<1>5. ASSUME v = NoWalk, x.kind # "list" \/ x.phase = "done" PROVE Goal
  BY <1>5, NoProgress, NoPage
<1>6. ASSUME NEW c \in Clients, CreateDevice(c) \/ Lookup(c) PROVE Goal
  <2>1. PICK kind \in {"create", "get", "score"}, raw \in Strings, site \in Sites \cup {NoSite} :
          Accept(c, kind, raw, site)
    BY <1>6, Kinds
  <2>2. walk' = [walk EXCEPT ![c] = NoWalk]
    BY <1>6 DEF CreateDevice, Lookup
  <2>3. g'[c].kind = kind /\ \A e \in Clients \ {c} : g'[e] = g[e]
    BY <2>1, Accepts
  <2> QED BY <1>3, <1>5, <2>2, <2>3 DEF TypeInv
<1>7. ASSUME NEW c \in Clients, RejectInput(c) PROVE Goal
  <2>1. PICK kind \in {"create", "score"} :
          g' = [g EXCEPT ![c] = answered([NoRequest EXCEPT !.kind = kind], 400)]
    BY <1>7, ZenonT(60) DEF RejectInput
  <2>2. [NoRequest EXCEPT !.kind = kind] \in Requests
    BY NoRequestType DEF Requests
  <2>3. answered([NoRequest EXCEPT !.kind = kind], 400).phase = "done"
    BY <2>2, Answered
  <2>4. walk' = [walk EXCEPT ![c] = NoWalk]
    BY <1>7 DEF RejectInput
  <2> QED BY <1>3, <1>5, <2>1, <2>3, <2>4 DEF TypeInv
<1>8. ASSUME NEW c \in Clients, ListDevices(c) PROVE Goal
  <2>1. PICK site \in Sites \cup {NoSite}, limit \in Int :
          /\ Accept(c, "list", NoId, site)
          /\ walk' = [walk EXCEPT ![c] = Begun(site, limit, DOMAIN devices)]
    BY <1>8, Lists
  <2>2. /\ g'[c].site = site /\ g'[c].phase = "sent" /\ UNCHANGED devices
        /\ \A e \in Clients \ {c} : g'[e] = g[e]
    BY <2>1, Accepts, Kinds
  <2>3. CASE c = d
    <3> DEFINE b == Begun(site, limit, DOMAIN devices)
    <3>1. DOMAIN devices \in SUBSET Ids
      BY DEF TypeInv
    <3>2. b.state = "on" /\ b.site = site /\ Progress(b, devices)
      <4>1. b.state = "on" /\ b.site = site
        BY <3>1, WalkBegins
      <4>2. Progress(b, devices)
        BY FirstProgress
      <4> QED BY <4>1, <4>2
    <3>3. v = b /\ x.phase # "replied" /\ x.site = site /\ UNCHANGED devices
      BY <2>1, <2>2, <2>3 DEF TypeInv
    <3> HIDE DEF b, v, x
    <3> QED BY <3>2, <3>3, NoPage
  <2>4. CASE c # d
    BY <1>3, <2>1, <2>2, <2>4 DEF TypeInv
  <2> QED BY <2>3, <2>4
<1>9. ASSUME NEW c \in Clients, NextPage(c) PROVE Goal
  <2>1. walk[c].site \in Sites \cup {NoSite}
    BY DEF TypeInv, Walks
  <2>2. Accept(c, "list", NoId, walk[c].site) /\ walk[c].state = "on" /\ UNCHANGED walk
    BY <1>9 DEF NextPage
  <2>3. /\ g'[c].site = walk[c].site /\ g'[c].phase = "sent"
        /\ \A e \in Clients \ {c} : g'[e] = g[e]
    BY <2>1, <2>2, Accepts, Kinds
  <2>4. CASE c = d
    <3>1. v = w /\ w.state = "on" /\ x.site = w.site /\ x.phase # "replied"
      BY <2>2, <2>3, <2>4
    <3> HIDE DEF v, w, x
    <3> QED BY <1>2, <3>1, NoPage
  <2>5. CASE c # d
    BY <1>3, <2>2, <2>3, <2>5
  <2> QED BY <2>4, <2>5
<1>10. ASSUME NEW c \in Clients, Serve(c) PROVE Goal
  <2>1. CASE c = d
    <3>1. /\ q.phase = "sent" /\ Same(q, x) /\ UNCHANGED walk
          /\ devices' = devices \/ q.kind = "create"
          /\ q.kind = "list" /\ x.reply = 200 =>
               LET a == List(q.site, w.cursor, w.limit) IN x.page = a.ids /\ x.next = a.next
      BY <1>10, <2>1, Serves
    <3>2. v = w /\ x.kind = q.kind /\ x.site = q.site
      BY <3>1 DEF Same
    <3>3. CASE q.kind # "list"
      BY <1>2, <3>2, <3>3, NoPage
    <3>4. CASE q.kind = "list"
      <4>1. devices' = devices /\ w.state = "on" /\ q.site = w.site
        BY <1>1, <3>1, <3>4 DEF Pending
      <4>2. x.reply = 200 => Follows(w, x, devices')
        BY <1>1, <3>1, <3>4, <4>1, ServedFollows
      <4> HIDE DEF v, w, x, q
      <4>3. Pending(w, x, devices')
        BY <3>2, <4>1, <4>2 DEF Pending
      <4> QED BY <1>2, <3>2, <4>3
    <3> QED BY <3>3, <3>4
  <2>2. CASE c # d
    BY <1>3, <1>10, <2>2, Serves
  <2> QED BY <2>1, <2>2
<1>11. ASSUME NEW c \in Clients, Receive(c) PROVE Goal
  <2>1. CASE c = d
    <3>1. PICK t \in 0 .. CallTime : t < q.left /\ x = received(q, t)
      BY <1>11, <2>1, Receives
    <3>2. t \in Nat /\ q.phase = "replied" /\ UNCHANGED devices
      BY <1>11, <2>1, Constants, Receives
    <3>3. CASE q.kind = "list" /\ q.reply = 200
      <4>1. v = turnPage(w, q)
        BY <1>11, <2>1, <3>3 DEF Receive, TypeInv
      <4>2. x.phase = "done"
        BY <1>1, <3>1, <3>2, <3>3, PageEnds
      <4>3. w.state = "on" /\ Follows(w, q, devices)
        BY <1>1, <3>2, <3>3 DEF Pending
      <4> HIDE DEF v, w, x, q
      <4> QED BY <1>1, <3>2, <4>1, <4>2, <4>3, PageProgress, NoPage
    <3>4. CASE ~(q.kind = "list" /\ q.reply = 200)
      <4>1. v = w
        BY <1>11, <2>1, <3>4 DEF Receive
      <4>2. x.phase = "done" \/ (x.phase # "replied" /\ x.kind = q.kind /\ x.site = q.site)
        BY <1>1, <3>1, <3>2, Ends
      <4>3. q.phase # "done"
        BY <3>2
      <4> QED BY <1>4, <4>1, <4>2, <4>3
    <3> QED BY <3>3, <3>4
  <2>2. CASE c # d
    <3>1. v = w
      BY <1>11, <2>2 DEF Receive, TypeInv
    <3> QED BY <1>3, <1>11, <2>2, <3>1, Receives
  <2> QED BY <2>1, <2>2
<1>12. ASSUME NEW c \in Clients, Fail(c) PROVE Goal
  <2>1. CASE c = d
    <3>1. PICK t \in 0 .. CallTime : t <= q.left /\ x \in failures(q, t)
      BY <1>12, <2>1, Fails
    <3>2. t \in Nat /\ q.phase # "done" /\ v = w
      BY <1>12, <2>1, Constants, Fails
    <3>3. x.phase = "done" \/ (x.phase # "replied" /\ x.kind = q.kind /\ x.site = q.site)
      BY <1>1, <3>1, <3>2, Ends
    <3> QED BY <1>4, <3>2, <3>3
  <2>2. CASE c # d
    BY <1>3, <1>12, <2>2, Fails
  <2> QED BY <2>1, <2>2
<1>13. ASSUME NEW c \in Clients, Score(c) PROVE Goal
  <2>1. PICK status \in {200, 422, 502, 503, 504} : g' = [g EXCEPT ![c] = answered(g[c], status)]
    BY <1>13 DEF Score
  <2>2. g[c] \in Requests /\ status \in Nat
    BY DEF TypeInv
  <2>3. answered(g[c], status).phase = "done" /\ v = w
    BY <1>13, <2>2, Answered DEF Score
  <2> QED BY <1>3, <1>4, <2>1, <2>3 DEF TypeInv
<1>14. ASSUME NEW c \in Clients, Malformed(c) PROVE Goal
  <2>1. CASE c = d
    <3>1. q.phase = "sent" /\ v = w /\ (Refused(x) \/ (Same(q, x) /\ Degraded(x, q.left)))
      BY <1>14, <2>1, Malforms
    <3>2. \/ x.phase = "done"
          \/ x.phase # "replied" /\ x.kind = q.kind /\ x.site = q.site
      BY <3>1 DEF Refused, Same, Degraded
    <3>3. q.phase # "done"
      BY <3>1
    <3> QED BY <1>4, <3>1, <3>2, <3>3
  <2>2. CASE c # d
    BY <1>3, <1>14, <2>2, Malforms
  <2> QED BY <2>1, <2>2
<1>15. ASSUME UNCHANGED <<g, walk>> PROVE Goal
  BY <1>3, <1>15
<1> QED
  BY <1>6, <1>7, <1>8, <1>9, <1>10, <1>11, <1>12, <1>13, <1>14, <1>15 DEF Next, ServeLate, vars

\* Keyset pagination is exact: whatever is inserted while a client turns the
\* pages, and however often a page is lost and asked for again, the walk lists
\* no device twice, and all that were there when it began.
THEOREM WalksExact == Spec => []WalkExact
<1>1. Init => WalkExact /\ WalkInv
  <2> SUFFICES ASSUME Init, NEW c \in Clients
               PROVE  Progress(walk[c], devices) /\ Pending(walk[c], g[c], devices)
    BY WalkEach
  <2>1. walk[c] = NoWalk /\ g[c].phase = "done"
    BY DEF Init, NoRequest
  <2> QED BY <2>1, NoProgress, NoPage
<1> QED BY <1>1, InitTypes, NextTypes, NextWalk, PTL DEF Spec
==============================================================================
