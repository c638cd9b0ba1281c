------------------------------ MODULE Admission ------------------------------
(***************************************************************************)
(* How a request is let into the gateway: Authenticate of                  *)
(* internal/gateway/auth.go in front of the limiter of ratelimit.go, in    *)
(* the order cmd/gateway/main.go chains them.  The identity Authenticate   *)
(* finds is the key of the bucket the request draws from, so what the      *)
(* limiter promises to a client depends on how the API_KEYS value was      *)
(* parsed, a pair a step, and on the map it ended up in.                   *)
(*                                                                         *)
(* A key is an element of Secrets; its digest and the constant-time        *)
(* comparison are abstracted to equality.                                  *)
(***************************************************************************)
EXTENDS RateLimiter, Sequences

CONSTANTS
    AnonymousClient,  \* the limiter's key when authentication is off
    Secrets,          \* API keys, configured or not
    KeySpecs,         \* values of API_KEYS: sequences of pairs client, key
    Credentials       \* the two headers a request may carry; a scheme other than
                      \* Bearer counts as a blank header

Blank == "blank"      \* an empty client, key or header, after TrimSpace
Pairs == (Keys \cup {Blank}) \X (Secrets \cup {Blank})

ASSUME AdmissionAssumption ==
    /\ AnonymousClient \in Keys /\ Blank \notin Secrets
    /\ KeySpecs \subseteq Seq(Pairs)
    /\ Credentials \subseteq [bearer : Secrets \cup {Blank}, xApiKey : Secrets \cup {Blank}]

VARIABLES
    spec,      \* API_KEYS of this process
    parsed,    \* how many of its pairs ParseKeySpec has read
    keys,      \* the map ParseKeySpec builds: from a client to its key
    store,     \* APIKeyStore.byDigest: from a key to a client
    serving,   \* the store is built, and the limiter, and the server runs
    presented, \* the key each request inside the limiter came with
    spentBy,   \* history: the units the holders of each key were admitted for
    refused    \* history: the keys answered with 401

config == <<spec, parsed, keys, store, serving>>
avars == <<vars, config, presented, spentBy, refused>>

-----------------------------------------------------------------------------
(* The key store.                                                          *)

\* Seeded fault: the first pair of a client is kept.
Fault_addPairFirst(ks, pair) ==
    IF pair[1] = Blank \/ pair[2] = Blank \/ pair[1] \in DOMAIN ks
    THEN ks
    ELSE [c \in DOMAIN ks \cup {pair[1]} |-> IF c = pair[1] THEN pair[2] ELSE ks[c]]

\* One turn of ParseKeySpec's loop.  A pair without a colon is a pair with a
\* blank part.
addPair(ks, pair) ==
    IF pair[1] = Blank \/ pair[2] = Blank
    THEN ks
    ELSE [c \in DOMAIN ks \cup {pair[1]} |-> IF c = pair[1] THEN pair[2] ELSE ks[c]]

\* NewAPIKeyStore turns the map around.  It ranges over a Go map, in any
\* order, and a key that two clients share goes to the last one it meets.
NewAPIKeyStore(ks) ==
    {s \in [{ks[c] : c \in DOMAIN ks} -> DOMAIN ks] : \A key \in DOMAIN s : ks[s[key]] = key}

\* Authenticate's test for an empty store, which turns authentication off.
authDisabled == DOMAIN store = {}

\* The bearer token, or else the other header.
presentedKey(cred) == IF cred.bearer # Blank THEN cred.bearer ELSE cred.xApiKey

Lookup(key) == key # Blank /\ key \in DOMAIN store

\* ClientFrom, as RateLimitKey reads it from the context that Authenticate
\* passes on.
RateLimitKey(key) == IF authDisabled THEN AnonymousClient ELSE store[key]

-----------------------------------------------------------------------------
(* The actions.                                                            *)

AInit ==
    /\ Init
    /\ spec \in KeySpecs /\ parsed = 0 /\ keys = [c \in {} |-> Blank]
    /\ store = [s \in {} |-> Blank] /\ serving = FALSE
    /\ presented = [q \in Requests |-> Blank]
    /\ spentBy = [s \in Secrets \cup {Blank} |-> 0]
    /\ refused = {}

\* ParseKeySpec reads the next pair.
ParsePair ==
    /\ ~serving /\ parsed < Len(spec)
    /\ keys' = addPair(keys, spec[parsed + 1])
    /\ parsed' = parsed + 1
    /\ UNCHANGED <<vars, spec, store, serving, presented, spentBy, refused>>

\* It has read them all, and returns the store; run makes the limiter and
\* starts the server.
ParseKeySpec ==
    /\ ~serving /\ parsed = Len(spec)
    /\ store' \in NewAPIKeyStore(keys)
    /\ serving' = TRUE
    /\ UNCHANGED <<vars, spec, parsed, keys, presented, spentBy, refused>>

\* A request passes Authenticate and enters Allow.  With authentication off
\* its headers are not read.
Pass(q, cred) ==
    LET key == IF authDisabled THEN Blank ELSE presentedKey(cred)
    IN  /\ serving
        /\ authDisabled \/ Lookup(key)
        /\ Enter(q, RateLimitKey(key))
        /\ presented' = [presented EXCEPT ![q] = key]
        /\ UNCHANGED <<config, spentBy, refused>>

\* Authenticate answers 401; the limiter never hears of the request.
Refuse(q, cred) ==
    /\ serving /\ \A x \in calls : x.req # q
    /\ ~authDisabled /\ ~Lookup(presentedKey(cred))
    /\ refused' = refused \cup ({presentedKey(cred)} \ {Blank})
    /\ UNCHANGED <<vars, config, presented, spentBy>>

\* The limiter lets the request through to the handler.
Serve(x) ==
    /\ Admit(x)
    /\ spentBy' = [spentBy EXCEPT ![presented[x.req]] = @ + Token]
    /\ presented' = [presented EXCEPT ![x.req] = Blank]
    /\ UNCHANGED <<config, refused>>

\* The limiter answers 429.
Throttle(x) ==
    /\ Reject(x)
    /\ presented' = [presented EXCEPT ![x.req] = Blank]
    /\ UNCHANGED <<config, spentBy, refused>>

\* The eviction loop, Close and the clock.
Background ==
    /\ serving
    /\ StartEvict \/ Evict \/ Close \/ Tick
    /\ UNCHANGED <<config, presented, spentBy, refused>>

ANext ==
    \/ ParsePair \/ ParseKeySpec
    \/ \E q \in Requests, cred \in Credentials : Pass(q, cred) \/ Refuse(q, cred)
    \/ \E x \in calls : Serve(x) \/ Throttle(x)
    \/ Background

ASpec == AInit /\ [][ANext]_avars

-----------------------------------------------------------------------------
(* Properties.  They read API_KEYS as its author means it.                 *)

\* The last complete pair of client c gives it the key s.
Owns(c, s) ==
    \E i \in DOMAIN spec :
       /\ spec[i] = <<c, s>> /\ c # Blank /\ s # Blank
       /\ \A j \in DOMAIN spec : j > i /\ spec[j][1] = c => spec[j][2] = Blank

Shared(s) == \E c, d \in Keys : c # d /\ Owns(c, s) /\ Owns(d, s)

\* The limiter's map is bounded by the configuration and not by the traffic:
\* it holds buckets of configured clients, or the one anonymous bucket when
\* no client is configured, whatever keys the requests carry; and no bucket
\* saves up more than the burst, whatever the order of its refills.
BucketsBounded ==
    /\ DOMAIN buckets \subseteq
         IF \E c \in Keys, s \in Secrets : Owns(c, s)
         THEN {c \in Keys : \E s \in Secrets : Owns(c, s)}
         ELSE {AnonymousClient}
    /\ \A k \in DOMAIN buckets : buckets[k].tokens \in 0 .. Capacity

\* A key stands for its client.  Its holder is never sent off with the 401,
\* also when the key replaced an earlier one, and a client's tokens are taken by
\* the holder of its key and by nobody else, so one client's traffic never
\* throttles another.  The latter needs keys that are not shared: a shared key
\* draws on one of its clients' buckets, which one is decided by the iteration
\* order of a map.
KeysIdentify ==
    \A s \in Secrets :
        /\ spentBy[s] = 0 \/ \E c \in Keys : Owns(c, s)
        /\ \A c \in Keys : Owns(c, s) => s \notin refused /\ (Shared(s) \/ spent[c] = spentBy[s])
==============================================================================
