# A TLA+ verification of the microservices platform

The repository holds a small platform of three services under
`eks-microservices-platform/` (paths below are relative to it), and an unrelated set of
scripts that draw a profile page. This directory models the parts of the platform whose
correctness depends on concurrency, time and failure: the circuit breaker, the retrying
upstream client, admission to the gateway (authentication and rate limiter), the request
timeout, the life of a pod from boot to exit, the gateway's handlers in front of the device
catalog, the scorer, and the boot of the catalog's pods against their database. TLC checks the
models on small instances; TLAPS proves their safety properties, refinements included, for all
values of the constants, except those that need an induction over data.

## 1. Inventory

| Component | State it keeps | Operations | Interacts with |
|---|---|---|---|
| Circuit breaker, `internal/platform/resilience/breaker.go` | state, window counts, window start, opening time, half-open slots and successes, under one mutex | `Do` = `allow`, the call, `record` or `release`; `State` | one per upstream, shared by all requests; read by the readiness check and `/api/v1/dependencies` |
| Retry loop, `internal/platform/resilience/retry.go` | per call: attempt number, last error | `Retry`, `delayFor`, `sleepCtx` | wraps the breaker; obeys the request's context |
| Upstream client, `internal/platform/httpx/client.go` | the breaker | `Get`, `Post` = `do` around `attempt` | called by the gateway's handlers |
| Rate limiter, `internal/gateway/ratelimit.go` | map of token buckets under one mutex | `Allow`, `evict`, `Close`, the middleware's 429 | request goroutines and the eviction goroutine |
| Timeout and recorder, `internal/platform/httpx/middleware.go`, `response.go` | per request: `wroteHeader`, `timedOut`, `status` under a mutex; the unlocked header map | `Timeout`, `WriteHeader`, `Write`, `markTimedOut`, `WriteJSON`, `WriteProblem` | two goroutines per request; Recovery and Metrics outside, the mux inside |
| Health registry, `internal/platform/health/health.go` | `started`, `draining`, the list of checks | `MarkStarted`, `BeginDrain`, readiness, liveness and startup handlers | kubelet; `Serve` |
| Server lifecycle, `internal/platform/httpx/server.go`, `cmd/*/main.go` | two listeners, the errgroup, the signal context | `Serve` | kubelet, data plane, registry, requests in flight |
| Gateway handlers, `internal/gateway/handler.go` | none of their own | `ScoreReading` (catalog, then scorer, degraded answer), proxies, `relayUpstreamError` | two upstream clients within one deadline |
| Authentication, `internal/gateway/auth.go` | the map from key digests to clients, read-only | `ParseKeySpec`, `Lookup`, `Authenticate`, `RateLimitKey` | chooses the limiter's bucket |
| Catalog, `internal/catalog/` | devices, in memory or PostgreSQL | create, get, list by keyset cursor | gateway; several replicas on one database |
| Scorer, `services/scorer/app/` | `started`, `draining`; one event loop | `score_window`, SIGTERM hook, probes | gateway; kubelet |
| Catalog boot, `cmd/catalog/main.go`, `internal/catalog/postgres.go` | the connection pool; the schema in the database | `run`, `openStore`, `Migrate`, `Ping` | other replicas, through the database; kubelet and Deployment |
| Configuration, `internal/platform/config` | the list of errors | `String`, `Int`, `Duration`, `Float`, `Bool`, `Err` | `run` of both Go services |
| Telemetry | none that matters here | export | all services |
| Charts, GitOps, policy, Terraform | declarative | none | its numbers are constants of the lifecycle |
| Profile page scripts, `/scripts` of the repository | none | render images | nothing |

What is hard in this code is listed, line by line, under `hazards` in `PROJECT.json`. In short:

* *Outcomes that outlive their state.* A call to a dependency runs with the breaker's mutex
  free; its outcome is booked in whatever state the breaker is in when the call ends.
* *Two writers of one response.* The handler and the timeout path run on different
  goroutines; the recorder's mutex covers the decision and not the write behind it.
* *Stale clocks.* `Allow` and `evict` read the time before they take the mutex.
* *Four clocks in one shutdown.* Drain delay, shutdown grace, trace flush and the kubelet's
  SIGKILL; closing a listener too early refuses requests, too late gets the process killed.
* *Retries inside a deadline*, over a breaker shared with other requests.
* *Requests of unknown fate.* A creation whose answer is lost is sent again, and may arrive
  after the second attempt; other clients insert devices between the pages of a listing.
* *Replicas that boot together*, each migrating the same schema, against a database that may
  fail and has a limited number of connections, while a Deployment decides by their readiness
  which healthy pods to delete.
* *A hook that blocks the loop.* The scorer waits for the data plane on the thread that would
  have to answer it.
* *Strings that become paths.* An id from a request is put into an upstream URL unescaped.
* *Boundaries:* ratio reached exactly, minimum sample, rates below one per second, medians of
  even windows, dispersions of zero, the limit of floats, numbers that wrap in an int32.

What makes each component correct:

* breaker: an open breaker leaves the dependency alone, trials are bounded and decide alone,
  slots do not leak, an outage trips it and a recovery closes it;
* upstream client: attempts, time and sleeps stay in the retry budget and the deadline, and
  cancelled calls do not count against the dependency;
* rate limiter: nobody gets more than burst plus rate; `Retry-After` is enough;
* timeout: one author per response, a claimed timeout is answered, workers are freed;
* lifecycle: no request refused or cut off in a rollout, exit before SIGKILL;
* catalog: one creation wins an id, a registered device is found, pagination neither skips
  nor repeats;
* gateway: a catalog outage leaves the scorer its time, and a score without a device says so;
* admission: a client's tokens are its own, and traffic adds no buckets;
* scorer: nobody refused or cut off in a drain; the score is robust, independent of units and
  can be encoded;
* catalog boot: no serving without the schema, a bad rollout stalls, a good one completes.

## 2. Modules

| Component module | Checked by | Proved in | Models |
|---|---|---|---|
| `Breaker` | `MCBreaker` | `BreakerProofs` | `breaker.go` |
| `Upstream` (composes `Breaker`) | `MCUpstream` | `UpstreamProofs` | `retry.go`, `client.go` |
| `RateLimiter` | through `Admission` | `AdmissionProofs` | `ratelimit.go` |
| `Admission` (extends `RateLimiter`) | `MCAdmission` | `AdmissionProofs` | `auth.go` in front of the limiter |
| `Timeout` | `MCTimeout` | `TimeoutProofs` | `Timeout`, `Recovery`, `Metrics` of `middleware.go`; `response.go` |
| `Lifecycle` | `MCLifecycle` | `LifecycleProofs` | `server.go`, `health.go`, `cmd/*/main.go` |
| `Catalog` | through `Gateway` | | `internal/catalog/` |
| `Gateway` (extends `Catalog`, implements `Registry`) | `MCGateway` | `GatewayProofs` | `internal/gateway/handler.go` |
| `Registry` | as a property of `Gateway` | | what clients are promised |
| `Scoring` | through `Scorer` | `ScorerProofs` | `scoring.py` and the endpoint's answer |
| `Scorer` (extends `Scoring`) | `MCScorer` | `ScorerProofs` | `main.py` |
| `Boot` | `MCBoot` | `BootProofs` | `cmd/catalog/main.go`, `config.go`, the pool and migrations of `postgres.go` |

The `MC` modules add symmetry sets and the inputs of a run: credentials, windows, environments. The `map` of `PROJECT.json` gives the lines each
definition stands for. Operators named `Fault_...` are plausible bugs of one definition each;
no action of a specification uses them. Substituted for their definition they must break a
property, which shows that the property depends on the code it is about.

### Breaker

`b` is the Go struct. Its two time stamps are kept as ages (`windowAge`, `openAge`) that
saturate at `Window` and `OpenTimeout`: the code compares nothing else, so the clock needs no
bound and runs for ever. The methods called with the mutex held are operators on the struct,
under their Go names. `Admit`, `Reject`, `Succeed`, `Fail`, `Cancel` and `State` are the
critical sections; a call runs between `Admit` and one of the three ends for at most
`MaxCallTime`. `inflight` and `age` are the callers' stacks; `trials` is a history variable,
the running calls admitted in the current half-open period. `healthy` is the dependency: a
healthy one does not fail, an unhealthy one may do anything. With `MalformedURLs` the call
handed to `Do` may also fail by itself, without asking the dependency, as `attempt` does; the
breaker cannot tell the two apart. `breaker_slow_calls` leaves that out, because `Recovers` is
about a dependency that gets a chance.

Whether the breaker keeps its promises depends on one relation of the configuration: does a
call end before the open period does? As deployed it does (`UPSTREAM_TIMEOUT` 2 s,
`OpenTimeout` 15 s), but nothing in the code relates the two.

### Upstream

One activation record `r[c]` per request: the phase of the loop, the attempt, the time left
to the deadline, the backoff under way, the last error. Each step that enters or leaves the
breaker conjoins an action of `Breaker` with what `Retry` and `do` do after it (`afterError`
is the loop body after an error, one next state per delay that jitter can pick). That the
steps of the loop are steps of `Breaker` is therefore plain, and only a lemma of the proofs.
`malformed` marks a request whose base URL and path make no URL: `attempt` returns a
`Permanent` error for it (`Malformed`), which `Retry` does not repeat and the breaker counts.
`Disconnect` is the client going away at any time. Time waits for timers that are due and for
calls whose context has ended.

### RateLimiter

`Enter` is the clock read of `Allow`; `Admit` and `Reject` its critical section, which may
run up to `MaxSkew` later, in any order. `StartEvict` and `Evict` split `evict` likewise.
Tokens are integers: `Token` units to a token and `Rate` units a tick. `burst` is the default
of `NewRateLimiter`. `spent` and `comeback` are history: what each client was admitted for,
and when its last 429 told it to return. The float arithmetic of the code is taken as exact.

### Admission

`Pass` and `Refuse` are `Authenticate`; `Pass` enters the limiter with the identity found, and
`Serve` and `Throttle` are the limiter's two answers. `spec` is the value of `API_KEYS`, a
sequence of pairs in which a part may be blank. Before the gateway serves, `ParsePair` is one
turn of `ParseKeySpec`'s loop, after which the last complete pair of a client is in the map
`keys`, and `ParseKeySpec` is its return: `NewAPIKeyStore` yields every store that ranging
over that map in some order can build. The loop is modelled turn by turn so that what it
computes for every value of `API_KEYS` is an invariant, which can be proved. A client may be
called `anonymous`, as the code allows. `spentBy` and `refused` are history. An empty store
turns authentication off; a value of `API_KEYS` without one complete pair has the same effect
as none.

### Timeout

Two program counters per request, `server` and `handler`. Every locked section, every call
of the wrapped writer and every access to the header map is one step. `status`, `sentType`
and `body` are what the client receives, by author; net/http is external and reduced to
three facts: the first status wins and takes the header map along, a response nobody started
is an empty 200, and the first unrecovered panic of a goroutine it did not start ends the
process. The header map is not guarded: an overlap of two accesses may go unnoticed or be
caught by the runtime, which stops the process (`ConcurrentMapAccess`). `pattern` has two
fields because `r.WithContext` gives the mux a copy of the request that Metrics holds.

### Lifecycle

`phase` follows `run` and the shutdown goroutine of `Serve`; `timer` is the time of its
current step. A listener is `unbound` until its goroutine reaches `ListenAndServe`, which
may also fail and start the shutdown through the errgroup. A readiness probe is two steps,
the locked snapshot and the answer. The cluster is external: SIGTERM at any time, routing
to a ready pod, up to `Propagation` ticks of routing after SIGTERM, SIGKILL at
`grace`, which is one of `TerminationGraces` and fixed for the pod. Requests end within `RequestTimeout`, which is what the Timeout
middleware provides (`WorkerFreed`).

A boot that fails (configuration, tracing, database) ends the process (`BootFails`).

### Catalog

The operations of both repositories and of the handlers over them, as operators; `Create` is
an action on `devices`. An id is a number, so that ids have an order; its negative is the same
id in another spelling, which `normalise` undoes as `Validate`, `Get` and `Normalise` do. A
blank id and one that `idPattern` refuses are apart, because a lookup answers the first with
400 and the second, without validating it, with 404. What the path of a lookup makes of a
string is the gateway's part. The two stores differ where the code
does: what rows a page is cut from, and that only PostgreSQL can fail, in which case the
handler answers 500 and the row may or may not be there. A unique index makes INSERT atomic;
that is PostgreSQL's part and external. Device names, kinds and time stamps are left out, and
so is a restart, which empties the in-memory store.

### Gateway

One request `g[c]` per client, from `Accept` to an answer. An attempt is handled by the
catalog (`Serve`), its answer arrives (`Receive`) or the attempt fails at any point (`Fail`),
before or after the catalog handled it; a creation given up before it was handled may still
arrive (`late`, `ServeLate`). The retry loop is that of `Upstream`, with its time counted per
request: `left` is what remains of the deadline. Requests share nothing in the gateway but
the breaker and the limiter, which have modules of their own; a rejection by the breaker is
an attempt that fails at once. At the deadline the answer of the handler and that of the
Timeout middleware race: 503 or 504. The empty 200 that the race can also produce
(`timeout_empty_answer`) is the subject of `Timeout` and not repeated here. The scorer is reduced to the answers it may give. `walk` is a client
that follows `next_cursor` through a listing, asking again for a page it did not get.
`registered`, `known`, `seen` and `count` are history.

`GetDevice` and `fetchDevice` put the id into a path as it is. `Strings` are the ids that clients
look up or score, with one of each kind the URL changes: `Altered`, cut off behind another
id at a `?` or `#`, or a percent-escape of it; `Dots`, a path that the catalog's mux redirects
to the listing; `Garbled`, no URL. `pathId` and `lookupStatus` say what the catalog is asked and
answers. So an answer is true of the device that the path names, which is what
`ImplementsRegistry` says, and not always of the one the client named: `FullMeansRegistered` is
false (section 3).

`Registry` is the same service without replicas, retries, spellings and time: a table to which
ids are added once, requests that begin and are answered, and creations that nobody waits for
any more and that may still happen. `Reg` maps `devices` to the table, each request to what
its client knows of it, and `late` to the abandoned creations; all steps of attempts,
backoffs and of the scorer are stuttering.

A branch of the code has no counterpart: `relayUpstreamError` turns an upstream 5xx into a
502, but `attempt` has already made an error of every 5xx, so that branch is never reached.

### Scoring and Scorer

`Scoring` is a translation of `score_window` over integers, exact by scaling: medians are in
halves, dispersions in quarters, scores are fractions of units of 1/2000, in which 0.6745 is
1349. `FloatMax` stands for the largest float, beyond which sums and differences become
infinite; an infinite distance makes the score infinite, the fraction 1/0, which `capped`
brings down to the cap. Rounding is left out. `sorted` is stated by what it returns: fewer than
`k` values are below the `k`-th, and no fewer than `k` are up to it. The endpoint answers 422 to
an empty or too long list, and 500 to one with NaN or an infinity: the validator refuses it, but
the 422 of FastAPI carries the input, which JSONResponse cannot encode.

`Scorer` is one pod. `phase` is where the process is: the hook (`draining`) runs on the event
loop's thread, so between SIGTERM and `Wake` no request is read, no handler continues and no
probe is answered, while the kernel completes connections for the listener. uvicorn is
external: told to exit, it closes the listener, waits for running handlers up to its graceful
timeout, and ends; what it has not read when it closes, a liveness probe included, is reset.
Requests may also be routed to a pod that is gone. The gateway gives a request up after `Patience`. `live` is the kubelet's
liveness probe with its period, timeout and failure threshold.

### Boot

The pods of an old and a new revision, under a Deployment with `MaxSurge` and
`MaxUnavailable`. An environment is a function from keys to texts; one key stands for all
that are read by the same method of the Loader. `Load` is `run` up to the first call to the
database, `Connect` and `ConnectFails` are `NewPostgresRepository`, `Migrate` and
`MigrateFails` the schema. `saw` is what CREATE TABLE IF NOT EXISTS found when it looked: if
another session commits the table in between, the statement fails, the process exits with
status 1, and the kubelet restarts it (`Restart`). `Grow` and `Shrink` are the pool under load
and idle, within the size that `withDefaults` and the conversion to int32 give it; a deleted
pod keeps its connections until it has exited. Calls take time up to their timeouts, also
when the database is up. Back-off between restarts, and a ping that waits for a busy
connection, are left out.

## 3. Runs

### Passing

| Run | Properties | What it shows |
|---|---|---|
| `breaker_slow_calls` | `TypeOK`, `NoLeakedSlots`, `NoCallWhileOpen`, `OutageTrips`, `Recovers` | What holds even with calls that outlast the open period; a dependency that stays healthy gets its traffic back for good |
| `upstream_budget` | `TypeOK`, `WithinBudget`, `BackoffFitsDeadline`, `TrialsDecide`, `OnlyFailuresTrip` | Two requests over one breaker keep to budget and deadline; with calls shorter than `OpenTimeout`, only trials decide; hang-ups, deadlines and late answers never open the breaker of a healthy dependency |
| `admission` | `RateHeld`, `RetryAfterHonoured`, `BucketsBounded`, `KeysIdentify` | Requests with any credentials, stale stamps, eviction at any moment, and values of `API_KEYS` with blank, repeated and shared entries: the rate is held, per client, whoever else sends what |
| `timeout_response` | `TypeOK`, `OneAuthor`, `ClaimIsAnswered`, `HandlerOwnsHeaders`, `WorkerFreed` | Answers never mix, and the handler's go out with its headers; a claimed timeout is answered in full; the server goroutine ends although the handler may hang |
| `lifecycle_rollout` | `TypeOK`, `NeverKilled`, `NoneRefused`, `NoneAbandoned`, `AliveWhileServing`, `Terminates` | The deployed order of the delays makes a shutdown orderly: nobody refused or cut off, exit before SIGKILL; a termination grace that ignores the flush, as the chart's comment allows, costs traces and no requests |
| `gateway` | `WalkExact`, `EnrichmentLeavesTime`, `ImplementsRegistry` | Two clients with retries, lost answers and late attempts, on either store, and any string for an id in a lookup: one creation wins and stays, walks are exact, lookups are true of the id in the path, a failing catalog does not starve the scorer; the whole implements `Registry` |
| `scorer` | `NoneDropped`, `LivenessSurvives`, `Terminates`, `RobustScore`, `UnitsDoNotMatter`, `AlwaysEncodable` | A drain refuses nobody, with a generous grace the pod is not missed and no handler cut off, and it keeps the kubelet's trust, although the loop stands still; scores are right over windows with outliers, flat stretches and extreme values |
| `boot` | `SchemaBeforeServing`, `BootInBudget`, `BadRolloutStalls`, `OneReport`, `NoneStarved`, `Completes` | Installations and updates with racing migrations, outages and broken environments: no pod serves what it must not, a bad update stalls, a good one completes |

### Disagreements between code and comments

Each of these runs checks one sentence of the repository and fails; `findings` quotes it.
None needs a configuration other than the default or the chart's.

| Run | What TLC shows |
|---|---|
| `timeout_empty_answer` | A deadline between `wroteHeader = true` and the write behind it: the client gets an empty 200 |
| `timeout_panic` | A handler's panic is on a goroutine Recovery does not cover and ends the process |
| `gateway_post_retry` | A creation carried out and not answered is sent again: the client gets 409 for its own device |
| `scorer_drain` | A request that arrives just before SIGTERM, or during the hook's sleep, is accepted by the kernel and not read before the sleep is over; the gateway gives it up |

Five more statements are false of the code; they are kept, as definitions, next to the
properties that hold, and TLC refutes them when they are added to the configuration named:

* `OwnsHeaders` (with `timeout_response`): "The timeout middleware already owns the response"
  (`response.go`), but a late handler still reaches the shared header map, and the 504 goes
  out with the handler's `Content-Type`;
* `NoneTooEarly` (with `lifecycle_rollout`): the two listeners are bound by two goroutines in
  either order, after `MarkStarted`; readiness can pass, and requests be routed, before the
  public port is bound;
* `RouteLabelled` (with `timeout_response`): "routeOf returns the matched mux pattern"
  (`middleware.go`), but `Timeout` hands the mux a copy of the request, and Metrics, which holds
  the original, counts every request as `unmatched`;
* `FullMeansRegistered` (with `gateway`): "a device the catalog has never heard of is a client
  error worth reporting" (`handler.go`), but `fetchDevice` and `GetDevice` concatenate the id to
  the path without `url.PathEscape`: for `dev-1?x`, `dev-1#y` or a percent-escape of `dev-1` the
  catalog is asked about `dev-1`, for a single dot its mux redirects the call to the listing, and
  the client gets that answer's 200 or a full score for an id nobody registered;
* `BadRequestsDoNotTrip` (with `upstream_budget`): "a client sending bad requests says nothing
  about the dependency's health" (`client.go`, of 4xx answers), but the error for a URL that does
  not parse, to which an id such as `100%` leads, is a failure to `Breaker.Do`: two of them (as
  deployed, `MinimumRequests`) open the breaker of a healthy dependency for every client.

The premises of some properties are needed, and the code does not enforce them:

* with `MaxCallTime >= OpenTimeout`, as in the constants of `breaker_slow_calls`, `TrialsBounded` and
  `TrialsDecide` fail: a call from before the outage ends in the half-open state, gives back
  a slot it never took, and its outcome re-opens or closes the breaker;
* with fewer than one request per second (`Rate * Second < Token`) `RetryAfterHonoured`
  fails: the wait is rounded down to whole seconds; and with no burst configured the default
  burst is then zero, so that nobody is ever admitted;
* a key that two clients share in `API_KEYS` draws on the bucket of one of them, and which one
  is the iteration order of a Go map: `KeysIdentify` leaves the tokens of shared keys out;
* `PoolsFit` counts the pools of both revisions. ADR 0009 asks for
  `DB_MAX_CONNS x replicas < max_connections`; in `Boot` that is not enough during an update,
  when the deleted pods hold their connections until they have exited: with 2 x 2 < 5 a pod
  can be left without a connection. As deployed (2 x 10 against about 100) there is room;
* `OneReport` excepts `CATALOG_STORE` and `DATABASE_URL`, which are not checked by the Loader:
  an environment that is wrong in both ways takes a second restart to say so;
* `AlwaysEncodable` excepts readings within a factor of three of the largest float: their sums
  and differences can be infinite, the JSON encoder refuses them, and the answer is 500. NaN and
  infinities among the readings are answered with 500 as well, for the reason given above;
* `Recovers` assumes that requests can be made: a stream of malformed ones keeps the breaker open;
* "A perfectly flat baseline" (`scoring.py`) is any baseline more than half of whose readings
  are equal; that is what `UnitsDoNotMatter` and `RobustScore` are checked against;
* `ANOMALY_THRESHOLD=nan` passes the validation of `config.py`, and nothing is then an anomaly.

### Bounds, and why they are enough

* `breaker_slow_calls`: four callers with two trial slots, so two
  calls from an earlier period can meet two trials. `MaxWindowCalls` bounds the counts of one
  window (two and a half times the minimum sample, so that ratios on both sides of one half
  occur); windows themselves roll for ever. The longest call is one tick over the open period;
  in `upstream_budget` it is under it. Runs with a liveness property use no symmetry.
* `upstream_budget`: three attempts, backoffs of up to two ticks with full jitter, deadlines
  of two ticks (ends within the first backoffs) and eight (outlasts the whole budget, which
  is 3 + 2 * 2 = 7), and any request may be malformed.
* `admission`: two requests at a time, two clients and the anonymous one, two keys and values
  of `API_KEYS` that are plain, empty, shared, rotated and malformed, or name the anonymous
  client; half a token a tick, a
  second of two ticks, a burst of one and a lifetime of buckets of four ticks: within the
  five ticks of the clock a bucket is emptied, refilled, evicted and
  made anew. `IdleTTL` is the smallest that satisfies the premise of `RateIsHeld`.
* `timeout_*`: requests do not interact except through a crash, two are enough for that.
  The state space is finite as it is.
* `lifecycle_rollout`: two clients, each sending requests one after the other; delays in the
  order of the deployed ones (5 s drain, 25 s grace, 10 s requests, 45 s to SIGKILL), scaled
  down, and a second termination grace one tick above drain delay plus shutdown grace. The
  clock stops with the process.
* `gateway`: two clients that both create, one of which also looks up, scores and lists; three
  ids, so that a walk with pages of one has a device before, at and behind its cursor, and
  insertions fall on either side of it; one id has a second spelling. The device that exists
  at the start may be at a site nobody lists by name. Two attempts, so that a creation is sent again while the first one is on its way, each of which
  takes its whole two ticks (the worst case for the only property about time), and a backoff of
  one within a deadline of seven: the budget of the catalog is five ticks and two are left for the
  scorer, as with the deployed values (three attempts of 2 s and backoffs of at most 0.2 s within
  10 s), which the proofs cover. Proxied requests
  therefore never meet the deadline in this run; their race with it is the subject of
  `Timeout`. With a shorter deadline `EnrichmentLeavesTime`
  fails, and nothing in the code relates the two settings. `gateway_post_retry` needs one
  client and one id.
* `scorer`: two requests, one of which carries any of the windows of `MCScorer`, so that every
  interleaving of the drain meets two requests and every window is judged; a sleep of two
  ticks, long enough for the gateway's patience to end in it, with routing ending after one; a
  graceful timeout of three, and a grace that covers both or neither: with the short one the pod
  is killed while requests are still routed to it. `scorer_drain` uses the
  deployed numbers of seconds. Windows have up to nine readings (MIN_WINDOW is 8 as in the
  code): even and odd baselines, majorities of equal readings, outliers on one or both sides, and
  readings at `FloatMax`, which is 300, so that sums, differences and dispersions overflow.
* `boot`: two replicas of each revision with a surge of one, so that two migrations race in an
  installation and a deleted pod overlaps with the last new one in an update; two outages; six
  connections, which pools of one or two per pod fit and pools of three do not; the width of
  int32 is scaled to four bits, with values that wrap to a negative and to a small number.

Deadlock is not checked where the system may really stop: the rate limiter at the end of its
bounded clock, requests that are over, a process that has exited.

### Fairness

* `breaker_slow_calls`: the clock runs; some caller tries when the breaker would let it; a
  caller whose calls are answered again and again sees one of them through rather than
  abandoning all of them (strong fairness of `Succeed`). The last is an assumption about
  clients: if all of them always gave up early the breaker would never get a verdict.
* `timeout_response`, `timeout_panic`: the Go scheduler runs the server goroutine, the
  context's timer fires. Nothing is assumed of handlers.
* `scorer`: the loop goes on when it is not asleep, and time passes; nothing is assumed of
  SIGTERM, routing or arrivals.
* `boot`: processes, kubelet and Deployment go on with what they have to do, outages end (there
  are at most `MaxOutages`), and a database that is asked again and again while it is up
  answers in time at last (strong fairness of `Connect` and `Migrate`): without the last, a
  database that is always slower than the timeouts keeps every boot from ending.
* `lifecycle_rollout`: the shutdown goroutine is scheduled, time passes, requests end (by the
  Timeout middleware), probes end (the registry gives checks a timeout), routing reacts.

## 4. Proofs

Assumptions about constants are the named `ASSUME`s of the component modules: what
`withDefaults` and the constructors enforce. A theorem that needs more says so in its own
`ASSUME`. The inductive invariants stand at the head of each `*Proofs` module; a module that
extends an `MC` module and its `*Proofs` lets TLC check them as invariants of the same instance.

**Breaker.** `SafetyInv` holds for calls of any length: types; no trial outside half-open;
slots never exceed running trials (`NoLeakedSlots`); calls running in the open state are
older than it (`NoCallWhileOpen`); the ratio (`OutageTrips`, whose induction step is that
counting a success cannot lift a window over the ratio). `ShortCallInv` adds that in
half-open every running call is a trial with one slot of its own. It is inductive only under
`MaxCallTime < OpenTimeout`: then `NoCallWhileOpen` makes `inflight` empty when the open
period ends. Hence `BreakerTypes`, `SlotsNeverLeak`, `OpenLeavesAlone`, `OutageOpens`,
and, under that premise, `TrialsAreBounded` and `OnlyTrialsDecide`.

**Upstream.** `BudgetInv` says how much time an activation may have used at each point of the
loop: `(attempt - 1) * Round` before an attempt, plus the age of the call during it, and in a
backoff the time spent plus the wait left is within `attempt * Round`. `BudgetHolds` follows.
Its arithmetic rests on `DelayBound`: no jittered delay exceeds `WorstDelay`. With it
`BackoffFitsDeadline` is inductive (`SleepsFitDeadline`). By `LoopsUseBreaker` each step of the
loop is a step of `Breaker` or leaves it alone, so that the theorems of `BreakerProofs` hold of
the breaker inside the loop. That gives its part of `UpstreamTypes`, `LoopsKeepBreaker` for
calls of any length, and `LoopTrialsDecide` under `MaxCallTime < OpenTimeout` (2 s and 15 s as
deployed). `OnlyFailuresOpen` goes through the ways a call can leave the breaker: admission,
release and a success open it in no state, whatever is counted already (`OpensNothing`), so an
outcome that opens it is a failure, which is the dependency's unless the URL was refused.

**RateLimiter.** `RateInv` is an account: what a client was served plus what its bucket holds
is covered by the burst and the rate up to `last`; a client without a bucket has earned back
what it was served. Eviction keeps the account only if a bucket outlives its own refill
(`SlowEviction`: capacity at most `Rate * (IdleTTL - 2 * MaxSkew)`); one skew is for the
stamp that marked the bucket as seen, one for the stamp that makes it anew. The default of
ten minutes against two seconds' worth of burst satisfies it; nothing in the code enforces
it. `RateIsHeld` is the contract under that premise. `RetryInv` says that a client that was
told to come back was told at least a second after the last refill of its bucket; at one
request a second or more (`AtLeastOneASecond`; the default is a hundred) a second refills a
token, whatever the rounding, hence `RetryIsEnough`.

**Admission.** `ParseInv` says that after `n` pairs the map is who owns which key by the first
`n` pairs; `OwnsNext` is its step, what one more pair changes. `StoreInv` says that the store
holds every owned key and, for a shared one, some owner of it. `AccountInv` says that a request
in the limiter carries its key and that key's client, and that a key's account and its
client's are equal unless the key is shared; its step needs that a client owns one key at most,
which is `ParseInv`. `AdmissionImplementsLimiter` shows that the composition takes only steps
of `RateLimiter`, so that `RateIsHeld`, `RetryIsEnough` and the limiter's types hold behind the
authenticator; `MapIsBounded` and `KeysStandForClients` follow, for every value of `API_KEYS`
and without a premise.

**Timeout.** `ResponseInv` ties the two flags, the two program counters and the status line
together: the flags exclude each other, each party works only under its own, and the status
line names the holder or the server that has closed the response. `AnswersKeptApart` and
`ClaimsAreAnswered` follow; so does that the label set is finite (`ResponseTypes`).
`HeaderInv` adds who filled in the unlocked header map last: between filling it in and
sending it the handler can only lose it to a timeout that has claimed the response
(`HeadersKeptApart`).

**Lifecycle.** `TimingInv` bounds the time since SIGTERM by the step of the sequence,
`ListenerInv` says when listeners are closed, `RouteInv` that an orderly drain outlasts the
routing, `RequestInv` that a request Shutdown waits for is at least as old as the wait. From
them, each with the relation of delays it needs: `ExitsInTime`, `RolloutRefusesNone`,
`RolloutAbandonsNone`, `ProbesOutliveRequests`, `StepsAreBounded`. The grace is a variable of
the model: `ExitsInTime` needs no premise, because `NeverKilled` is about pods whose grace is
`Generous`; the last but one and the one before it ask that every grace exceeds drain delay
plus shutdown grace.

**Gateway.** `TimeInv` says what the attempts and backoffs so far leave of a reading's deadline;
`OutageLeavesTime` follows for a deadline of at least all attempts and backoffs at the catalog
and one call of the scorer (10 s against 8.4 s as deployed). `AnswerInv` says that an answer on
its way back stays true of the registry until it is received: a 201 names this client's
device, a 409 and a 200 a device that exists, and a 404 was given only if the device was not
there when the request began, the device being the one that the path names. It holds because devices are never removed, and it is what makes
each step a step of `Registry` or a stutter: `GatewayImplementsRegistry`. `WalkInv` says that a
walk has listed everything it asks for up to its cursor, and that the page on its way is
everything between that cursor and the next; insertions behind the cursor change neither.
`WalksExact` follows. That a page that is not the last has a last id, the next cursor, rests on
the well-founded order of `Nat` (a set of numbers has a smallest) in place of an induction.

**Scorer.** `ClockInv` puts the time since SIGTERM at the process's phase: the hook's sleep, no
time at all until uvicorn closes the socket, then the closing. `HandlerInv` says that a handler
that is still running has run for as long as the closing lasts, so that the closing is no
longer than `HandlerTime`. `LiveInv` is an account of the probe: strikes, with one for a probe
under way, times `ProbePeriod` are at most the time since SIGTERM plus what is left to the next
probe; so few strikes fit into `DrainDelay + HandlerTime`. `KubeletWaits` needs `Patient`, that
this sum is below `(FailureThreshold - 1) * ProbePeriod` (5 s and a handler against 20 s as
deployed). `DrainDropsNone` also needs that routing ends within the drain delay and handlers
within uvicorn's graceful timeout (25 s); that the grace covers the sleep and that timeout is
part of the property. `GoneInv` says that a pod with such a grace is gone only after the routing
has ended.

**Scoring.** `ScoresAreRobust`, `UnitsAreFree` and `AnswersEncode` hold of every window of
integers, of any length, and for every threshold and every `FloatMax` of at least 8. They are
facts about `score_window`; the invariant they need is only that the readings of a request are
among its windows (`TypeInv`). The proofs count: `IsKth(v, k, x)` is the definition of the `k`-th
value, `KthExists` and `KthOrder` that there is exactly one (the smallest element of a set of
numbers, from the well-founded order of `Nat`, takes the place of an induction over the length),
so that `Middle`, the pair of values a median is made of, is unique. From it:

* `Halves` and `HalvedSample`: half of the sample lies on either side of the median; a median
  that is reported is finite, so it was not clipped;
* `Majority`: the middle lies where most of the values lie. Applied to the baseline it puts the
  median between `lo` and `hi`, and applied to the deviations it puts the dispersion within
  four times `hi - lo`, in quarters (`NarrowSpread`); so a reading far above is over the
  threshold whatever the other readings are (`SpikeFound`). A finite dispersion is needed where
  `hi - lo` itself exceeds `FloatMax`;
* `Mirrored` and `Scaled`: the middle of mirrored and of stretched values, hence that every
  number of the detector changes its unit (`Gauge`) and the fraction does not (`Extended`);
* `NearHalf`: half of the deviations, those on the far side of the median from zero, are within
  two thirds of `FloatMax`, so that the sum of the two in the middle does not overflow
  (`Moderate`). This is why a third of the largest float is the limit in `AlwaysEncodable`.

**Boot.** `EachMoves` states, for every pod, which of a handful of moves a step can be; the
invariants are preserved move by move. `SchemaFirst` holds because the table is never dropped
and `Migrate` is the only way from `migrating` to `serving`. `TimeInv` bounds a boot by its
calls: `BootsInBudget` asks that in every environment the two timeouts together are below the
startup probe's budget (5 s and 30 s against the 90 s of the
catalog's chart, whose default is 60 s). `ReportInv` says that what a crashed pod has
reported is what its environment makes `run` report, and `CorrectedOnce` that correcting all of
it leaves only the store's settings: `ReportedAtOnce`. `RolloutInv` says that ready pods serve
and that no pod of a broken environment gets beyond its configuration; `NoDelete`, by counting
pods, that a Deployment with `MaxUnavailable = 0` (the chart's value) then deletes none:
`RolloutStalls`. `PoolInv` says that no pod holds more connections than `PoolsFit` counts for it,
so all of them together hold no more than the sum that `PoolsFit` compares with the server's
limit, and strictly less while a pod has not filled its pool: `ServingNotStarved`. The two
sums are compared pod by pod (`SumMonotone`); that is an induction over the set of pods, done
with the sizes for which it fails (`Inductive`): a set of numbers that is not empty has a
smallest element. `Narrowed` is about the conversion to int32, which may wrap a size to a smaller
one and never to a larger; `BootAssumption` asks only that the sizes in use fit into it.

**Only model-checked:**

* the liveness properties `Recovers`, `WorkerFreed`, `Terminates` and `Completes`: fairness and
  ENABLED are out of the prover's reach.

Rounding of floats and the strings of JSON are outside the model, so nothing is shown of them.

## 5. Not modelled

`RequestID`, `Logging`, `SecurityHeaders` and `MaxBodyBytes` keep no state. `OnStateChange`
and `OnRetry` feed metrics. Telemetry is library I/O. The scorer's `config.py` raises on the
first bad value and keeps no state; its results are constants. Charts, policies and Terraform
are declarative. A restart of the catalog on the memory store loses its devices, as the code
warns when it starts. The profile scripts are unrelated. PostgreSQL, pgxpool, uvicorn, net/http, the Go runtime and the cluster are
external and appear only as the code uses them.

## 6. Plan

Done: every component of the services that keeps state or orders events: breaker, upstream
client, admission, timeout, lifecycle, catalog and gateway with their abstract registry, scorer
and boot.

Every safety property and every refinement the runs check is also proved, for all values of the
constants. What is left:

1. The safety half of the liveness properties: what can still be enabled when a scorer or a
   server has been told to stop.
2. The two hazards of `PROJECT.json` without a property: each needs a finer model of the
   probes or of the request that middleware outside `Timeout` holds.
