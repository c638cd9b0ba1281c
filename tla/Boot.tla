--------------------------------- MODULE Boot --------------------------------
(***************************************************************************)
(* The pods of the catalog boot, one beside the other, while a Deployment  *)
(* installs or updates them: each reads its environment with the           *)
(* accumulating Loader of internal/platform/config, opens its store and    *)
(* applies the schema (cmd/catalog/main.go, internal/catalog/postgres.go), *)
(* and is ready while its Ping succeeds.  A boot that fails ends the       *)
(* process with status 1 and the kubelet starts it again.                  *)
(*                                                                         *)
(* The database may fail and come back.  CREATE TABLE IF NOT EXISTS looks  *)
(* for the table first; when another session commits it in between, the    *)
(* statement fails on the catalog's unique index.                          *)
(***************************************************************************)
EXTENDS Integers, Sequences, FiniteSets, FiniteSetsExt, SequencesExt

CONSTANTS
    Old, New,         \* the pods of the running revision and of the new one
    Deployed,         \* the environment of the running revision
    Environments,     \* what the new revision may be configured with
    Replicas, MaxSurge, MaxUnavailable,      \* the Deployment
    MigrateTimeout,   \* of the context that Migrate is given
    StartupBudget,    \* periodSeconds * failureThreshold of the startup probe
    MaxConnections,   \* max_connections of the database
    MinConns,         \* connections that a pool keeps when it is idle
    DefaultMaxConns,  \* the pool's size unless DB_MAX_CONNS says otherwise
    DefaultTimeout,   \* default of DB_CONNECT_TIMEOUT
    Int32Half,        \* 2^31, scaled
    MaxOutages        \* bound: how often the database fails

ASSUME BootAssumption ==
    /\ Old \cap New = {} /\ IsFiniteSet(Old \cup New)
    /\ {Cardinality(Old), Cardinality(New)} \subseteq {Replicas}
    /\ {Replicas, MaxSurge, MaxUnavailable, MinConns, MaxOutages} \subseteq Nat
    /\ MaxSurge + MaxUnavailable > 0
    /\ {MigrateTimeout, StartupBudget, MaxConnections} \subseteq Nat \ {0}
    /\ {DefaultMaxConns, DefaultTimeout} \subseteq Nat \ {0}
    /\ Int32Half \in Nat /\ Int32Half > 3   \* the sizes that are asked for fit

-----------------------------------------------------------------------------
(* The environment.  One key stands for all the keys that are read with    *)
(* the same method of the Loader; a value is its text, "" when unset.      *)

Lookups == <<"OTEL_TRACE_SAMPLE_RATE", "DB_MAX_CONNS", "DB_CONNECT_TIMEOUT", "DB_MIGRATE_ON_BOOT">>
StoreKeys == {"CATALOG_STORE", "DATABASE_URL"}
Keys == Range(Lookups) \cup StoreKeys

\* What strconv and time make of the texts they understand.
parse == [
    OTEL_TRACE_SAMPLE_RATE |-> [t \in {"1"} |-> 1],
    DB_MAX_CONNS       |-> [t \in {"-1", "1", "3", "2^31", "2^32+1"} |->
                              CASE t = "-1" -> -1 [] t = "1" -> 1 [] t = "3" -> 3
                                [] t = "2^31" -> Int32Half [] OTHER -> 2 * Int32Half + 1],
    DB_CONNECT_TIMEOUT |-> [t \in {"0s", "1s"} |-> IF t = "0s" THEN 0 ELSE 1],
    DB_MIGRATE_ON_BOOT |-> [t \in {"true", "false"} |-> t = "true"]]

\* A DSN that pgxpool.ParseConfig accepts.
DSN == "postgres://"

\* Int, Float, Bool and Duration fail for this value of key.
rejects(env, key) ==
    /\ env[key] # ""
    /\ \/ env[key] \notin DOMAIN parse[key]
       \/ key = "DB_CONNECT_TIMEOUT" /\ parse[key][env[key]] <= 0

\* Their result.
lookup(env, key, def) ==
    IF env[key] = "" \/ rejects(env, key) THEN def ELSE parse[key][env[key]]

\* Seeded fault: the last failure replaces the ones before it.
Fault_failLast(errs, key) == <<key>>

fail(errs, key) == Append(errs, key)

\* The Loader's errors after the lookup of key.
after(errs, env, key) == IF rejects(env, key) THEN fail(errs, key) ELSE errs

\* Err: the failures of every lookup.
Err(env) ==
    after(after(after(after(<< >>, env, Lookups[1]), env, Lookups[2]), env, Lookups[3]), env, Lookups[4])

\* Seeded fault: without a DSN the catalog falls back to the memory store.
Fault_openStoreFallback(env) ==
    LET store == IF env["CATALOG_STORE"] = "" THEN "postgres" ELSE env["CATALOG_STORE"]
    IN  CASE store = "memory" \/ env["DATABASE_URL"] = "" -> [repo |-> "memory", errs |-> << >>]
          [] store = "postgres" /\ env["DATABASE_URL"] = DSN -> [repo |-> "postgres", errs |-> << >>]
          [] store = "postgres" -> [repo |-> "none", errs |-> <<"DATABASE_URL">>]
          [] OTHER -> [repo |-> "none", errs |-> <<"CATALOG_STORE">>]

\* openStore up to its first call to the database: the repository that it
\* opens, or what is wrong with the configuration.
openStore(env) ==
    LET store == IF env["CATALOG_STORE"] = "" THEN "postgres" ELSE env["CATALOG_STORE"]
    IN  CASE store = "memory" -> [repo |-> "memory", errs |-> << >>]
          [] store = "postgres" /\ env["DATABASE_URL"] = DSN -> [repo |-> "postgres", errs |-> << >>]
          [] store = "postgres" -> [repo |-> "none", errs |-> <<"DATABASE_URL">>]
          [] OTHER -> [repo |-> "none", errs |-> <<"CATALOG_STORE">>]

\* What run reports about the configuration before it gives up.
complaint(env) == IF Err(env) # << >> THEN Err(env) ELSE openStore(env).errs

int32(n) == ((n + Int32Half) % (2 * Int32Half)) - Int32Half

\* Seeded fault: the configured size is not handed to pgxpool, which chooses
\* its own.
Fault_maxConnsUnset(env) == DefaultMaxConns

\* The size of the pool: withDefaults and NewPostgresRepository.
maxConns(env) ==
    LET n == int32(lookup(env, "DB_MAX_CONNS", DefaultMaxConns))
    IN  IF n <= 0 THEN DefaultMaxConns ELSE n

connectTimeout(env) == lookup(env, "DB_CONNECT_TIMEOUT", DefaultTimeout)
migrateOnBoot(env) == lookup(env, "DB_MIGRATE_ON_BOOT", TRUE)

-----------------------------------------------------------------------------
VARIABLES
    environ,  \* the environment of the new revision
    pod,      \* the state of each pod
    db        \* the database: is it up, has it the table, outages so far

vars == <<environ, pod, db>>

Pods == Old \cup New
env(p) == IF p \in Old THEN Deployed ELSE environ

\* A pod is none, booting, opening its pool, migrating, serving, crashed,
\* draining or gone.
At(place) == {p \in Pods : pod[p].at = place}

\* A process that has just begun: the time since, the time in its current
\* call, the connections it holds, whether its migration saw the table, what
\* it reported, and the kubelet's view of its readiness.
Fresh(place) == [at |-> place, boot |-> 0, call |-> 0, held |-> 0, saw |-> FALSE,
                 errs |-> << >>, ready |-> FALSE]

Held == SumFunction([p \in Pods |-> pod[p].held])

\* Either the first installation, or an update of pods that serve.
Init ==
    /\ environ \in Environments
    /\ \/ /\ pod = [p \in Pods |-> Fresh(IF p \in Old THEN "gone" ELSE "none")]
          /\ db = [up |-> TRUE, table |-> FALSE, outages |-> 0]
       \/ /\ pod = [p \in Pods |-> IF p \in Old THEN [Fresh("serving") EXCEPT !.ready = TRUE, !.held = 1]
                                                ELSE Fresh("none")]
          /\ db = [up |-> TRUE, table |-> TRUE, outages |-> 0]

-----------------------------------------------------------------------------
(* A process boots.                                                        *)

\* run returns an error and main exits with status 1; the pool is closed.
Crashed(p, errs) == [pod EXCEPT ![p] = [Fresh("crashed") EXCEPT !.errs = errs]]

\* MarkStarted: the boot is over and Serve begins.
Started(p) == [pod[p] EXCEPT !.at = "serving", !.call = 0, !.saw = FALSE]

\* run from its beginning to the first call to the database.
Load(p) ==
    /\ pod[p].at = "booting"
    /\ pod' = IF complaint(env(p)) # << >>
              THEN Crashed(p, complaint(env(p)))
              ELSE IF openStore(env(p)).repo = "memory"
              THEN [pod EXCEPT ![p] = Started(p)]
              ELSE [pod EXCEPT ![p].at = "opening"]
    /\ UNCHANGED <<environ, db>>

\* Seeded fault: the migration's context has no deadline.
Fault_dueConnect(p) == pod[p].at = "opening" /\ pod[p].call = connectTimeout(env(p))

\* The context of the current call is done.
due(p) ==
    \/ pod[p].at = "opening" /\ pod[p].call = connectTimeout(env(p))
    \/ pod[p].at = "migrating" /\ pod[p].call = MigrateTimeout

\* The ping of NewPostgresRepository succeeds, on a new connection, and
\* Migrate begins, if it is asked for, by looking for the table.
Connect(p) ==
    /\ pod[p].at = "opening" /\ ~due(p)
    /\ db.up /\ Held < MaxConnections
    /\ pod' = [pod EXCEPT ![p] =
                 IF migrateOnBoot(env(p))
                 THEN [pod[p] EXCEPT !.at = "migrating", !.call = 0, !.held = 1, !.saw = db.table]
                 ELSE [Started(p) EXCEPT !.held = 1]]
    /\ UNCHANGED <<environ, db>>

\* It fails: the database is down, has no connection left, or is too slow.
ConnectFails(p) ==
    /\ pod[p].at = "opening"
    /\ ~db.up \/ Held = MaxConnections \/ due(p)
    /\ pod' = Crashed(p, << >>)
    /\ UNCHANGED <<environ, db>>

\* Migrate's Exec commits.
Migrate(p) ==
    /\ pod[p].at = "migrating" /\ ~due(p)
    /\ db.up /\ (db.table => pod[p].saw)
    /\ db' = [db EXCEPT !.table = TRUE]
    /\ pod' = [pod EXCEPT ![p] = Started(p)]
    /\ UNCHANGED environ

\* Seeded fault: a failed migration is logged and the boot goes on.
Fault_MigrateFailsOn(p) ==
    /\ pod[p].at = "migrating"
    /\ ~db.up \/ (db.table /\ ~pod[p].saw) \/ due(p)
    /\ pod' = [pod EXCEPT ![p] = Started(p)]
    /\ UNCHANGED <<environ, db>>

\* Migrate fails: the database is down, another session has committed the
\* table in the meantime, or time is up.
MigrateFails(p) ==
    /\ pod[p].at = "migrating"
    /\ ~db.up \/ (db.table /\ ~pod[p].saw) \/ due(p)
    /\ pod' = Crashed(p, << >>)
    /\ UNCHANGED <<environ, db>>

-----------------------------------------------------------------------------
(* A process serves.                                                       *)

\* Seeded fault: the ping does not open a connection when the pool is empty.
Fault_PingIdle(p) ==
    openStore(env(p)).repo = "memory" \/ (db.up /\ pod[p].held > 0)

\* Ping, on a connection of the pool or a new one; the memory store's always
\* succeeds.
Ping(p) ==
    \/ openStore(env(p)).repo = "memory"
    \/ db.up /\ (pod[p].held > 0 \/ Held < MaxConnections)

\* The kubelet asks /readyz.
Probe(p) ==
    /\ pod[p].at = "serving"
    /\ pod' = [pod EXCEPT ![p].ready = Ping(p)]
    /\ UNCHANGED <<environ, db>>

\* The load makes the pool open another connection.
Grow(p) ==
    /\ pod[p].at \in {"serving", "draining"} /\ openStore(env(p)).repo = "postgres"
    /\ db.up /\ Held < MaxConnections /\ pod[p].held < maxConns(env(p))
    /\ pod' = [pod EXCEPT ![p].held = @ + 1]
    /\ UNCHANGED <<environ, db>>

\* The pool closes a connection that is idle or too old.
Shrink(p) ==
    /\ pod[p].at \in {"serving", "draining"} /\ pod[p].held > MinConns
    /\ pod' = [pod EXCEPT ![p].held = @ - 1]
    /\ UNCHANGED <<environ, db>>

\* A pod that was deleted has drained and exits; its pool is closed.
Exit(p) ==
    /\ pod[p].at = "draining"
    /\ pod' = [pod EXCEPT ![p] = Fresh("gone")]
    /\ UNCHANGED <<environ, db>>

-----------------------------------------------------------------------------
(* The cluster: the kubelet, the Deployment and the database.              *)

Restart(p) ==
    /\ pod[p].at = "crashed"
    /\ pod' = [pod EXCEPT ![p] = [Fresh("booting") EXCEPT !.errs = pod[p].errs]]
    /\ UNCHANGED <<environ, db>>

\* Pods that count for the Deployment: one that is being deleted does not.
Counted == Pods \ (At("none") \cup At("draining") \cup At("gone"))
Available == {p \in Counted : pod[p].ready}

Create(p) ==
    /\ p \in New /\ pod[p].at = "none"
    /\ Cardinality(Counted) < Replicas + MaxSurge
    /\ pod' = [pod EXCEPT ![p] = Fresh("booting")]
    /\ UNCHANGED <<environ, db>>

\* An old pod goes when the others suffice; one that is not available goes as
\* soon as no new pod that is to become available is needed instead of it.
Delete(p) ==
    /\ p \in Old /\ p \in Counted
    /\ Cardinality(Counted) - Cardinality((New \cap Counted) \ Available) > Replicas - MaxUnavailable
    /\ pod[p].ready => Cardinality(Available) > Replicas - MaxUnavailable
    /\ pod' = [pod EXCEPT ![p].at = "draining", ![p].ready = FALSE]
    /\ UNCHANGED <<environ, db>>

DatabaseFails ==
    /\ db.up /\ db.outages < MaxOutages
    /\ db' = [db EXCEPT !.up = FALSE, !.outages = @ + 1]
    /\ pod' = [p \in Pods |-> [pod[p] EXCEPT !.held = 0]]
    /\ UNCHANGED environ

DatabaseReturns ==
    /\ ~db.up
    /\ db' = [db EXCEPT !.up = TRUE]
    /\ UNCHANGED <<environ, pod>>

\* Time passes for the calls to the database; the rest of a boot takes none.
Calling == At("opening") \cup At("migrating")

Tick ==
    /\ Calling # {} /\ At("booting") = {}
    /\ \A p \in Calling : ~due(p) /\ pod[p].boot < StartupBudget
    /\ pod' = [p \in Pods |-> IF p \in Calling
                              THEN [pod[p] EXCEPT !.boot = @ + 1, !.call = @ + 1]
                              ELSE pod[p]]
    /\ UNCHANGED <<environ, db>>

Booting(p) == Load(p) \/ Connect(p) \/ ConnectFails(p) \/ Migrate(p) \/ MigrateFails(p)
Running(p) == Probe(p) \/ Grow(p) \/ Shrink(p) \/ Exit(p)
Managing(p) == Restart(p) \/ Create(p) \/ Delete(p)

Next ==
    \/ \E p \in Pods : Booting(p) \/ Running(p) \/ Managing(p)
    \/ DatabaseFails \/ DatabaseReturns \/ Tick

Spec == Init /\ [][Next]_vars

\* Every process, the kubelet and the Deployment go on with what they have to
\* do, an outage ends, and a database that is asked again and again while it
\* is up answers in time at last.
FairSpec ==
    /\ Spec
    /\ WF_vars(DatabaseReturns)
    /\ \A p \in Pods :
         /\ WF_vars(Load(p) \/ ConnectFails(p) \/ MigrateFails(p) \/ Exit(p))
         /\ WF_vars(Managing(p)) /\ WF_vars(Probe(p))
         /\ p \in New => SF_vars(Connect(p)) /\ SF_vars(Migrate(p))

-----------------------------------------------------------------------------
(* Properties.                                                             *)

\* "Its schema has to exist before it serves traffic": whatever order the
\* replicas migrate in and however the database fails meanwhile, a pod that
\* was told to migrate does not serve from a database without the table.
SchemaBeforeServing ==
    \A p \in At("serving") :
        openStore(env(p)).repo = "postgres" /\ env(p)["DB_MIGRATE_ON_BOOT"] \in {"", "true"}
            => db.table

\* The boot decides before the startup probe gives up: "a slow migration is
\* not mistaken for a hung process and restarted in a loop".
BootInBudget == \A p \in Calling : pod[p].boot < StartupBudget

\* An environment that the service is meant to refuse: a value that does not
\* parse, a duration that is not positive, an unknown store, or PostgreSQL
\* without a usable DSN.
Broken(e) ==
    \/ \E key \in Range(Lookups) : e[key] \in {"junk", "0s"}
    \/ e["CATALOG_STORE"] \notin {"", "memory", "postgres"}
    \/ e["CATALOG_STORE"] # "memory" /\ e["DATABASE_URL"] # DSN

\* "a bad rollout stalls instead of replacing healthy pods with broken ones":
\* with a broken environment no pod ever serves from it and no old pod goes.
BadRolloutStalls ==
    Broken(environ) => At("serving") \subseteq Old /\ At("draining") = {}

\* "a single boot reports all configuration problems at once rather than one
\* per restart": once what a boot reported is corrected, only the choice of
\* the store, which the Loader does not look at, can still be wrong.
Corrected(e, errs) ==
    [key \in Keys |-> IF key \notin Range(errs) THEN e[key]
                      ELSE IF key = "DATABASE_URL" THEN DSN ELSE ""]

OneReport ==
    \A p \in At("crashed") :
        pod[p].errs # << >> =>
            Range(complaint(Corrected(env(p), pod[p].errs))) \subseteq StoreKeys

\* The pools of both revisions together fit into max_connections.  An update
\* with maxSurge 1 needs that much: the pods that are being deleted hold their
\* connections while the last new ones open theirs.
Asked(p) == IF env(p)["DB_MAX_CONNS"] \in {"1", "3"} THEN parse["DB_MAX_CONNS"][env(p)["DB_MAX_CONNS"]]
            ELSE DefaultMaxConns
PoolsFit == SumFunction([p \in Pods |-> Asked(p)]) <= MaxConnections

\* Then no pod that serves is without a connection, except in an outage.
NoneStarved == PoolsFit /\ db.up => \A p \in At("serving") : Ping(p)

\* With an environment that is not broken and room for its pools, the update
\* completes, through outages, lost races and restarts.
Completes ==
    ~Broken(environ) /\ PoolsFit
        ~> At("serving") = New /\ \A p \in New : pod[p].ready
==============================================================================
