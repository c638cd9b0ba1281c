----------------------------- MODULE BootProofs ------------------------------
(***************************************************************************)
(* Proofs about Boot: what a step makes of one pod (Moves), and from that  *)
(* the schema, the startup budget, the stalled rollout and the report.     *)
(***************************************************************************)
EXTENDS Boot, FiniteSetTheorems, WellFoundedInduction, TLAPS

-----------------------------------------------------------------------------
(* Inductive invariants.                                                   *)

Places == {"none", "booting", "opening", "migrating", "serving", "crashed", "draining", "gone"}

Processes ==
    [at : Places, boot : Nat, call : Nat, held : Nat, saw : BOOLEAN, errs : Seq(Keys),
     ready : BOOLEAN]

TypeInv ==
    /\ pod \in [Pods -> Processes]
    /\ db \in [up : BOOLEAN, table : BOOLEAN, outages : Nat]

\* The time of a boot is the time of its calls, and no call outlasts its context.
TimeInv ==
    \A p \in Pods :
        /\ pod[p].at = "booting" => pod[p].boot = 0 /\ pod[p].call = 0
        /\ pod[p].at = "opening" =>
             pod[p].boot = pod[p].call /\ pod[p].call <= connectTimeout(env(p))
        /\ pod[p].at = "migrating" =>
             /\ pod[p].boot <= connectTimeout(env(p)) + pod[p].call
             /\ pod[p].call <= MigrateTimeout

\* Only pods that serve are ready, and from a broken environment none gets
\* beyond its configuration.
RolloutInv ==
    /\ \A p \in Pods : pod[p].ready => pod[p].at = "serving"
    /\ Broken(environ) => \A p \in New : pod[p].at \in {"none", "booting", "crashed"}
    /\ Broken(environ) => At("draining") = {}

\* What a crashed pod has reported is what its environment makes run report.
ReportInv ==
    \A p \in Pods : pod[p].at = "crashed" => pod[p].errs \in {<< >>, complaint(env(p))}

-----------------------------------------------------------------------------
(* The environment.                                                        *)

LEMMA Keyed ==
    /\ Lookups[1] = "OTEL_TRACE_SAMPLE_RATE" /\ Lookups[2] = "DB_MAX_CONNS"
    /\ Lookups[3] = "DB_CONNECT_TIMEOUT" /\ Lookups[4] = "DB_MIGRATE_ON_BOOT"
    /\ Range(Lookups) = {Lookups[1], Lookups[2], Lookups[3], Lookups[4]}
    /\ Range(Lookups) \subseteq Keys /\ StoreKeys \subseteq Keys
BY DEF Lookups, Range, Keys

\* One lookup: errors are added behind the others, and only for a bad value.
LEMMA After ==
    ASSUME NEW errs \in Seq(Keys), NEW e, NEW key \in Keys
    PROVE  /\ after(errs, e, key) \in Seq(Keys)
           /\ rejects(e, key) => Range(after(errs, e, key)) = Range(errs) \cup {key}
           /\ ~rejects(e, key) => after(errs, e, key) = errs
<1>1. Append(errs, key) \in Seq(Keys)
  OBVIOUS
<1>2. Range(Append(errs, key)) = Range(errs) \cup {key}
  <2>1. DOMAIN errs = 1 .. Len(errs) /\ DOMAIN Append(errs, key) = 1 .. Len(errs) + 1
        /\ Len(errs) \in Nat
    OBVIOUS
  <2>2. \A i \in 1 .. Len(errs) : Append(errs, key)[i] = errs[i]
    OBVIOUS
  <2>3. Append(errs, key)[Len(errs) + 1] = key
    OBVIOUS
  <2>4. 1 .. Len(errs) + 1 = (1 .. Len(errs)) \cup {Len(errs) + 1}
    BY <2>1
  <2> DEFINE s == Append(errs, key)
             n == Len(errs)
  <2> HIDE DEF s, n
  <2>5. ASSUME NEW v PROVE v \in Range(s) <=> v \in Range(errs) \cup {key}
    BY <2>1, <2>2, <2>3, <2>4 DEF Range, s, n
  <2> QED BY <2>5 DEF s
<1> QED BY <1>1, <1>2 DEF after, fail

\* Err reports exactly the lookups that fail.
LEMMA Errors ==
    ASSUME NEW e
    PROVE  /\ Err(e) \in Seq(Keys)
           /\ Range(Err(e)) = {key \in Range(Lookups) : rejects(e, key)}
           /\ Err(e) = << >> <=> \A key \in Range(Lookups) : ~rejects(e, key)
<1> DEFINE a == after(<< >>, e, Lookups[1])
           b == after(a, e, Lookups[2])
           c == after(b, e, Lookups[3])
           d == after(c, e, Lookups[4])
<1>1. /\ Lookups[1] \in Keys /\ Lookups[2] \in Keys /\ Lookups[3] \in Keys /\ Lookups[4] \in Keys
      /\ Range(Lookups) = {Lookups[1], Lookups[2], Lookups[3], Lookups[4]}
  BY Keyed
<1>2. << >> \in Seq(Keys) /\ Range(<< >>) = {}
  BY DEF Range
<1>3. /\ a \in Seq(Keys)
      /\ rejects(e, Lookups[1]) => Range(a) = {Lookups[1]}
      /\ ~rejects(e, Lookups[1]) => a = << >>
  <2> DEFINE o == << >>
  <2>1. o \in Seq(Keys) /\ Range(o) = {}
    BY <1>2
  <2> HIDE DEF o
  <2>2. /\ after(o, e, Lookups[1]) \in Seq(Keys)
        /\ rejects(e, Lookups[1]) => Range(after(o, e, Lookups[1])) = Range(o) \cup {Lookups[1]}
        /\ ~rejects(e, Lookups[1]) => after(o, e, Lookups[1]) = o
    BY <1>1, <2>1, After
  <2> QED BY <2>1, <2>2 DEF o
<1> HIDE DEF a
<1>4. /\ b \in Seq(Keys)
      /\ rejects(e, Lookups[2]) => Range(b) = Range(a) \cup {Lookups[2]}
      /\ ~rejects(e, Lookups[2]) => b = a
  BY <1>1, <1>3, After
<1> HIDE DEF b
<1>5. /\ c \in Seq(Keys)
      /\ rejects(e, Lookups[3]) => Range(c) = Range(b) \cup {Lookups[3]}
      /\ ~rejects(e, Lookups[3]) => c = b
  BY <1>1, <1>4, After
<1> HIDE DEF c
<1>6. /\ d \in Seq(Keys)
      /\ rejects(e, Lookups[4]) => Range(d) = Range(c) \cup {Lookups[4]}
      /\ ~rejects(e, Lookups[4]) => d = c
  BY <1>1, <1>5, After
<1>7. Err(e) = d
  BY DEF Err, a, b, c
<1> HIDE DEF d
<1>8. Range(d) = {key \in Range(Lookups) : rejects(e, key)}
  BY <1>1, <1>2, <1>3, <1>4, <1>5, <1>6
<1>9. d = << >> <=> \A key \in Range(Lookups) : ~rejects(e, key)
  BY <1>1, <1>2, <1>3, <1>4, <1>5, <1>6, <1>8
<1> QED BY <1>6, <1>7, <1>8, <1>9

LEMMA Stores ==
    ASSUME NEW e
    PROVE  /\ openStore(e).errs \in Seq(Keys) /\ Range(openStore(e).errs) \subseteq StoreKeys
           /\ openStore(e).errs = << >> =>
                /\ e["CATALOG_STORE"] \in {"", "memory", "postgres"}
                /\ e["CATALOG_STORE"] # "memory" => e["DATABASE_URL"] = DSN
<1>1. \A key \in StoreKeys : <<key>> \in Seq(Keys) /\ Range(<<key>>) = {key} /\ <<key>> # << >>
  BY Keyed DEF Range
<1>2. << >> \in Seq(Keys) /\ Range(<< >>) = {}
  BY DEF Range
<1>3. "DATABASE_URL" \in StoreKeys /\ "CATALOG_STORE" \in StoreKeys
  BY DEF StoreKeys
<1> QED BY <1>1, <1>2, <1>3 DEF openStore

LEMMA Complaints ==
    ASSUME NEW e
    PROVE  complaint(e) \in Seq(Keys)
BY Errors, Stores DEF complaint

\* A broken environment is complained about.
LEMMA BrokenComplains ==
    ASSUME NEW e, Broken(e)
    PROVE  complaint(e) # << >>
<1>1. CASE \E key \in Range(Lookups) : e[key] \in {"junk", "0s"}
  <2>1. PICK key \in Range(Lookups) : e[key] \in {"junk", "0s"}
    BY <1>1
  <2>2. rejects(e, key)
    <3>1. e[key] # ""
      BY <2>1
    <3>2. /\ DOMAIN parse["OTEL_TRACE_SAMPLE_RATE"] = {"1"}
          /\ DOMAIN parse["DB_MAX_CONNS"] = {"-1", "1", "3", "2^31", "2^32+1"}
          /\ DOMAIN parse["DB_CONNECT_TIMEOUT"] = {"0s", "1s"}
          /\ DOMAIN parse["DB_MIGRATE_ON_BOOT"] = {"true", "false"}
          /\ parse["DB_CONNECT_TIMEOUT"]["0s"] = 0
      BY DEF parse
    <3>3. e[key] \in DOMAIN parse[key] => key = "DB_CONNECT_TIMEOUT" /\ e[key] = "0s"
      BY <2>1, <3>2, Keyed
    <3>4. CASE e[key] \in DOMAIN parse[key]
      <4>1. key = "DB_CONNECT_TIMEOUT" /\ parse[key][e[key]] = 0
        BY <3>2, <3>3, <3>4
      <4>2. parse[key][e[key]] <= 0
        BY <4>1
      <4> QED BY <3>1, <4>1, <4>2, Zenon DEF rejects
    <3>5. CASE e[key] \notin DOMAIN parse[key]
      BY <3>1, <3>5, Zenon DEF rejects
    <3> QED BY <3>4, <3>5
  <2> QED BY <2>2, Errors DEF complaint
<1>2. CASE \/ e["CATALOG_STORE"] \notin {"", "memory", "postgres"}
           \/ e["CATALOG_STORE"] # "memory" /\ e["DATABASE_URL"] # DSN
  BY <1>2, Stores DEF complaint
<1> QED BY <1>1, <1>2 DEF Broken

\* Corrected as it was reported, only the store can still be wrong.
LEMMA CorrectedOnce ==
    ASSUME NEW e, complaint(e) # << >>
    PROVE  Range(complaint(Corrected(e, complaint(e)))) \subseteq StoreKeys
<1> DEFINE f == Corrected(e, complaint(e))
<1>1. ASSUME NEW key \in Range(Lookups) PROVE ~rejects(f, key)
  <2>1. key \in Keys /\ key # "DATABASE_URL" /\ key \notin StoreKeys
    BY Keyed DEF StoreKeys
  <2>2. f[key] = IF key \notin Range(complaint(e)) THEN e[key] ELSE ""
    BY <2>1 DEF Corrected
  <2>3. CASE key \in Range(complaint(e))
    BY <2>2, <2>3 DEF rejects
  <2>4. CASE key \notin Range(complaint(e))
    <3>1. ~rejects(e, key)
      BY <2>4, Errors DEF complaint
    <3>2. f[key] = e[key]
      BY <2>2, <2>4
    <3> QED BY <3>1, <3>2 DEF rejects
  <2> QED BY <2>3, <2>4
<1>2. complaint(f) = openStore(f).errs
  BY <1>1, Errors DEF complaint
<1> QED BY <1>2, Stores

LEMMA Timeouts ==
    ASSUME NEW e
    PROVE  connectTimeout(e) \in Nat
<1>1. /\ DOMAIN parse["DB_CONNECT_TIMEOUT"] = {"0s", "1s"}
      /\ parse["DB_CONNECT_TIMEOUT"]["0s"] = 0 /\ parse["DB_CONNECT_TIMEOUT"]["1s"] = 1
  BY DEF parse
<1>2. DefaultTimeout \in Nat
  BY BootAssumption
<1> DEFINE k == "DB_CONNECT_TIMEOUT"
<1>3. ~(e[k] = "" \/ rejects(e, k)) => e[k] \in DOMAIN parse[k]
  BY DEF rejects
<1>4. CASE e[k] = "" \/ rejects(e, k)
  BY <1>2, <1>4 DEF connectTimeout, lookup
<1>5. CASE ~(e[k] = "" \/ rejects(e, k))
  <2>1. connectTimeout(e) = parse[k][e[k]]
    BY <1>5 DEF connectTimeout, lookup
  <2>2. parse[k][e[k]] \in {0, 1}
    BY <1>1, <1>3, <1>5
  <2> QED BY <2>1, <2>2
<1> QED BY <1>4, <1>5

\* An environment that asks for the migration.
Told(e) == e["DB_MIGRATE_ON_BOOT"] \in {"", "true"}

LEMMA Migrates ==
    ASSUME NEW e, Told(e)
    PROVE  migrateOnBoot(e)
<1> DEFINE k == "DB_MIGRATE_ON_BOOT"
<1>1. CASE e[k] = ""
  BY <1>1 DEF migrateOnBoot, lookup
<1>2. CASE e[k] = "true"
  <2>1. DOMAIN parse[k] = {"true", "false"} /\ parse[k]["true"] = TRUE
    BY DEF parse
  <2>2. ~rejects(e, k) /\ e[k] # ""
    BY <1>2, <2>1 DEF rejects
  <2>3. lookup(e, k, TRUE) = parse[k][e[k]]
    BY <2>2, Zenon DEF lookup
  <2> QED BY <1>2, <2>1, <2>3, Zenon DEF migrateOnBoot
<1> QED BY <1>1, <1>2 DEF Told

-----------------------------------------------------------------------------
(* What a step makes of pod p: q before it and x after it.                 *)

Waits(q, x) ==
    x.at = q.at /\ x.boot = q.boot /\ x.call = q.call /\ x.errs = q.errs

LoadFails(p, q, x) ==
    q.at = "booting" /\ x.at = "crashed" /\ x.errs = complaint(env(p))

Loads(p, q, x) ==
    /\ q.at = "booting" /\ complaint(env(p)) = << >>
    /\ \/ x.at = "serving" /\ openStore(env(p)).repo = "memory"
       \/ x.at = "opening" /\ x.boot = q.boot /\ x.call = q.call

Opens(p, q, x) ==
    /\ q.at = "opening"
    /\ \/ x.at = "serving" /\ ~migrateOnBoot(env(p))
       \/ x.at = "migrating" /\ x.boot = q.boot /\ x.call = 0

Migrated(q, x) == q.at = "migrating" /\ x.at = "serving" /\ db'.table = TRUE

CallFails(q, x) == q.at \in {"opening", "migrating"} /\ x.at = "crashed" /\ x.errs = << >>

Leaves(p, q, x) ==
    \/ q.at = "draining" /\ x.at = "gone"
    \/ Delete(p) /\ x.at = "draining"

Boots(q, x) == q.at \in {"none", "crashed"} /\ x.at = "booting" /\ x.boot = 0 /\ x.call = 0

Ticks(p, q, x) ==
    /\ q.at \in {"opening", "migrating"} /\ ~due(p)
    /\ x.at = q.at /\ x.boot = q.boot + 1 /\ x.call = q.call + 1

Moves(p, q, x) ==
    \/ Waits(q, x) \/ LoadFails(p, q, x) \/ Loads(p, q, x) \/ Opens(p, q, x) \/ Migrated(q, x)
    \/ CallFails(q, x) \/ Leaves(p, q, x) \/ Boots(q, x) \/ Ticks(p, q, x)

\* Readiness is the probe's, or gone, or as it was.
Readies(q, x) ==
    \/ x.ready = FALSE
    \/ x.at = "serving"
    \/ x.ready = q.ready /\ q.at # "serving"

\* A process that has just begun, with what an earlier one reported.
LEMMA Begins ==
    ASSUME NEW place \in Places, NEW errs \in Seq(Keys)
    PROVE  LET x == [Fresh(place) EXCEPT !.errs = errs]
           IN  /\ Fresh(place) \in Processes /\ x \in Processes
               /\ Fresh(place).at = place /\ Fresh(place).boot = 0 /\ Fresh(place).call = 0
               /\ Fresh(place).ready = FALSE
               /\ x.at = place /\ x.boot = 0 /\ x.call = 0 /\ x.errs = errs /\ x.ready = FALSE
<1>1. << >> \in Seq(Keys) /\ 0 \in Nat
  OBVIOUS
<1> QED BY <1>1 DEF Fresh, Processes

LEMMA Serves ==
    ASSUME TypeInv, NEW p \in Pods
    PROVE  LET x == Started(p)
           IN  /\ x \in Processes /\ x.at = "serving" /\ x.errs = pod[p].errs
               /\ x.held = pod[p].held
               /\ [x EXCEPT !.held = 1] \in Processes
               /\ [x EXCEPT !.held = 1].at = "serving" /\ [x EXCEPT !.held = 1].errs = pod[p].errs
<1> DEFINE q == pod[p]
           y == [q EXCEPT !.at = "serving"]
           z == [y EXCEPT !.call = 0]
<1>1. q \in Processes /\ "serving" \in Places /\ 0 \in Nat /\ 1 \in Nat /\ FALSE \in BOOLEAN
  BY DEF TypeInv, Places
<1>2. Started(p) = [z EXCEPT !.saw = FALSE]
  BY <1>1 DEF Started, Processes
<1> HIDE DEF q
<1>3. y \in Processes /\ y.at = "serving" /\ y.errs = q.errs /\ y.held = q.held
  BY <1>1 DEF Processes
<1> HIDE DEF y
<1>4. z \in Processes /\ z.at = "serving" /\ z.errs = q.errs /\ z.held = q.held
  BY <1>1, <1>3 DEF Processes
<1> HIDE DEF z
<1>5. LET x == Started(p) IN x \in Processes /\ x.at = "serving" /\ x.errs = q.errs /\ x.held = q.held
  BY <1>1, <1>2, <1>4 DEF Processes
<1> DEFINE x == Started(p)
<1> HIDE DEF x
<1>6. x \in Processes /\ x.at = "serving" /\ x.errs = q.errs /\ x.held = q.held
  BY <1>5 DEF x
<1>7. LET v == [x EXCEPT !.held = 1] IN v \in Processes /\ v.at = "serving" /\ v.errs = q.errs
  BY <1>1, <1>6 DEF Processes
<1> QED BY <1>6, <1>7 DEF x, q

\* Only pod p moves.
Alone(p) == \E x \in Processes : pod' = [pod EXCEPT ![p] = x] /\ Moves(p, pod[p], x) /\ Readies(pod[p], x)

LEMMA LoadStep ==
    ASSUME TypeInv, NEW p \in Pods, Load(p)
    PROVE  Alone(p)
<1> DEFINE q == pod[p]
<1>0. q \in Processes /\ q.at = "booting"
  BY DEF TypeInv, Load
<1>1. CASE complaint(env(p)) # << >>
  <2> DEFINE x == [Fresh("crashed") EXCEPT !.errs = complaint(env(p))]
  <2>1. x \in Processes /\ x.at = "crashed" /\ x.errs = complaint(env(p)) /\ x.ready = FALSE
    BY Begins, Complaints, ZenonT(60) DEF Places
  <2>2. pod' = [pod EXCEPT ![p] = x]
    BY <1>1 DEF Load, Crashed
  <2> HIDE DEF x, q
  <2>3. Moves(p, q, x) /\ Readies(q, x)
    BY <1>0, <2>1, Zenon DEF Moves, LoadFails, Readies
  <2> QED BY <2>1, <2>2, <2>3, Zenon DEF Alone, q
<1>2. CASE complaint(env(p)) = << >> /\ openStore(env(p)).repo = "memory"
  <2> DEFINE x == Started(p)
  <2>1. x \in Processes /\ x.at = "serving"
    BY Serves
  <2>2. pod' = [pod EXCEPT ![p] = x]
    BY <1>2 DEF Load
  <2> HIDE DEF x, q
  <2>3. Moves(p, q, x) /\ Readies(q, x)
    BY <1>0, <1>2, <2>1, Zenon DEF Moves, Loads, Readies
  <2> QED BY <2>1, <2>2, <2>3, Zenon DEF Alone, q
<1>3. CASE complaint(env(p)) = << >> /\ openStore(env(p)).repo # "memory"
  <2> DEFINE x == [q EXCEPT !.at = "opening"]
  <2>1. /\ x \in Processes /\ x.at = "opening" /\ x.boot = q.boot /\ x.call = q.call
        /\ x.ready = q.ready
    BY <1>0 DEF Processes, Places
  <2>2. pod' = [pod EXCEPT ![p] = x]
    BY <1>3 DEF Load
  <2>4. q.at # "serving"
    BY <1>0
  <2> HIDE DEF x, q
  <2>3. Moves(p, q, x) /\ Readies(q, x)
    BY <1>0, <1>3, <2>1, <2>4, Zenon DEF Moves, Loads, Readies
  <2> QED BY <2>1, <2>2, <2>3, Zenon DEF Alone, q
<1> QED BY <1>1, <1>2, <1>3

LEMMA ConnectStep ==
    ASSUME TypeInv, NEW p \in Pods, Connect(p)
    PROVE  Alone(p)
<1> DEFINE q == pod[p]
<1>0. q \in Processes /\ q.at = "opening" /\ q.at # "serving"
  BY DEF TypeInv, Connect
<1>1. CASE migrateOnBoot(env(p))
  <2> DEFINE a == [q EXCEPT !.at = "migrating"]
             b == [a EXCEPT !.call = 0]
             c == [b EXCEPT !.held = 1]
             x == [c EXCEPT !.saw = db.table]
  <2>1. pod' = [pod EXCEPT ![p] = [q EXCEPT !.at = "migrating", !.call = 0, !.held = 1, !.saw = db.table]]
    BY <1>1 DEF Connect
  <2>2. x = [q EXCEPT !.at = "migrating", !.call = 0, !.held = 1, !.saw = db.table]
    BY <1>0 DEF Processes
  <2> HIDE DEF q
  <2>3. a \in Processes /\ a.at = "migrating" /\ a.boot = q.boot /\ a.ready = q.ready
    BY <1>0 DEF Processes, Places
  <2> HIDE DEF a
  <2>4. b \in Processes /\ b.at = "migrating" /\ b.boot = q.boot /\ b.call = 0 /\ b.ready = q.ready
    BY <2>3 DEF Processes
  <2> HIDE DEF b
  <2>5. c \in Processes /\ c.at = "migrating" /\ c.boot = q.boot /\ c.call = 0 /\ c.ready = q.ready
    BY <2>4 DEF Processes
  <2> HIDE DEF c
  <2>6. x \in Processes /\ x.at = "migrating" /\ x.boot = q.boot /\ x.call = 0 /\ x.ready = q.ready
    BY <2>5 DEF Processes, TypeInv
  <2>7. pod' = [pod EXCEPT ![p] = x]
    BY <2>1, <2>2
  <2> HIDE DEF x
  <2>8. Moves(p, q, x) /\ Readies(q, x)
    BY <1>0, <2>6, Zenon DEF Moves, Opens, Readies
  <2> QED BY <2>6, <2>7, <2>8, Zenon DEF Alone, q
<1>2. CASE ~migrateOnBoot(env(p))
  <2> DEFINE x == [Started(p) EXCEPT !.held = 1]
  <2>1. x \in Processes /\ x.at = "serving"
    BY Serves
  <2>2. pod' = [pod EXCEPT ![p] = x]
    BY <1>2 DEF Connect
  <2> HIDE DEF x, q
  <2>3. Moves(p, q, x) /\ Readies(q, x)
    BY <1>0, <1>2, <2>1, Zenon DEF Moves, Opens, Readies
  <2> QED BY <2>1, <2>2, <2>3, Zenon DEF Alone, q
<1> QED BY <1>1, <1>2

LEMMA CrashStep ==
    ASSUME TypeInv, NEW p \in Pods, ConnectFails(p) \/ MigrateFails(p)
    PROVE  Alone(p)
<1> DEFINE q == pod[p]
           x == [Fresh("crashed") EXCEPT !.errs = << >>]
<1>1. q.at \in {"opening", "migrating"} /\ pod' = [pod EXCEPT ![p] = x]
  BY DEF ConnectFails, MigrateFails, Crashed
<1>2. << >> \in Seq(Keys) /\ "crashed" \in Places
  BY DEF Places
<1>3. x \in Processes /\ x.at = "crashed" /\ x.errs = << >> /\ x.ready = FALSE
  BY <1>2, Begins, ZenonT(60)
<1> HIDE DEF x, q
<1>4. Moves(p, q, x) /\ Readies(q, x)
  BY <1>1, <1>3, Zenon DEF Moves, CallFails, Readies
<1> QED BY <1>1, <1>3, <1>4, Zenon DEF Alone, q

LEMMA MigrateStep ==
    ASSUME TypeInv, NEW p \in Pods, Migrate(p)
    PROVE  Alone(p)
<1> DEFINE q == pod[p]
           x == Started(p)
<1>1. q.at = "migrating" /\ pod' = [pod EXCEPT ![p] = x]
  BY DEF Migrate
<1>2. db'.table = TRUE
  BY DEF Migrate, TypeInv
<1>3. x \in Processes /\ x.at = "serving"
  BY Serves
<1> HIDE DEF x, q
<1>4. Moves(p, q, x) /\ Readies(q, x)
  BY <1>1, <1>2, <1>3, Zenon DEF Moves, Migrated, Readies
<1> QED BY <1>1, <1>3, <1>4, Zenon DEF Alone, q

LEMMA RunStep ==
    ASSUME TypeInv, NEW p \in Pods, Running(p)
    PROVE  Alone(p)
<1> DEFINE q == pod[p]
<1>0. q \in Processes
  BY DEF TypeInv
<1>1. CASE Probe(p)
  <2> DEFINE x == [q EXCEPT !.ready = Ping(p)]
  <2>1. Ping(p) \in BOOLEAN
    BY DEF Ping
  <2>2. pod' = [pod EXCEPT ![p] = x] /\ q.at = "serving"
    BY <1>1 DEF Probe
  <2> HIDE DEF q
  <2>3. x \in Processes /\ Waits(q, x) /\ x.at = q.at
    BY <1>0, <2>1 DEF Processes, Waits
  <2> HIDE DEF x
  <2>4. Moves(p, q, x) /\ Readies(q, x)
    BY <2>2, <2>3, Zenon DEF Moves, Readies
  <2> QED BY <2>2, <2>3, <2>4, Zenon DEF Alone, q
<1>2. CASE Grow(p) \/ Shrink(p)
  <2>1. PICK h \in Nat : pod' = [pod EXCEPT ![p] = [q EXCEPT !.held = h]]
    <3>1. q.held \in Nat /\ q.held + 1 \in Nat /\ MinConns \in Nat
      BY <1>0, BootAssumption, SMTT(40) DEF Processes
    <3>2. CASE Grow(p)
      BY <3>1, <3>2 DEF Grow
    <3>3. CASE Shrink(p)
      <4>1. q.held - 1 \in Nat
        BY <3>1, <3>3 DEF Shrink
      <4> QED BY <3>3, <4>1 DEF Shrink
    <3> QED BY <1>2, <3>2, <3>3
  <2> DEFINE x == [q EXCEPT !.held = h]
  <2> HIDE DEF q
  <2>2. x \in Processes /\ Waits(q, x) /\ x.at = q.at /\ x.ready = q.ready
    BY <1>0 DEF Processes, Waits
  <2> HIDE DEF x
  <2>3. Moves(p, q, x) /\ Readies(q, x)
    BY <2>2, Zenon DEF Moves, Readies
  <2>4. pod' = [pod EXCEPT ![p] = x]
    BY <2>1 DEF x
  <2> QED BY <2>2, <2>3, <2>4, Zenon DEF Alone, q
<1>3. CASE Exit(p)
  <2> DEFINE x == Fresh("gone")
  <2>1. pod' = [pod EXCEPT ![p] = x] /\ q.at = "draining"
    BY <1>3 DEF Exit
  <2>2. << >> \in Seq(Keys) /\ "gone" \in Places
    BY DEF Places
  <2>3. x \in Processes /\ x.at = "gone" /\ x.ready = FALSE
    BY <2>2, Begins
  <2> HIDE DEF x, q
  <2>4. Moves(p, q, x) /\ Readies(q, x)
    BY <2>1, <2>3, Zenon DEF Moves, Leaves, Readies
  <2> QED BY <2>1, <2>3, <2>4, Zenon DEF Alone, q
<1> QED BY <1>1, <1>2, <1>3 DEF Running

LEMMA ManageStep ==
    ASSUME TypeInv, NEW p \in Pods, Managing(p)
    PROVE  Alone(p)
<1> DEFINE q == pod[p]
<1>0. q \in Processes
  BY DEF TypeInv
<1>1. << >> \in Seq(Keys) /\ "booting" \in Places /\ "draining" \in Places /\ q.errs \in Seq(Keys)
  BY <1>0 DEF Places, Processes
<1>2. CASE Restart(p)
  <2> DEFINE e == q.errs
             x == [Fresh("booting") EXCEPT !.errs = e]
  <2>1. pod' = [pod EXCEPT ![p] = x] /\ q.at \in {"none", "crashed"} /\ e \in Seq(Keys)
    BY <1>1, <1>2 DEF Restart
  <2> HIDE DEF e
  <2>2. x \in Processes /\ x.at = "booting" /\ x.boot = 0 /\ x.call = 0 /\ x.ready = FALSE
    <3>1. "booting" \in Places /\ e \in Seq(Keys)
      BY <1>1, <2>1
    <3> QED BY <3>1, Begins, ZenonT(60)
  <2> HIDE DEF x, q
  <2>3. Moves(p, q, x) /\ Readies(q, x)
    BY <2>1, <2>2, Zenon DEF Moves, Boots, Readies
  <2> QED BY <2>1, <2>2, <2>3, Zenon DEF Alone, q
<1>3. CASE Create(p)
  <2> DEFINE x == Fresh("booting")
  <2>1. pod' = [pod EXCEPT ![p] = x] /\ q.at \in {"none", "crashed"}
    BY <1>3 DEF Create
  <2>2. x \in Processes /\ x.at = "booting" /\ x.boot = 0 /\ x.call = 0 /\ x.ready = FALSE
    BY <1>1, Begins
  <2> HIDE DEF x, q
  <2>3. Moves(p, q, x) /\ Readies(q, x)
    BY <2>1, <2>2, Zenon DEF Moves, Boots, Readies
  <2> QED BY <2>1, <2>2, <2>3, Zenon DEF Alone, q
<1>4. CASE Delete(p)
  <2> DEFINE y == [q EXCEPT !.at = "draining"]
             x == [y EXCEPT !.ready = FALSE]
  <2>1. pod' = [pod EXCEPT ![p] = x]
    BY <1>0, <1>4 DEF Delete, TypeInv, Processes
  <2> HIDE DEF q
  <2>2. y \in Processes /\ y.at = "draining"
    BY <1>0, <1>1 DEF Processes
  <2> HIDE DEF y
  <2>3. x \in Processes /\ x.at = "draining" /\ x.ready = FALSE
    BY <2>2 DEF Processes
  <2> HIDE DEF x
  <2>4. Moves(p, q, x) /\ Readies(q, x)
    BY <1>4, <2>3, Zenon DEF Moves, Leaves, Readies
  <2> QED BY <2>1, <2>3, <2>4, Zenon DEF Alone, q
<1> QED BY <1>2, <1>3, <1>4 DEF Managing

\* A pod that is left alone.
LEMMA Still ==
    ASSUME NEW p, NEW q, NEW x, Waits(q, x), x.ready = q.ready
    PROVE  Moves(p, q, x) /\ Readies(q, x)
<1>1. x.at = q.at
  BY DEF Waits
<1> QED BY <1>1, Zenon DEF Moves, Readies

EachMoves ==
    /\ pod' \in [Pods -> Processes]
    /\ \A p \in Pods : Moves(p, pod[p], pod'[p]) /\ Readies(pod[p], pod'[p])

LEMMA AloneMoves ==
    ASSUME TypeInv, NEW p \in Pods, Alone(p)
    PROVE  EachMoves
<1>1. PICK x \in Processes : pod' = [pod EXCEPT ![p] = x] /\ Moves(p, pod[p], x) /\ Readies(pod[p], x)
  BY DEF Alone
<1>2. pod' \in [Pods -> Processes] /\ pod'[p] = x /\ \A d \in Pods \ {p} : pod'[d] = pod[d]
  BY <1>1 DEF TypeInv
<1>3. ASSUME NEW d \in Pods PROVE Moves(d, pod[d], pod'[d]) /\ Readies(pod[d], pod'[d])
  <2>1. CASE d = p
    BY <1>1, <1>2, <2>1
  <2>2. CASE d # p
    <3>1. Waits(pod[d], pod'[d]) /\ pod'[d].ready = pod[d].ready
      BY <1>2, <2>2 DEF Waits
    <3> QED BY <3>1, Still
  <2> QED BY <2>1, <2>2
<1> QED BY <1>2, <1>3 DEF EachMoves

LEMMA TickMoves ==
    ASSUME TypeInv, Tick
    PROVE  EachMoves
<1>1. ASSUME NEW p \in Pods
      PROVE  pod'[p] \in Processes /\ Moves(p, pod[p], pod'[p]) /\ Readies(pod[p], pod'[p])
  <2> DEFINE q == pod[p]
             y == [q EXCEPT !.boot = @ + 1]
             x == [y EXCEPT !.call = @ + 1]
  <2>1. q \in Processes
    BY DEF TypeInv
  <2>2. CASE p \in Calling
    <3>1. q.at \in {"opening", "migrating"} /\ ~due(p) /\ q.at # "serving"
      BY <2>2 DEF Tick, Calling, At
    <3>2. pod'[p] = x
      BY <2>1, <2>2 DEF Tick, Processes
    <3> HIDE DEF q
    <3>3. /\ y \in Processes /\ y.at = q.at /\ y.boot = q.boot + 1 /\ y.call = q.call
          /\ y.ready = q.ready
      BY <2>1 DEF Processes
    <3> HIDE DEF y
    <3>4. /\ x \in Processes /\ x.at = q.at /\ x.boot = q.boot + 1 /\ x.call = q.call + 1
          /\ x.ready = q.ready
      BY <3>3 DEF Processes
    <3> HIDE DEF x
    <3>5. Moves(p, q, x) /\ Readies(q, x)
      BY <3>1, <3>4, Zenon DEF Moves, Ticks, Readies
    <3> QED BY <3>2, <3>4, <3>5 DEF q
  <2>3. CASE p \notin Calling
    <3>1. pod'[p] = q
      BY <2>3 DEF Tick
    <3>2. Waits(q, pod'[p]) /\ pod'[p].ready = q.ready
      BY <3>1 DEF Waits
    <3> QED BY <2>1, <3>1, <3>2, Still
  <2> QED BY <2>2, <2>3
<1>2. pod' = [p \in Pods |-> pod'[p]]
  BY DEF Tick
<1> QED BY <1>1, <1>2 DEF EachMoves

LEMMA OutageMoves ==
    ASSUME TypeInv, DatabaseFails
    PROVE  EachMoves
<1>1. ASSUME NEW p \in Pods
      PROVE  pod'[p] \in Processes /\ Moves(p, pod[p], pod'[p]) /\ Readies(pod[p], pod'[p])
  <2> DEFINE q == pod[p]
             x == [q EXCEPT !.held = 0]
  <2>1. q \in Processes /\ pod'[p] = x
    BY DEF TypeInv, DatabaseFails
  <2> HIDE DEF q
  <2>2. x \in Processes /\ Waits(q, x) /\ x.ready = q.ready
    BY <2>1 DEF Processes, Waits
  <2> HIDE DEF x
  <2>3. Moves(p, q, x) /\ Readies(q, x)
    BY <2>2, Still
  <2> QED BY <2>1, <2>2, <2>3 DEF q
<1>2. pod' = [p \in Pods |-> pod'[p]]
  BY DEF DatabaseFails
<1> QED BY <1>1, <1>2 DEF EachMoves

LEMMA NextMoves ==
    ASSUME TypeInv, [Next]_vars
    PROVE  EachMoves /\ environ' = environ /\ TypeInv' /\ (db.table = TRUE => db'.table = TRUE)
<1>1. EachMoves
  <2>1. CASE pod' = pod
    <3>1. \A p \in Pods : Waits(pod[p], pod'[p]) /\ pod'[p].ready = pod[p].ready
      BY <2>1 DEF Waits
    <3> QED BY <2>1, <3>1, Still DEF EachMoves, TypeInv
  <2>2. ASSUME NEW p \in Pods, Booting(p) \/ Running(p) \/ Managing(p) PROVE EachMoves
    <3>1. Alone(p)
      BY <2>2, LoadStep, ConnectStep, CrashStep, MigrateStep, RunStep, ManageStep DEF Booting
    <3> QED BY <3>1, AloneMoves
  <2> QED BY <2>1, <2>2, TickMoves, OutageMoves DEF Next, DatabaseReturns, vars
<1>2. environ' = environ
  BY DEF Next, Booting, Running, Managing, Load, Connect, ConnectFails, Migrate, MigrateFails,
         Probe, Grow, Shrink, Exit, Restart, Create, Delete, DatabaseFails, DatabaseReturns, Tick, vars
<1>3. \/ db' = db
      \/ db' = [db EXCEPT !.table = TRUE]
      \/ db' = [db EXCEPT !.up = FALSE, !.outages = @ + 1]
      \/ db' = [db EXCEPT !.up = TRUE]
  BY DEF Next, Booting, Running, Managing, Load, Connect, ConnectFails, Migrate, MigrateFails,
         Probe, Grow, Shrink, Exit, Restart, Create, Delete, DatabaseFails, DatabaseReturns, Tick, vars
<1>4. db' \in [up : BOOLEAN, table : BOOLEAN, outages : Nat] /\ (db.table = TRUE => db'.table = TRUE)
  <2> DEFINE D == [up : BOOLEAN, table : BOOLEAN, outages : Nat]
  <2>0. db \in D
    BY DEF TypeInv
  <2>1. CASE db' = db
    BY <2>0, <2>1
  <2>2. CASE db' = [db EXCEPT !.table = TRUE]
    BY <2>0, <2>2
  <2>3. CASE db' = [db EXCEPT !.up = FALSE, !.outages = @ + 1]
    <3> DEFINE m == [db EXCEPT !.up = FALSE]
    <3>1. m \in D /\ m.table = db.table /\ m.outages = db.outages
      BY <2>0
    <3>2. db' = [m EXCEPT !.outages = m.outages + 1]
      BY <2>0, <2>3
    <3> HIDE DEF m
    <3>3. db' \in D /\ db'.table = m.table
      BY <3>1, <3>2
    <3> QED BY <3>1, <3>3, Zenon
  <2>4. CASE db' = [db EXCEPT !.up = TRUE]
    <3>1. db' \in D /\ db'.table = db.table
      BY <2>0, <2>4
    <3> QED BY <3>1, Zenon
  <2> QED BY <1>3, <2>1, <2>2, <2>3, <2>4
<1> QED BY <1>1, <1>2, <1>4 DEF EachMoves, TypeInv

LEMMA InitTypes == Init => TypeInv
<1> SUFFICES ASSUME Init PROVE TypeInv
  OBVIOUS
<1>1. << >> \in Seq(Keys)
  OBVIOUS
<1>2. \A place \in Places : Fresh(place) \in Processes
  BY <1>1, Begins
<1>3. "gone" \in Places /\ "none" \in Places /\ "serving" \in Places
  BY DEF Places
<1>4. [Fresh("serving") EXCEPT !.ready = TRUE, !.held = 1] \in Processes
  <2> DEFINE f == Fresh("serving")
             m == [f EXCEPT !.ready = TRUE]
  <2>1. f \in Processes
    BY <1>2, <1>3
  <2> HIDE DEF f
  <2>2. m \in Processes
    BY <2>1 DEF Processes
  <2>3. [m EXCEPT !.held = 1] = [f EXCEPT !.ready = TRUE, !.held = 1]
    BY <2>1 DEF Processes
  <2> HIDE DEF m
  <2>4. [m EXCEPT !.held = 1] \in Processes
    BY <2>2 DEF Processes
  <2> QED BY <2>3, <2>4 DEF f
<1>5. pod \in [Pods -> Processes]
  BY <1>2, <1>3, <1>4 DEF Init
<1>6. db \in [up : BOOLEAN, table : BOOLEAN, outages : Nat]
  <2>1. \E table \in BOOLEAN : db = [up |-> TRUE, table |-> table, outages |-> 0]
    BY Zenon DEF Init
  <2> QED BY <2>1
<1> QED BY <1>5, <1>6 DEF TypeInv

LEMMA Types == Spec => []TypeInv
BY InitTypes, NextMoves, PTL DEF Spec

\* Where the pods are at first: nothing calls and nothing has crashed.
LEMMA InitPlaces ==
    ASSUME Init, NEW p \in Pods
    PROVE  /\ pod[p].at \in {"none", "gone", "serving"}
           /\ p \in New => pod[p].at = "none"
           /\ pod[p].at = "serving" => db.table = TRUE
           /\ pod[p].at # "serving" => pod[p].ready = FALSE
<1>1. p \in New => p \notin Old
  BY BootAssumption
<1>2. CASE pod = [d \in Pods |-> Fresh(IF d \in Old THEN "gone" ELSE "none")]
  <2>1. pod[p].at = (IF p \in Old THEN "gone" ELSE "none") /\ pod[p].ready = FALSE
    BY <1>2 DEF Fresh
  <2> QED BY <1>1, <2>1
<1>3. CASE /\ pod = [d \in Pods |-> IF d \in Old THEN [Fresh("serving") EXCEPT !.ready = TRUE, !.held = 1]
                                                  ELSE Fresh("none")]
           /\ db.table = TRUE
  <2>1. CASE p \in Old
    <3>1. pod[p] = [Fresh("serving") EXCEPT !.ready = TRUE, !.held = 1]
      BY <1>3, <2>1
    <3>2. pod[p].at = "serving"
      BY <3>1 DEF Fresh
    <3> QED BY <1>1, <1>3, <2>1, <3>2
  <2>2. CASE p \notin Old
    <3>1. pod[p] = Fresh("none")
      BY <1>3, <2>2
    <3>2. pod[p].at = "none" /\ pod[p].ready = FALSE
      BY <3>1 DEF Fresh
    <3> QED BY <3>2
  <2> QED BY <2>1, <2>2
<1>4. db = [up |-> TRUE, table |-> TRUE, outages |-> 0] => db.table = TRUE
  OBVIOUS
<1> QED BY <1>2, <1>3, <1>4, Zenon DEF Init

-----------------------------------------------------------------------------
(* The schema.                                                             *)

\* No interleaving of migrations, outages and restarts lets a pod that was told
\* to migrate serve from a database without the table.
THEOREM SchemaFirst == Spec => []SchemaBeforeServing
<1>1. Init => SchemaBeforeServing
  <2> SUFFICES ASSUME Init, NEW p \in At("serving") PROVE db.table
    BY DEF SchemaBeforeServing
  <2>1. p \in Pods /\ pod[p].at = "serving"
    BY DEF At
  <2>2. db.table = TRUE
    BY <2>1, InitPlaces
  <2> QED BY <2>2, Zenon
<1>2. TypeInv /\ SchemaBeforeServing /\ [Next]_vars => SchemaBeforeServing'
  <2> SUFFICES ASSUME TypeInv, SchemaBeforeServing, [Next]_vars PROVE SchemaBeforeServing'
    OBVIOUS
  <2>0. environ' = environ
    BY NextMoves
  <2> SUFFICES ASSUME NEW p \in Pods, pod'[p].at = "serving",
                      openStore(env(p)).repo = "postgres",
                      env(p)["DB_MIGRATE_ON_BOOT"] \in {"", "true"}
               PROVE  db'.table = TRUE
    BY <2>0, Zenon DEF SchemaBeforeServing, At, env, Pods
  <2> DEFINE q == pod[p]
             x == pod'[p]
  <2>1. Moves(p, q, x) /\ (db.table = TRUE => db'.table = TRUE)
    BY NextMoves DEF EachMoves
  <2>2. migrateOnBoot(env(p)) /\ openStore(env(p)).repo # "memory"
    <3>1. migrateOnBoot(env(p))
      <4>1. Told(env(p))
        BY DEF Told
      <4> QED BY <4>1, Migrates
    <3> QED BY <3>1
  <2>3. CASE Migrated(q, x)
    BY <2>3, Zenon DEF Migrated
  <2>4. CASE Waits(q, x)
    <3>1. q.at = "serving"
      BY <2>4 DEF Waits
    <3>2. db.table
      BY <3>1 DEF SchemaBeforeServing, At
    <3>3. db.table = TRUE
      BY <3>2 DEF TypeInv
    <3> QED BY <2>1, <3>3, Zenon
  <2>5. ~LoadFails(p, q, x) /\ ~CallFails(q, x) /\ ~Leaves(p, q, x) /\ ~Boots(q, x)
    BY DEF LoadFails, CallFails, Leaves, Boots
  <2>6. ~Loads(p, q, x) /\ ~Ticks(p, q, x)
    BY <2>2 DEF Loads, Ticks
  <2>7. ~Opens(p, q, x)
    BY <2>2 DEF Opens
  <2> QED BY <2>1, <2>3, <2>4, <2>5, <2>6, <2>7 DEF Moves
<1> QED BY <1>1, <1>2, Types, PTL DEF Spec

-----------------------------------------------------------------------------
(* The startup budget.                                                     *)

\* TimeInv, of one pod.
Timed(q, timeout) ==
    /\ q.at = "booting" => q.boot = 0 /\ q.call = 0
    /\ q.at = "opening" => q.boot = q.call /\ q.call <= timeout
    /\ q.at = "migrating" => q.boot <= timeout + q.call /\ q.call <= MigrateTimeout

LEMMA NextTime == TypeInv /\ TimeInv /\ [Next]_vars => TimeInv'
<1> SUFFICES ASSUME TypeInv, TimeInv, [Next]_vars PROVE TimeInv'
  OBVIOUS
<1>0. environ' = environ /\ pod' \in [Pods -> Processes]
  BY NextMoves DEF EachMoves
<1> SUFFICES ASSUME NEW p \in Pods PROVE Timed(pod'[p], connectTimeout(env(p)))
  BY <1>0 DEF TimeInv, Timed, env, Pods
<1> DEFINE q == pod[p]
           x == pod'[p]
           limit == connectTimeout(env(p))
<1>1. limit \in Nat /\ MigrateTimeout \in Nat
  BY Timeouts, BootAssumption
<1>2. q.boot \in Nat /\ q.call \in Nat /\ x.boot \in Nat /\ x.call \in Nat
  BY <1>0 DEF TypeInv, Processes
<1>3. Timed(q, limit) /\ Moves(p, q, x)
  BY NextMoves DEF TimeInv, Timed, EachMoves
<1>4. q.at \in {"opening", "migrating"} /\ ~due(p) =>
        /\ q.at = "opening" => q.call # limit
        /\ q.at = "migrating" => q.call # MigrateTimeout
  BY DEF due
<1> HIDE DEF q, x, limit
<1>5. ASSUME Waits(q, x) \/ Loads(p, q, x) \/ Opens(p, q, x) PROVE Timed(x, limit)
  BY <1>1, <1>2, <1>3, <1>5 DEF Waits, Loads, Opens, Timed
<1>6. ASSUME LoadFails(p, q, x) \/ Migrated(q, x) \/ CallFails(q, x) \/ Leaves(p, q, x) \/ Boots(q, x)
      PROVE  Timed(x, limit)
  BY <1>6 DEF LoadFails, Migrated, CallFails, Leaves, Boots, Timed
<1>7. ASSUME Ticks(p, q, x) PROVE Timed(x, limit)
  BY <1>1, <1>2, <1>3, <1>4, <1>7 DEF Ticks, Timed
<1>8. Timed(x, limit)
  BY <1>3, <1>5, <1>6, <1>7 DEF Moves
<1> QED BY <1>8 DEF x, limit

\* A startup probe that allows for both timeouts never kills a boot that is
\* still waiting for its database.
THEOREM BootsInBudget ==
    ASSUME \A e \in Environments \cup {Deployed} : connectTimeout(e) + MigrateTimeout < StartupBudget
    PROVE  Spec => []BootInBudget
<1>1. Init => TimeInv
  BY InitPlaces DEF TimeInv
<1>2. Init => environ \in Environments
  BY DEF Init
<1>3. TypeInv /\ [Next]_vars /\ environ \in Environments => (environ \in Environments)'
  BY NextMoves
<1>4. TypeInv /\ TimeInv /\ environ \in Environments => BootInBudget
  <2> SUFFICES ASSUME TypeInv, TimeInv, environ \in Environments, NEW p \in Calling
               PROVE  pod[p].boot < StartupBudget
    BY DEF BootInBudget
  <2> DEFINE limit == connectTimeout(env(p))
  <2>1. p \in Pods /\ pod[p].at \in {"opening", "migrating"}
    BY DEF Calling, At
  <2>2. limit + MigrateTimeout < StartupBudget /\ limit \in Nat
    BY Timeouts DEF env
  <2>3. pod[p].boot \in Nat /\ pod[p].call \in Nat /\ MigrateTimeout \in Nat /\ StartupBudget \in Nat
    BY <2>1, BootAssumption DEF TypeInv, Processes
  <2>4. pod[p].boot <= limit + MigrateTimeout
    <3>1. CASE pod[p].at = "opening"
      BY <2>1, <2>2, <2>3, <3>1 DEF TimeInv
    <3>2. CASE pod[p].at = "migrating"
      BY <2>1, <2>2, <2>3, <3>2 DEF TimeInv
    <3> QED BY <2>1, <3>1, <3>2
  <2> HIDE DEF limit
  <2> QED BY <2>2, <2>3, <2>4
<1> QED BY <1>1, <1>2, <1>3, <1>4, InitTypes, NextMoves, NextTime, PTL DEF Spec

-----------------------------------------------------------------------------
(* What a boot reports.                                                    *)

\* Correcting what one boot has reported leaves nothing for the Loader to
\* report in the next.
THEOREM ReportedAtOnce == Spec => []OneReport
<1>1. Init => ReportInv
  BY InitPlaces DEF ReportInv
<1>2. TypeInv /\ ReportInv /\ [Next]_vars => ReportInv'
  <2> SUFFICES ASSUME TypeInv, ReportInv, [Next]_vars PROVE ReportInv'
    OBVIOUS
  <2>0. environ' = environ
    BY NextMoves
  <2> SUFFICES ASSUME NEW p \in Pods, pod'[p].at = "crashed"
               PROVE  pod'[p].errs \in {<< >>, complaint(env(p))}
    BY <2>0 DEF ReportInv, env, Pods
  <2> DEFINE q == pod[p]
             x == pod'[p]
  <2>1. Moves(p, q, x) /\ (q.at = "crashed" => q.errs \in {<< >>, complaint(env(p))})
    BY NextMoves DEF EachMoves, ReportInv
  <2>2. x.at = "crashed"
    OBVIOUS
  <2> HIDE DEF q, x
  <2>3. Waits(q, x) \/ LoadFails(p, q, x) \/ CallFails(q, x)
    BY <2>1, <2>2 DEF Moves, Loads, Opens, Migrated, Leaves, Boots, Ticks
  <2>4. x.errs \in {<< >>, complaint(env(p))}
    BY <2>1, <2>2, <2>3 DEF Waits, LoadFails, CallFails
  <2> QED BY <2>4 DEF x
<1>3. ReportInv => OneReport
  <2> SUFFICES ASSUME ReportInv, NEW p \in At("crashed"), pod[p].errs # << >>
               PROVE  Range(complaint(Corrected(env(p), pod[p].errs))) \subseteq StoreKeys
    BY DEF OneReport
  <2>1. pod[p].errs = complaint(env(p))
    BY DEF ReportInv, At
  <2> QED BY <2>1, CorrectedOnce
<1> QED BY <1>1, <1>2, <1>3, Types, PTL DEF Spec

-----------------------------------------------------------------------------
(* A bad rollout.                                                          *)

\* A Deployment that may have no pod unavailable does not delete an old pod
\* while no new one is ready.
LEMMA NoDelete ==
    ASSUME TypeInv, MaxUnavailable = 0, NEW p, Delete(p), New \cap Available = {}
    PROVE  FALSE
<1> DEFINE C == Counted
           N == New \cap Counted
           O == Old \cap Counted
<1>1. /\ IsFiniteSet(Old \cup New) /\ Cardinality(Old) = Replicas /\ Replicas \in Nat
      /\ Old \cap New = {}
  BY BootAssumption
<1>2. N \ Available = N /\ C = O \cup N /\ O \cap N = {}
  BY <1>1 DEF Counted, Pods
<1>3. IsFiniteSet(Old) /\ IsFiniteSet(O) /\ IsFiniteSet(N)
  BY <1>1, FS_Subset
<1>4. Cardinality(O) <= Cardinality(Old) /\ Cardinality(O) \in Nat /\ Cardinality(N) \in Nat
  BY <1>3, FS_Subset, FS_CardinalityType
<1>5. Cardinality(C) = Cardinality(O) + Cardinality(N)
  <2>1. Cardinality(O \cup N) = Cardinality(O) + Cardinality(N) - Cardinality(O \cap N)
    BY <1>3, FS_Union
  <2>2. Cardinality({}) = 0
    BY FS_EmptySet
  <2>3. Cardinality(O \cap N) = 0 /\ Cardinality(C) = Cardinality(O \cup N)
    BY <1>2, <2>2, Zenon
  <2> HIDE DEF C, N, O
  <2> QED BY <1>4, <2>1, <2>3
<1>6. Cardinality(C) - Cardinality(N) > Replicas
  <2>1. Cardinality(Counted) - Cardinality((New \cap Counted) \ Available) > Replicas - MaxUnavailable
    BY DEF Delete
  <2>2. Cardinality(C) - Cardinality(N) > Replicas - 0
    BY <1>2, <2>1
  <2> QED BY <1>1, <2>2
<1> HIDE DEF C, N, O
<1> QED BY <1>1, <1>4, <1>5, <1>6

LEMMA NextRollout == MaxUnavailable = 0 /\ TypeInv /\ RolloutInv /\ [Next]_vars => RolloutInv'
<1> SUFFICES ASSUME MaxUnavailable = 0, TypeInv, RolloutInv, [Next]_vars PROVE RolloutInv'
  OBVIOUS
<1>0. environ' = environ /\ pod' \in [Pods -> Processes]
  BY NextMoves DEF EachMoves
<1>1. ASSUME NEW p \in Pods PROVE pod'[p].ready => pod'[p].at = "serving"
  <2> DEFINE q == pod[p]
             x == pod'[p]
  <2>1. Readies(q, x) /\ (q.ready => q.at = "serving")
    BY NextMoves DEF EachMoves, RolloutInv
  <2> HIDE DEF q, x
  <2>2. x.ready => x.at = "serving"
    BY <2>1, Zenon DEF Readies
  <2> QED BY <2>2 DEF x
<1>2. ASSUME Broken(environ), NEW p \in New PROVE pod'[p].at \in {"none", "booting", "crashed"}
  <2> DEFINE q == pod[p]
             x == pod'[p]
  <2>1. p \in Pods /\ p \notin Old
    BY BootAssumption DEF Pods
  <2>2. complaint(env(p)) # << >>
    BY <1>2, <2>1, BrokenComplains DEF env
  <2>3. Moves(p, q, x) /\ q.at \in {"none", "booting", "crashed"}
    BY <1>2, <2>1, NextMoves DEF EachMoves, RolloutInv
  <2>4. ~Delete(p)
    BY <2>1 DEF Delete
  <2> HIDE DEF q, x
  <2>5. Waits(q, x) \/ LoadFails(p, q, x) \/ Boots(q, x)
    BY <2>2, <2>3, <2>4 DEF Moves, Loads, Opens, Migrated, CallFails, Leaves, Ticks
  <2>6. x.at \in {"none", "booting", "crashed"}
    BY <2>3, <2>5 DEF Waits, LoadFails, Boots
  <2> QED BY <2>6 DEF x
<1>3. ASSUME Broken(environ), NEW p \in Pods PROVE pod'[p].at # "draining"
  <2> DEFINE q == pod[p]
             x == pod'[p]
  <2>1. Moves(p, q, x) /\ q.at # "draining"
    BY <1>3, NextMoves DEF EachMoves, RolloutInv, At
  <2>2. New \cap Available = {}
    <3> SUFFICES ASSUME NEW d \in New, d \in Available PROVE FALSE
      OBVIOUS
    <3>1. d \in Pods /\ pod[d].ready
      BY DEF Available, Pods
    <3>2. pod[d].at = "serving"
      BY <3>1 DEF RolloutInv
    <3>3. pod[d].at \in {"none", "booting", "crashed"}
      BY <1>3 DEF RolloutInv
    <3> QED BY <3>2, <3>3
  <2>3. ~Delete(p)
    BY <2>2, NoDelete
  <2> HIDE DEF q, x
  <2>4. x.at # "draining"
    BY <2>1, <2>3 DEF Moves, Waits, LoadFails, Loads, Opens, Migrated, CallFails, Leaves, Boots, Ticks
  <2> QED BY <2>4 DEF x
<1>4. Broken(environ)' <=> Broken(environ)
  BY <1>0 DEF Broken
<1> QED BY <1>1, <1>2, <1>3, <1>4 DEF RolloutInv, At, Pods

\* With an environment that the service refuses, whatever the database does and
\* however often the pods restart, no new pod serves and no old pod is
\* deleted, if the Deployment allows no pod to be unavailable.
THEOREM RolloutStalls ==
    ASSUME MaxUnavailable = 0
    PROVE  Spec => []BadRolloutStalls
<1>1. Init => RolloutInv
  <2> SUFFICES ASSUME Init PROVE RolloutInv
    OBVIOUS
  <2>1. \A p \in Pods : pod[p].ready => pod[p].at = "serving"
    BY InitPlaces
  <2>2. \A p \in New : pod[p].at = "none"
    BY InitPlaces DEF Pods
  <2>3. At("draining") = {}
    BY InitPlaces DEF At
  <2> QED BY <2>1, <2>2, <2>3 DEF RolloutInv
<1>2. RolloutInv => BadRolloutStalls
  BY DEF RolloutInv, BadRolloutStalls, At, Pods
<1> QED BY <1>1, <1>2, InitTypes, NextMoves, NextRollout, PTL DEF Spec

-----------------------------------------------------------------------------
(* Sums.  Induction over the natural numbers, with a set in the place of   *)
(* a predicate, shows that SumFunction satisfies its recursive equation    *)
(* and that it is strictly monotone.                                       *)

LEMMA Inductive ==
    ASSUME NEW G \in SUBSET Nat, 0 \in G, \A n \in G : n + 1 \in G
    PROVE  G = Nat
<1> DEFINE R == {ss \in Nat \X Nat : ss[1] < ss[2]}
           Rest == Nat \ G
<1>1. IsWellFoundedOn(R, Nat)
  BY NatLessThanWellFounded, Zenon DEF OpToRel
<1> SUFFICES ASSUME Rest # {} PROVE FALSE
  OBVIOUS
<1>2. PICK n \in Rest : \A m \in Rest : <<m, n>> \notin R
  <2>1. Rest \subseteq Nat
    OBVIOUS
  <2> HIDE DEF R, Rest
  <2> QED BY <1>1, <2>1, WFMin
<1>3. n \in Nat /\ n # 0 /\ n - 1 \in Nat /\ (n - 1) + 1 = n
  BY <1>2
<1>4. n - 1 \notin Rest
  <2>1. <<n - 1, n>> \in R
    BY <1>3
  <2> HIDE DEF R
  <2> QED BY <1>2, <2>1
<1> QED BY <1>2, <1>3, <1>4

Pick(s) == CHOOSE x \in s : TRUE

\* g sums up f over the sets in Low.
Sums(f, g, Low) == g = [s \in Low |-> IF s = {} THEN 0 ELSE f[Pick(s)] + g[s \ {Pick(s)}]]

Smaller(S, n) == {s \in SUBSET S : Cardinality(s) <= n}

LEMMA OneLess ==
    ASSUME NEW S, IsFiniteSet(S), NEW n \in Nat, NEW s \in Smaller(S, n + 1), s # {}
    PROVE  Pick(s) \in s /\ s \ {Pick(s)} \in Smaller(S, n)
<1>1. IsFiniteSet(s) /\ Cardinality(s) \in Nat /\ Cardinality(s) <= n + 1
  BY FS_Subset, FS_CardinalityType DEF Smaller
<1>2. Pick(s) \in s
  BY DEF Pick
<1>3. Cardinality(s \ {Pick(s)}) = Cardinality(s) - 1
  BY <1>1, <1>2, FS_RemoveElement
<1>4. Cardinality(s \ {Pick(s)}) <= n
  BY <1>1, <1>3
<1> QED BY <1>2, <1>4 DEF Smaller

LEMMA SmallerSets ==
    ASSUME NEW S, IsFiniteSet(S)
    PROVE  /\ Smaller(S, 0) = {{}}
           /\ Smaller(S, Cardinality(S)) = SUBSET S
           /\ \A n \in Nat : Smaller(S, n) \subseteq Smaller(S, n + 1)
<1>1. ASSUME NEW s \in SUBSET S
      PROVE  /\ Cardinality(s) \in Nat /\ Cardinality(s) <= Cardinality(S)
             /\ Cardinality(s) = 0 <=> s = {}
  BY FS_Subset, FS_CardinalityType, FS_EmptySet
<1>2. Cardinality({}) = 0
  BY FS_EmptySet
<1>3. Smaller(S, 0) = {{}}
  <2>1. ASSUME NEW s \in Smaller(S, 0) PROVE s = {}
    <3>1. s \in SUBSET S /\ Cardinality(s) <= 0
      BY DEF Smaller
    <3> QED BY <1>1, <3>1
  <2>2. {} \in Smaller(S, 0)
    BY <1>2 DEF Smaller
  <2> QED BY <2>1, <2>2
<1>4. Smaller(S, Cardinality(S)) = SUBSET S
  BY <1>1 DEF Smaller
<1>5. ASSUME NEW n \in Nat, NEW s \in Smaller(S, n) PROVE s \in Smaller(S, n + 1)
  <2>1. s \in SUBSET S /\ Cardinality(s) <= n
    BY DEF Smaller
  <2>2. Cardinality(s) <= n + 1
    BY <1>1, <2>1
  <2> QED BY <2>1, <2>2 DEF Smaller
<1> QED BY <1>3, <1>4, <1>5

LEMMA SumExists ==
    ASSUME NEW S, IsFiniteSet(S), NEW f
    PROVE  \E g : Sums(f, g, SUBSET S)
<1> DEFINE G == {n \in Nat : \E g : Sums(f, g, Smaller(S, n))}
<1>1. 0 \in G
  <2> DEFINE g == [s \in {{}} |-> 0]
  <2>1. Sums(f, g, {{}})
    BY DEF Sums
  <2> QED BY <2>1, SmallerSets
<1>2. ASSUME NEW n \in G PROVE n + 1 \in G
  <2>0. n \in Nat /\ n + 1 \in Nat
    OBVIOUS
  <2>1. PICK g : Sums(f, g, Smaller(S, n))
    BY <1>2
  <2> DEFINE h == [s \in Smaller(S, n + 1) |-> IF s = {} THEN 0 ELSE f[Pick(s)] + g[s \ {Pick(s)}]]
  <2>2. ASSUME NEW s \in Smaller(S, n) PROVE h[s] = g[s]
    <3>1. s \in Smaller(S, n + 1)
      BY <2>0, SmallerSets
    <3>2. h[s] = IF s = {} THEN 0 ELSE f[Pick(s)] + g[s \ {Pick(s)}]
      BY <3>1
    <3>3. g[s] = IF s = {} THEN 0 ELSE f[Pick(s)] + g[s \ {Pick(s)}]
      BY <2>1 DEF Sums
    <3> QED BY <3>2, <3>3
  <2>3. ASSUME NEW s \in Smaller(S, n + 1)
        PROVE  h[s] = IF s = {} THEN 0 ELSE f[Pick(s)] + h[s \ {Pick(s)}]
    <3>1. s # {} => s \ {Pick(s)} \in Smaller(S, n)
      BY <2>0, OneLess
    <3>2. s # {} => h[s \ {Pick(s)}] = g[s \ {Pick(s)}]
      BY <2>2, <3>1
    <3> QED BY <3>2
  <2>4. h = [s \in Smaller(S, n + 1) |-> h[s]]
    OBVIOUS
  <2> HIDE DEF h
  <2>5. Sums(f, h, Smaller(S, n + 1))
    BY <2>3, <2>4 DEF Sums
  <2> QED BY <2>0, <2>5
<1>3. G = Nat
  <2>1. G \in SUBSET Nat
    OBVIOUS
  <2> HIDE DEF G
  <2> QED BY <1>1, <1>2, <2>1, Inductive
<1>4. Cardinality(S) \in G
  BY <1>3, FS_CardinalityType
<1> QED BY <1>4, SmallerSets

LEMMA SumOnSet ==
    ASSUME NEW f, IsFiniteSet(DOMAIN f)
    PROVE  LET g == CHOOSE g : Sums(f, g, SUBSET DOMAIN f)
           IN  Sums(f, g, SUBSET DOMAIN f) /\ SumFunction(f) = g[DOMAIN f]
<1>1. \E g : Sums(f, g, SUBSET DOMAIN f)
  BY SumExists
<1>2. SumFunction(f) = (CHOOSE g : Sums(f, g, SUBSET DOMAIN f))[DOMAIN f]
  BY DEF SumFunction, SumFunctionOnSet, FoldFunctionOnSet, MapThenFoldSet, Sums, Pick
<1> QED BY <1>1, <1>2

LEMMA SumMonotone ==
    ASSUME NEW S, IsFiniteSet(S), NEW f \in [S -> Nat], NEW h \in [S -> Nat],
           \A x \in S : f[x] <= h[x], NEW y \in S, f[y] < h[y]
    PROVE  SumFunction(f) \in Nat /\ SumFunction(h) \in Nat /\ SumFunction(f) < SumFunction(h)
<1>0. DOMAIN f = S /\ DOMAIN h = S
  OBVIOUS
<1>1. PICK a : Sums(f, a, SUBSET S) /\ SumFunction(f) = a[S]
  BY <1>0, SumOnSet
<1>2. PICK b : Sums(h, b, SUBSET S) /\ SumFunction(h) = b[S]
  BY <1>0, SumOnSet
<1> DEFINE Less(s) == /\ a[s] \in Nat /\ b[s] \in Nat /\ a[s] <= b[s]
                      /\ y \in s => a[s] < b[s]
           G == {n \in Nat : \A s \in Smaller(S, n) : Less(s)}
<1>3. 0 \in G
  <2>1. a[{}] = 0 /\ b[{}] = 0
    BY <1>1, <1>2 DEF Sums
  <2>2. Less({})
    BY <2>1
  <2> QED BY <2>2, SmallerSets
<1>4. ASSUME NEW n \in G PROVE n + 1 \in G
  <2>1. n \in Nat /\ n + 1 \in Nat /\ \A s \in Smaller(S, n) : Less(s)
    BY <1>4
  <2> SUFFICES ASSUME NEW s \in Smaller(S, n + 1) PROVE Less(s)
    BY <2>1
  <2>2. CASE s = {}
    <3>1. s \in Smaller(S, n + 1) /\ a[s] = 0 /\ b[s] = 0
      BY <1>1, <1>2, <2>2 DEF Sums
    <3> QED BY <2>2, <3>1
  <2>3. CASE s # {}
    <3> DEFINE x == Pick(s)
               t == s \ {x}
    <3>1. x \in s /\ t \in Smaller(S, n) /\ s \in SUBSET S
      BY <2>1, <2>3, OneLess DEF Smaller
    <3>2. a[s] = f[x] + a[t] /\ b[s] = h[x] + b[t]
      BY <1>1, <1>2, <2>3, <3>1 DEF Sums
    <3>3. Less(t) /\ x \in S
      BY <2>1, <3>1
    <3>4. f[x] \in Nat /\ h[x] \in Nat /\ f[x] <= h[x] /\ (x = y => f[x] < h[x])
      BY <3>3
    <3>5. y \in s => x = y \/ y \in t
      OBVIOUS
    <3> HIDE DEF x, t
    <3> QED BY <3>2, <3>3, <3>4, <3>5
  <2> QED BY <2>2, <2>3
<1>5. Cardinality(S) \in G
  <2>1. G \in SUBSET Nat /\ Cardinality(S) \in Nat
    BY FS_CardinalityType
  <2> HIDE DEF G
  <2> QED BY <1>3, <1>4, <2>1, Inductive
<1>6. Less(S)
  BY <1>5, SmallerSets
<1> QED BY <1>1, <1>2, <1>6

-----------------------------------------------------------------------------
(* The pools.                                                              *)

\* A pool holds no more connections than its environment asks for.
PoolInv == \A p \in Pods : pod[p].held <= Asked(p)

\* int32 leaves small sizes alone, and makes none larger.
LEMMA Narrowed ==
    ASSUME NEW n \in Int, n >= -Int32Half
    PROVE  /\ int32(n) \in Int /\ int32(n) <= n
           /\ n < Int32Half => int32(n) = n
<1> DEFINE H == Int32Half
           x == n + H
           m == 2 * H
<1>1. H \in Nat /\ H > 3 /\ x \in Nat /\ m \in Nat /\ m > 0
  BY BootAssumption
<1> HIDE DEF x, m
<1>2. x % m \in 0 .. (m - 1) /\ x % m <= x /\ (x < m => x % m = x)
  BY <1>1
<1>3. int32(n) = (x % m) - H
  BY DEF int32, x, m
<1> QED BY <1>1, <1>2, <1>3 DEF x, m

LEMMA Widest ==
    int32(Int32Half) = -Int32Half /\ int32(2 * Int32Half + 1) = 1
<1> DEFINE H == Int32Half
           m == 2 * H
<1>1. H \in Nat /\ H > 3 /\ m \in Nat /\ m > 0
  BY BootAssumption
<1> HIDE DEF m
<1>2. ASSUME NEW r \in Nat, r < m PROVE (m + r) % m = r
  BY <1>1, <1>2
<1>3. m % m = 0
  BY <1>1, <1>2
<1>4. H + 1 \in Nat /\ H + 1 < m /\ H + H = m /\ (2 * H + 1) + H = m + (H + 1)
  BY <1>1 DEF m
<1>5. (m + (H + 1)) % m = H + 1
  BY <1>2, <1>4
<1> QED BY <1>1, <1>3, <1>4, <1>5 DEF int32, m

LEMMA Sizes ==
    ASSUME NEW p
    PROVE  /\ Asked(p) \in Nat /\ Asked(p) >= 1
           /\ maxConns(env(p)) \in Int /\ maxConns(env(p)) <= Asked(p)
<1> DEFINE key == "DB_MAX_CONNS"
           e == env(p)
           t == e[key]
           D == DefaultMaxConns
           n == lookup(e, key, D)
<1>0. D \in Nat /\ D >= 1 /\ Int32Half \in Nat /\ Int32Half > 3
  BY BootAssumption
<1>1. /\ DOMAIN parse[key] = {"-1", "1", "3", "2^31", "2^32+1"}
      /\ parse[key]["-1"] = -1 /\ parse[key]["1"] = 1 /\ parse[key]["3"] = 3
      /\ parse[key]["2^31"] = Int32Half /\ parse[key]["2^32+1"] = 2 * Int32Half + 1
  BY DEF parse
<1>2. Asked(p) = IF t = "1" THEN 1 ELSE IF t = "3" THEN 3 ELSE D
  BY <1>1 DEF Asked
<1>3. n = IF t \in DOMAIN parse[key] THEN parse[key][t] ELSE D
  BY <1>1 DEF lookup, rejects
<1>4. int32(n) \in Int /\ maxConns(e) = IF int32(n) <= 0 THEN D ELSE int32(n)
  <2>1. n \in Int /\ n >= -Int32Half
    BY <1>0, <1>1, <1>3
  <2> QED BY <2>1, Narrowed DEF maxConns
<1>5. CASE t = "1"
  BY <1>0, <1>1, <1>2, <1>3, <1>4, <1>5, Narrowed
<1>6. CASE t = "3"
  BY <1>0, <1>1, <1>2, <1>3, <1>4, <1>6, Narrowed
<1>7. CASE t \notin {"1", "3"}
  <2>1. Asked(p) = D
    BY <1>2, <1>7
  <2>2. int32(n) <= D
    <3>1. CASE t \notin DOMAIN parse[key]
      BY <1>0, <1>3, <3>1, Narrowed
    <3>2. CASE t = "-1"
      BY <1>0, <1>1, <1>3, <3>2, Narrowed
    <3>3. CASE t = "2^31" \/ t = "2^32+1"
      BY <1>0, <1>1, <1>3, <3>3, Widest
    <3> QED BY <1>1, <1>7, <3>1, <3>2, <3>3
  <2> HIDE DEF n, t
  <2> QED BY <1>0, <1>4, <2>1, <2>2
<1> QED BY <1>5, <1>6, <1>7

\* What a step makes of the connections of a pod.
LEMMA NextHeld ==
    ASSUME TypeInv, [Next]_vars, NEW p \in Pods
    PROVE  pod'[p].held <= pod[p].held \/ pod'[p].held = 1 \/ pod'[p].held <= maxConns(env(p))
<1> DEFINE Goal == pod'[p].held <= pod[p].held \/ pod'[p].held = 1 \/ pod'[p].held <= maxConns(env(p))
<1>0. pod[p] \in Processes /\ pod[p].held \in Nat /\ pod \in [Pods -> Processes]
      /\ pod'[p] \in Processes
  BY NextMoves DEF TypeInv, Processes
<1>1. CASE pod' = pod
  BY <1>0, <1>1
<1>2. ASSUME NEW d \in Pods, d # p, Booting(d) \/ Running(d) \/ Managing(d) PROVE Goal
  <2>1. pod'[p] = pod[p]
    BY <1>0, <1>2 DEF Booting, Running, Managing, Load, Connect, ConnectFails, Migrate, MigrateFails,
      Probe, Grow, Shrink, Exit, Restart, Create, Delete, Crashed, Started
  <2> QED BY <1>0, <2>1
<1>3. CASE Load(p) \/ ConnectFails(p) \/ Migrate(p) \/ MigrateFails(p)
  <2>1. pod'[p].held \in {0, pod[p].held}
    BY <1>0, <1>3, ZenonT(60) DEF Load, ConnectFails, Migrate, MigrateFails, Crashed, Started, Fresh, Processes
  <2> QED BY <1>0, <2>1
<1>4. CASE Connect(p)
  <2>1. pod'[p].held = 1
    BY <1>0, <1>4 DEF Connect, Started, Processes
  <2> QED BY <2>1
<1>5. CASE Probe(p) \/ Exit(p) \/ Managing(p)
  <2>1. pod'[p].held \in {0, pod[p].held}
    BY <1>0, <1>5 DEF Probe, Exit, Managing, Restart, Create, Delete, Fresh, Processes
  <2> QED BY <1>0, <2>1
<1>6. CASE Grow(p)
  <2>1. pod'[p].held = pod[p].held + 1 /\ pod[p].held < maxConns(env(p))
    BY <1>0, <1>6 DEF Grow, Processes
  <2> QED BY <1>0, <2>1, Sizes
<1>7. CASE Shrink(p)
  <2>1. pod'[p].held = pod[p].held - 1
    BY <1>0, <1>7 DEF Shrink, Processes
  <2> QED BY <1>0, <2>1
<1>8. CASE DatabaseFails
  <2>1. pod'[p].held = 0
    BY <1>0, <1>8 DEF DatabaseFails, Processes
  <2> QED BY <1>0, <2>1
<1>9. CASE Tick
  <2>1. pod'[p].held = pod[p].held
    BY <1>0, <1>9 DEF Tick, Processes
  <2> QED BY <1>0, <2>1
<1>10. ASSUME NEW d \in Pods, Booting(d) \/ Running(d) \/ Managing(d) PROVE Goal
  BY <1>2, <1>3, <1>4, <1>5, <1>6, <1>7, <1>10 DEF Booting, Running
<1> QED BY <1>1, <1>8, <1>9, <1>10 DEF Next, DatabaseReturns, vars

LEMMA NextPool == TypeInv /\ PoolInv /\ [Next]_vars => PoolInv'
<1> SUFFICES ASSUME TypeInv, PoolInv, [Next]_vars, NEW p \in Pods
             PROVE  pod'[p].held <= Asked(p)'
  BY DEF PoolInv
<1>1. environ' = environ /\ pod'[p] \in Processes /\ pod[p] \in Processes
  BY NextMoves DEF EachMoves, TypeInv
<1>2. Asked(p)' = Asked(p)
  BY <1>1 DEF Asked, env
<1>3. pod'[p].held \in Nat /\ pod[p].held \in Nat /\ pod[p].held <= Asked(p)
  BY <1>1 DEF Processes, PoolInv
<1>4. pod'[p].held <= pod[p].held \/ pod'[p].held = 1 \/ pod'[p].held <= maxConns(env(p))
  BY NextHeld
<1> QED BY <1>2, <1>3, <1>4, Sizes

LEMMA InitPool == Init => PoolInv
<1> SUFFICES ASSUME Init, NEW p \in Pods PROVE pod[p].held <= Asked(p)
  BY DEF PoolInv
<1>1. pod[p].held \in {0, 1}
  <2>1. \A place : Fresh(place).held = 0
    BY DEF Fresh
  <2>2. [Fresh("serving") EXCEPT !.ready = TRUE, !.held = 1].held = 1
    BY DEF Fresh
  <2> QED BY <2>1, <2>2 DEF Init
<1> QED BY <1>1, Sizes

\* With pools that fit into max_connections, a pod that serves gets a
\* connection whenever the database is up (Ping), however many the others hold:
\* no pool outgrows its size, so that what is held falls short of what is asked
\* for by at least the connection that this pod lacks.
THEOREM ServingNotStarved == Spec => []NoneStarved
<1>1. TypeInv /\ PoolInv => NoneStarved
  <2> SUFFICES ASSUME TypeInv, PoolInv, PoolsFit, db.up, NEW p \in At("serving") PROVE Ping(p)
    BY DEF NoneStarved
  <2>1. p \in Pods /\ IsFiniteSet(Pods) /\ MaxConnections \in Nat
    BY BootAssumption DEF At, Pods
  <2>2. ASSUME pod[p].held = 0 PROVE Held < MaxConnections
    <3> DEFINE f == [d \in Pods |-> pod[d].held]
               h == [d \in Pods |-> Asked(d)]
    <3>1. f \in [Pods -> Nat] /\ h \in [Pods -> Nat]
      <4>1. \A d \in Pods : pod[d].held \in Nat
        BY DEF TypeInv, Processes
      <4> QED BY <4>1, Sizes
    <3>2. \A d \in Pods : f[d] <= h[d]
      BY DEF PoolInv
    <3>3. f[p] < h[p]
      BY <2>1, <2>2, Sizes
    <3>4. SumFunction(f) \in Int /\ SumFunction(h) \in Int /\ SumFunction(f) < SumFunction(h)
      <4> HIDE DEF f, h
      <4> QED BY <2>1, <3>1, <3>2, <3>3, SumMonotone
    <3>5. Held = SumFunction(f) /\ SumFunction(h) <= MaxConnections
      BY DEF Held, PoolsFit
    <3> HIDE DEF f, h
    <3> QED BY <2>1, <3>4, <3>5
  <2>3. pod[p].held \in Nat
    BY <2>1 DEF TypeInv, Processes
  <2>4. pod[p].held > 0 \/ pod[p].held = 0
    BY <2>3
  <2> QED BY <2>2, <2>4 DEF Ping
<1>2. Init => TypeInv /\ PoolInv
  BY InitTypes, InitPool
<1>3. TypeInv /\ PoolInv /\ [Next]_vars => (TypeInv /\ PoolInv)'
  BY NextMoves, NextPool
<1> QED BY <1>1, <1>2, <1>3, PTL DEF Spec

==============================================================================
