------------------------------- MODULE Catalog -------------------------------
(***************************************************************************)
(* The device registry of internal/catalog: the two repositories and the   *)
(* handlers over them, one operation at a time.  Replicas share the        *)
(* database, so one value of devices stands for all of them.               *)
(*                                                                         *)
(* An id is a number, in the order of the ids.  The same id with capitals  *)
(* or blanks around it is the negative of the number; a blank string is    *)
(* NoId, and any other that idPattern refuses is BadId: that is as much as *)
(* normalisation and validation tell apart.  Strings that do not survive   *)
(* the way through a URL are added by module Gateway.                      *)
(***************************************************************************)
EXTENDS Integers, FiniteSets

CONSTANTS
    MaxId,                  \* bound of the model: ids there are
    Respelled,              \* ids that clients also spell in other ways
    Sites,                  \* sites of devices
    DefaultLimit, MaxLimit  \* defaultLimit and maxLimit of device.go

ASSUME CatalogAssumption ==
    /\ MaxId \in Nat /\ Respelled \subseteq 1 .. MaxId
    /\ DefaultLimit \in Nat \ {0} /\ MaxLimit \in Nat \ {0}
    /\ DefaultLimit <= MaxLimit

VARIABLES
    store,   \* which Repository is wired in: "memory" or "postgres"
    devices  \* the registered devices: a function on their ids

Ids == 1 .. MaxId
NoId == 0
BadId == MaxId + 1
RawIds == {NoId, BadId} \cup Ids \cup {-i : i \in Respelled}
NoSite == "any"

-----------------------------------------------------------------------------
(* Validation and normalisation.                                           *)

\* strings.ToLower(strings.TrimSpace(id)).
normalise(raw) == IF raw < 0 THEN -raw ELSE raw

\* Device.Validate: for a device to be created; lookups do without it.
Validate(raw) == normalise(raw) \in Ids

\* ListOptions.Normalise, on the limit.
clamp(limit) ==
    IF limit <= 0 THEN DefaultLimit ELSE IF limit > MaxLimit THEN MaxLimit ELSE limit

-----------------------------------------------------------------------------
(* Listing.                                                                *)

\* The first n ids of a set, in their order.
First(S, n) == {x \in S : Cardinality({y \in S : y < x}) < n}

\* The last id of a page.
Last(S) == CHOOSE x \in S : \A y \in S : y <= x

\* Seeded fault: the next page begins with the last device of this one.
Fault_matchesFromCursor(site, cursor) ==
    {i \in DOMAIN devices : /\ site = NoSite \/ devices[i].site = site
                            /\ cursor = NoId \/ i >= normalise(cursor)}

\* The devices behind the cursor, of the site if one is asked for.
matching(site, cursor) ==
    {i \in DOMAIN devices : /\ site = NoSite \/ devices[i].site = site
                            /\ cursor = NoId \/ i > normalise(cursor)}

\* MemoryRepository cuts a page off all the devices that match, and
\* PostgresRepository off one row more than the page has.
rows(site, cursor, limit) ==
    IF store = "memory" THEN matching(site, cursor)
                        ELSE First(matching(site, cursor), limit + 1)

\* Handler.List, as the status it answers.
listStatus(limit) == IF limit < 0 THEN 400 ELSE 200

\* List: the page, and the cursor for the next one if there is more.
List(site, cursor, limit) ==
    LET fetched == rows(site, cursor, clamp(limit))
        page    == First(fetched, clamp(limit))
    IN  IF Cardinality(fetched) > clamp(limit)
        THEN [ids |-> page, next |-> Last(page)]
        ELSE [ids |-> fetched, next |-> NoId]

-----------------------------------------------------------------------------
(* Single devices.                                                         *)

\* Repository.Get: is the device there?
Get(id) == id \in DOMAIN devices

\* Handler.Get, as the status it answers.
getStatus(raw) ==
    IF normalise(raw) = NoId THEN 400
    ELSE IF Get(normalise(raw)) THEN 200 ELSE 404

\* Seeded fault: an insert that replaces what is there.
Fault_createStatusUpsert(raw) == IF ~Validate(raw) THEN 400 ELSE 201

\* Handler.Create, as the status it answers.
createStatus(raw) ==
    IF ~Validate(raw) THEN 400
    ELSE IF normalise(raw) \in DOMAIN devices THEN 409 ELSE 201

\* The table with the device in it that a POST asks for, if it is accepted.
afterCreate(raw, device) ==
    IF createStatus(raw) # 201 THEN devices
    ELSE [i \in DOMAIN devices \cup {normalise(raw)} |->
            IF i = normalise(raw) THEN device ELSE devices[i]]

\* A repository call fails, with PostgreSQL only.  Handlers answer 500.
mayFail == store = "postgres"

\* Create.  When the connection breaks under the INSERT, the handler answers
\* 500 and does not know whether the row is there.
Create(raw, device, status) ==
    \/ /\ status = createStatus(raw)
       /\ devices' = afterCreate(raw, device)
    \/ /\ mayFail /\ Validate(raw) /\ status = 500
       /\ devices' \in {devices, afterCreate(raw, device)}
==============================================================================
