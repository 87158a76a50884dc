--------------------------- MODULE TelemetryIngest ---------------------------
(***************************************************************************)
(* POST /telemetry, statement by statement: src/app/ingestion_api.py        *)
(* post_telemetry and the transaction of src/app/persistence.py             *)
(* persist_telemetry, for any number of concurrent requests.                *)
(*                                                                          *)
(* raw, current, zones and anomalies are the COMMITTED tables; what an open *)
(* transaction read or wrote is in prior[r], found[r] and count[r].  Two    *)
(* row locks are taken in a fixed order and held to the end: the vehicle's  *)
(* row of vehicle_current_state by the upsert (the key, if the row does not *)
(* exist yet), then the zone's row of zone_counts by the increment.         *)
(***************************************************************************)
EXTENDS AnomalyRules, FiniteSets

CONSTANTS Vehicles,   \* vehicle ids
          Zones,      \* the seeded zone ids
          Requests,   \* requests (a retry is another request, with an equal event)
          Events,     \* the valid events clients send
          PoolSize,   \* DB_POOL_MAX_SIZE
          MaxCount,   \* the largest INTEGER, 2^31 - 1 in Postgres
          Sequential  \* the vehicles that wait for an answer before they send again

ASSUME IngestAssumption ==
  /\ IsFiniteSet(Requests)
  /\ PoolSize \in Nat \ {0}
  /\ MaxCount \in Nat
  /\ Sequential \subseteq Vehicles
  /\ None \notin Requests \cup Vehicles \cup Zones

\* zone is a zone id, None, or an id that is not seeded; aware says that
\* recorded_at carries a UTC offset.
ASSUME EventAssumption ==
  \A e \in Events :
    /\ {"vehicle", "zone", "aware", "errors", "reading"} = DOMAIN e
    /\ e.vehicle \in Vehicles
    /\ e.aware \in BOOLEAN /\ e.errors \in BOOLEAN
    /\ e.reading # None

VARIABLES
  event,      \* the event each request carries
  raw,        \* raw_events: the requests whose event is committed
  current,    \* vehicle_current_state per vehicle, None = no row
  zones,      \* zone_counts.entry_count per zone
  anomalies,  \* anomalies rows, as <<request, type>>
  vehicleLock, zoneLock,  \* the request holding each row lock
  pc,         \* where the request's handler is
  prior,      \* the reading SELECT prior returned
  found,      \* the anomalies detect_anomalies returned
  count,      \* the entry_count the transaction has written
  answer      \* what the client was told

tables == <<event, raw, current, zones, anomalies>>
locks == <<vehicleLock, zoneLock>>
local == <<prior, found, count>>
vars == <<tables, locks, pc, local, answer>>

-----------------------------------------------------------------------------
InTransaction == {"connected", "read", "upserted", "counted"}

HoldsConnection(r) == pc[r] \in InTransaction

PoolExhausted == Cardinality({r \in Requests : HoldsConnection(r)}) >= PoolSize

\* A request that carries an event of the same vehicle and is not answered.
InFlight(v) == {r \in Requests : event[r].vehicle = v /\ pc[r] \notin {"idle", "done"}}

Init ==
  /\ event \in [Requests -> Events]
  /\ raw = {}
  /\ current = [v \in Vehicles |-> None]
  /\ zones = [z \in Zones |-> 0]
  /\ anomalies = {}
  /\ vehicleLock = [v \in Vehicles |-> None]
  /\ zoneLock = [z \in Zones |-> None]
  /\ pc = [r \in Requests |-> "idle"]
  /\ prior = [r \in Requests |-> None]
  /\ found = [r \in Requests |-> {}]
  /\ count = [r \in Requests |-> 0]
  /\ answer = [r \in Requests |-> None]

-----------------------------------------------------------------------------
\* The route: the request arrives and a connection is borrowed from the pool.

Arrive(r) ==
  /\ pc[r] = "idle"
  /\ event[r].vehicle \in Sequential => InFlight(event[r].vehicle) = {}
  /\ pc' = [pc EXCEPT ![r] = "waiting"]
  /\ UNCHANGED <<tables, locks, local, answer>>

Connect(r) ==
  /\ pc[r] = "waiting"
  /\ pc' = [pc EXCEPT ![r] = "connected"]
  /\ UNCHANGED <<tables, locks, local, answer>>

Borrow(r) == ~PoolExhausted /\ Connect(r)

Release(lock, r) == [k \in DOMAIN lock |-> IF lock[k] = r THEN None ELSE lock[k]]

\* The handler ends with an exception: the transaction, if there is one, rolls
\* back, its locks go, and the client gets a 500 or no answer.
Refuse(r) ==
  /\ vehicleLock' = Release(vehicleLock, r)
  /\ zoneLock' = Release(zoneLock, r)
  /\ pc' = [pc EXCEPT ![r] = "done"]
  /\ UNCHANGED <<tables, local>>

\* No connection came back in time (psycopg_pool raises PoolTimeout): these
\* requests have them all, or another route of the process has the rest.
PoolTimeout(r) ==
  /\ pc[r] = "waiting"
  /\ Refuse(r)
  /\ answer' = [answer EXCEPT ![r] = "pool_timeout"]

-----------------------------------------------------------------------------
\* persist_telemetry.

\* The prior read after the upsert: the event is compared with itself.
SelectPrior_Self(r) ==
  LET e == event[r] IN
  /\ pc[r] = "connected"
  /\ current[e.vehicle] = None \/ e.aware
  /\ prior' = [prior EXCEPT ![r] = e.reading]
  /\ found' = [found EXCEPT ![r] = DetectAnomalies(e.reading, e.errors, e.reading)]
  /\ pc' = [pc EXCEPT ![r] = "read"]
  /\ UNCHANGED <<tables, locks, count, answer>>

\* SELECT prior (no lock), then detect_anomalies on what it returned.
SelectPrior(r) ==
  LET e == event[r] IN
  /\ pc[r] = "connected"
  /\ current[e.vehicle] = None \/ e.aware
  /\ prior' = [prior EXCEPT ![r] = current[e.vehicle]]
  /\ found' = [found EXCEPT ![r] = DetectAnomalies(e.reading, e.errors, current[e.vehicle])]
  /\ pc' = [pc EXCEPT ![r] = "read"]
  /\ UNCHANGED <<tables, locks, count, answer>>

\* recorded_at without an offset: subtracting the persisted, offset-aware time
\* raises TypeError as soon as there is a prior to compare with.
NaiveTimestamp(r) ==
  /\ pc[r] = "connected"
  /\ current[event[r].vehicle] # None
  /\ ~event[r].aware
  /\ Refuse(r)
  /\ answer' = [answer EXCEPT ![r] = "type_error"]

\* INSERT raw (nobody can see or block it), then INSERT ... ON CONFLICT DO
\* UPDATE, which waits for the transaction that has written the same key.
UpsertCurrent(r) ==
  LET v == event[r].vehicle IN
  /\ pc[r] = "read"
  /\ vehicleLock[v] = None
  /\ vehicleLock' = [vehicleLock EXCEPT ![v] = r]
  /\ pc' = [pc EXCEPT ![r] = "upserted"]
  /\ UNCHANGED <<tables, zoneLock, local, answer>>

\* SELECT entry_count, then UPDATE ... SET entry_count = <value read> + 1.
IncrementZone_ReadThenWrite(r) ==
  LET z == event[r].zone IN
  /\ pc[r] = "upserted"
  /\ z \in Zones
  /\ zones[z] < MaxCount
  /\ count' = [count EXCEPT ![r] = zones[z] + 1]
  /\ pc' = [pc EXCEPT ![r] = "counted"]
  /\ UNCHANGED <<tables, locks, prior, found, answer>>

\* UPDATE zone_counts SET entry_count = entry_count + 1: waits for the row
\* lock and increments the value committed by then.
IncrementZone(r) ==
  LET z == event[r].zone IN
  /\ pc[r] = "upserted"
  /\ z \in Zones
  /\ zoneLock[z] = None
  /\ zones[z] < MaxCount
  /\ zoneLock' = [zoneLock EXCEPT ![z] = r]
  /\ count' = [count EXCEPT ![r] = zones[z] + 1]
  /\ pc' = [pc EXCEPT ![r] = "counted"]
  /\ UNCHANGED <<tables, vehicleLock, prior, found, answer>>

\* "integer out of range": the statement fails and the event with it.
ZoneOverflow(r) ==
  LET z == event[r].zone IN
  /\ pc[r] = "upserted"
  /\ z \in Zones
  /\ zoneLock[z] = None
  /\ zones[z] >= MaxCount
  /\ Refuse(r)
  /\ answer' = [answer EXCEPT ![r] = "overflow"]

\* No zone entered, or an UPDATE that matches no row.
NoZoneRow(r) ==
  /\ pc[r] = "upserted"
  /\ event[r].zone \notin Zones
  /\ pc' = [pc EXCEPT ![r] = "counted"]
  /\ UNCHANGED <<tables, locks, local, answer>>

\* The anomaly rows in a transaction of their own: they survive its failure.
Fail_KeepsAnomalies(r) ==
  /\ pc[r] \in InTransaction \cup {"committed"}
  /\ anomalies' = anomalies \cup ({r} \X found[r])
  /\ vehicleLock' = Release(vehicleLock, r)
  /\ zoneLock' = Release(zoneLock, r)
  /\ pc' = [pc EXCEPT ![r] = "done"]
  /\ answer' = [answer EXCEPT ![r] = "error"]
  /\ UNCHANGED <<event, raw, current, zones, local>>

\* The zone counter upserted: an unknown or missing zone gets a row.
Commit_UpsertsZone(r) ==
  LET e == event[r] IN
  /\ pc[r] = "counted"
  /\ raw' = raw \cup {r}
  /\ current' = [current EXCEPT ![e.vehicle] = e.reading]
  /\ zones' = [z \in Zones \cup {e.zone} |->
                 IF z \notin Zones THEN 1 ELSE IF z = e.zone THEN count[r] ELSE zones[z]]
  /\ anomalies' = anomalies \cup ({r} \X found[r])
  /\ vehicleLock' = Release(vehicleLock, r)
  /\ zoneLock' = Release(zoneLock, r)
  /\ pc' = [pc EXCEPT ![r] = "committed"]
  /\ UNCHANGED <<event, local, answer>>

\* INSERT anomalies (nobody can see or block them), then COMMIT.
Commit(r) ==
  LET e == event[r] IN
  /\ pc[r] = "counted"
  /\ raw' = raw \cup {r}
  /\ current' = [current EXCEPT ![e.vehicle] = e.reading]
  /\ zones' = [z \in Zones |-> IF z = e.zone THEN count[r] ELSE zones[z]]
  /\ anomalies' = anomalies \cup ({r} \X found[r])
  /\ vehicleLock' = Release(vehicleLock, r)
  /\ zoneLock' = Release(zoneLock, r)
  /\ pc' = [pc EXCEPT ![r] = "committed"]
  /\ UNCHANGED <<event, local, answer>>

Respond(r) ==
  /\ pc[r] = "committed"
  /\ pc' = [pc EXCEPT ![r] = "done"]
  /\ answer' = [answer EXCEPT ![r] = "accepted"]
  /\ UNCHANGED <<tables, locks, local>>

\* The connection goes back to the pool with the zone row still locked.
Fail_KeepsZoneLock(r) ==
  /\ pc[r] \in InTransaction \cup {"committed"}
  /\ vehicleLock' = Release(vehicleLock, r)
  /\ pc' = [pc EXCEPT ![r] = "done"]
  /\ answer' = [answer EXCEPT ![r] = "error"]
  /\ UNCHANGED <<tables, zoneLock, local>>

\* A statement fails, the connection drops or the process dies.
Fail(r) ==
  /\ pc[r] \in InTransaction \cup {"committed"}
  /\ Refuse(r)
  /\ answer' = [answer EXCEPT ![r] = "error"]

-----------------------------------------------------------------------------
\* From the connection to the answer.
Transact(r) ==
  \/ SelectPrior(r) \/ NaiveTimestamp(r) \/ UpsertCurrent(r)
  \/ IncrementZone(r) \/ ZoneOverflow(r) \/ NoZoneRow(r)
  \/ Commit(r) \/ Respond(r)

HandlerStep(r) == Borrow(r) \/ PoolTimeout(r) \/ Transact(r)

AllAnswered == (\A r \in Requests : pc[r] = "done") /\ UNCHANGED vars

Next ==
  \/ \E r \in Requests : Arrive(r) \/ HandlerStep(r) \/ Fail(r)
  \/ AllAnswered

Spec == Init /\ [][Next]_vars

-----------------------------------------------------------------------------
\* Every variable keeps its shape.
TypeOK ==
  /\ event \in [Requests -> Events]
  /\ raw \subseteq Requests
  /\ current \in [Vehicles -> {None} \cup {e.reading : e \in Events}]
  /\ zones \in [Zones -> 0..MaxCount]
  /\ anomalies \subseteq Requests \X AnomalyTypes
  /\ vehicleLock \in [Vehicles -> Requests \cup {None}]
  /\ zoneLock \in [Zones -> Requests \cup {None}]
  /\ pc \in [Requests -> InTransaction \cup {"idle", "waiting", "committed", "done"}]
  /\ prior \in [Requests -> {None} \cup {e.reading : e \in Events}]
  /\ found \in [Requests -> SUBSET AnomalyTypes]
  /\ count \in [Requests -> 0..MaxCount]
  /\ answer \in [Requests -> {None, "accepted", "pool_timeout", "type_error", "overflow", "error"}]

\* The requests whose committed event entered the zone.
Entries(z) == {r \in raw : event[r].zone = z}

\* ADR: "guarantees no lost counts".  Under any interleaving, failure or
\* overflow, a zone's counter is the number of its committed entry events.
ZoneCountsExact == \A z \in Zones : zones[z] = Cardinality(Entries(z))

\* The requests that hold the row lock r waits for.
BlockedBy(r) ==
  {q \in Requests :
     \/ pc[r] = "read" /\ vehicleLock[event[r].vehicle] = q
     \/ pc[r] = "upserted" /\ event[r].zone \in Zones /\ zoneLock[event[r].zone] = q}

\* No deadlock among the transactions: a request waits only for one that is in
\* its transaction, and whoever that one waits for waits for nobody.  It rests on
\* the order of the two locks and on every way out releasing both.
NoCircularWait ==
  \A r \in Requests : \A q \in BlockedBy(r) :
    HoldsConnection(q) /\ \A p \in BlockedBy(q) : BlockedBy(p) = {}

\* The events of a vehicle that has one request in flight at a time are compared
\* with the reading committed just before, whatever the others do.
PriorIsPrevious ==
  [][\A r \in raw' \ raw : event[r].vehicle \in Sequential =>
       prior[r] = current[event[r].vehicle]]_vars

\* The statements of persist_telemetry add up to one atomic step.
Atomic == INSTANCE IngestAtomic WITH
  event <- event, raw <- raw, current <- current, zones <- zones, anomalies <- anomalies
ImplementsAtomic == Atomic!Spec

\* post_telemetry: "A valid event is committed synchronously" - no valid event
\* makes the handler raise by itself.
ValidEventNeverRaises == \A r \in Requests : answer[r] # "type_error"
=============================================================================
