# Fleet telemetry: a verification development

TLA+ models of the fleet telemetry service in `src/`, TLC configurations that
check them on small instances, and TLAPS proofs of the properties that matter
most for every value of the constants. `PROJECT.json` maps every definition to
the lines it models.

## The system

Vehicles post readings; the service keeps their current state, counts entries
into zones, raises anomalies, and pushes every change to dashboards.

| Component | Code | State it keeps | Operations |
|---|---|---|---|
| telemetry ingestion | `app/ingestion_api.py`, `app/persistence.py` | `raw_events`, `vehicle_current_state`, `zone_counts`, `anomalies` | `POST /telemetry` |
| anomaly rules | `persistence.detect_anomalies`, `app/models.py` | none | event and prior reading to anomaly types |
| vehicle status | `app/ingestion_api.py`, `persistence.transition_to_fault`, `set_vehicle_status` | `vehicles`, `missions`, `maintenance_records` | `POST /vehicles/{id}/status` |
| CDC consumer and supervisor | `app/cdc_consumer.py`, `app/cdc.py` | `_last_lsn`, the replication stream; the slot at the primary | probe, ensure slot, stream, publish, confirm, back off |
| comms-loss watchdog | `app/watchdog.py`, `persistence.detect_comms_loss` | `anomalies`; nothing of its own | a sweep every second |
| frontend API | `app/frontend_api.py` | the set of WebSocket connections, one Redis subscription | connect and snapshot, fan-out, REST reads |
| dashboard | `web/src/transport.ts`, `App.tsx`, `*Store.ts` | three maps: vehicles, anomalies, zones | three REST seeds, patches from the WebSocket |
| migrations and seed | `app/migrate.py`, `app/migrations/` | the schema, one row per zone | `run_migrations`, `seed_zones` |
| pools | `app/db.py` | a pool for the primary, one for the replica | borrow, return |
| monitoring | `app/replication_probe.py`, `app/otel.py`, `web/src/otel.ts` | gauges, spans | none the system reads |

How they interact: both ingestion routes write to the primary. The CDC consumer
tails one logical slot of the primary and publishes a JSON event per row change
of `vehicle_current_state`, `anomalies` and `zone_counts` to a Redis channel. The
frontend API, in one subscriber task, forwards each message to every registered
WebSocket. A dashboard reads three REST snapshots (from the replica) and applies
the events it receives. The watchdog writes `anomalies` on its own; the
migrations create the publication the consumer waits for. The only shared state
between processes is Postgres (row locks, READ COMMITTED, the slot's confirmed
LSN) and the Redis channel, which remembers nothing.

### What is hard, and what makes each part correct

- *Ingestion.* Concurrent requests of one vehicle or one zone, a failure at any
  statement, an INTEGER at its limit. Correct: a committed event is in all four
  tables and a failed one in none; a counter is the number of committed entries;
  what is compared with the previous reading really is one; locks and
  connections always come back.
- *Anomaly rules.* Late and repeated readings, stale priors. Correct: a reading
  that is late or repeated makes no rule about elapsed time fire falsely, and a
  stale prior no false teleport. (A stale prior does make `stuck` fire falsely:
  see Findings.)
- *Vehicle status.* Concurrent and repeated fault requests, a dispatcher that
  writes missions meanwhile. Correct: one transition has one effect; one open
  record; no faulted vehicle with a mission or without a record.
- *CDC.* `_last_lsn` is advanced before a change is published; status updates are
  lost, late, or forgotten by a crashed primary; the slot and the publication are
  created in some order by different processes. Correct: nothing is skipped,
  nothing overtakes, a replay ends at the newest change, and the stream always
  gets going again.
- *Watchdog.* A sweep against readings in flight, a `now` that is old by the time
  it commits, readings that arrive late, a process nothing restarts but an
  operator. Correct: one flag per silence, no flag without one.
- *Frontend API.* A client that connects while patches are broadcast, a lagging
  replica, slow and dead clients, Redis gone, a snapshot that fails. Correct: no
  gap between snapshot and patches or among the patches, no client waits for ever
  for another, no dead connection stays registered.
- *Dashboard.* Seeds older than the patches they overwrite, patches for rows not
  there yet, replays, a seed that orders anomalies otherwise than the stream does.
  Correct: a row shows the newest change the browser was told of; an anomaly that
  only the seed told of, one of the latest by `detected_at`.
- *Migrations.* Two runs at once, a failure between two transactions, a live
  database. Correct: each migration once and in order, nothing missing after a run
  that ended well, no counter reset.

`PROJECT.json` lists the hazards line by line with the properties that would
catch each one going wrong.

## Plan

The order followed what would hurt most: data that is wrong in the tables, then
data that never reaches a dashboard, then what a dashboard makes of it.

| Modules | Composes | Abstract specification | Status |
|---|---|---|---|
| `FaultTransition` | | `FaultAtomic` | checked, proved |
| `TelemetryIngest`, `AnomalyRules`, `ReadingStream` | ingestion and rules | `IngestAtomic` | checked, proved |
| `IngestionApi` | `TelemetryIngest` and `FaultTransition` over one pool | the two modules it composes | checked, safety proved |
| `CdcConsumer` | consumer, supervisor, slot, writers | `ChangeStream` | checked, proved |
| `CommsLoss` | watchdog and ingestion | | checked, safety proved |
| `WsFanout` | subscriber, registry, handlers, replica, Redis | `LiveFeed` | checked, safety proved |
| `Dashboard` | `ChangeStream`, the REST reads, the browser's stores | | checked, safety proved |
| `Migrate` | racing runs, seed, ingestion | | checked, safety proved |

What a next step would add: `Dashboard` over `LiveFeed` itself with a frontend
that restarts.

## The modules

### FaultTransition, FaultAtomic

`FaultTransition` is `POST /vehicles/{id}/status` statement by statement, for a
set of `Requests` (a retry is another request). `vehicles`, `missions` and
`maintenance` are the committed tables; `tx[r]` is what the open transaction of
`r` has read (`seen`) and written (`cancels`, `opens`); `lockedBy` is the row lock
of `vehicles`, taken by `SELECT ... FOR UPDATE` or by the `UPDATE` of
`set_vehicle_status`, and kept until the transaction ends. `pc[r]` walks through
`Arrive`, `Borrow`, `LockVehicle`, `AlreadyFault` or `CancelActiveMission`,
`OpenMaintenance`, `SetVehicleFault`, `CommitFault`, `Respond`; `Fail` ends it at
any statement. `OpenMaintenance` reads `OpenRecords`, the partial unique index:
`ON CONFLICT DO NOTHING` writes nothing when it is not empty. Nothing in
`src/app` registers vehicles, assigns missions or resolves records, so these are
actions of the environment; `AssignUnderLock` says whether the dispatcher takes
the row lock.

`FaultAtomic` is the promise: one step that changes nothing or does all of it.
`OpenMaintenance` looks at the index one statement before `CommitFault`, and a
record may be resolved in between; the abstract step therefore opens no record
only for a vehicle that has one in the table.

### AnomalyRules, ReadingStream

`AnomalyRules` is `detect_anomalies` as an operator, with integers for the
thresholds (dm/s, dm, s) so that comparisons are exact; `IsTeleport` compares
squares in place of `math.hypot` and a division. `ReadingStream` is the sequence
of readings of one vehicle in commit order; its properties are about any two or
three of them, since a prior need not be the previous reading.

### TelemetryIngest, IngestAtomic

`TelemetryIngest` is `POST /telemetry` and the transaction of
`persist_telemetry`. `SelectPrior` reads without a lock and keeps what
`detect_anomalies` returned in `found[r]`; `UpsertCurrent` and `IncrementZone` take
the two row locks; `Commit` makes the four writes visible. `NaiveTimestamp`,
`ZoneOverflow`, `PoolTimeout` and `Fail` are the ways it ends otherwise, each with
an `answer` of its own. `IngestAtomic` is the promise: one step over the four
tables, in which the prior is some earlier committed state of the vehicle. The
code promises no more: two requests in flight read the same prior (see
Findings).

### IngestionApi

The ingestion process: `TelemetryIngest` and `FaultTransition` side by side by
INSTANCE, each over its own tables, with one pool. Both modules split the route
into `Connect` (a connection), `PoolTimeout` and `Transact` (from the connection
to the answer), so that the guard `PoolExhausted` can count the connections of
both routes. By itself a route counts its own for `Connect`, and its
`PoolTimeout` may come while it has connections left, since another route may
have taken the rest: that is what makes the process implement each of the two
modules (`Composition`). Clients, the dispatcher and failures act on one route at
a time (`Environment`).

### CdcConsumer, ChangeStream

`CdcConsumer` is the supervisor loop and the stream attempt it runs, with the
writers, the slot and Redis around it. `log` is what the slot has to send, in
commit order: for each committed transaction its changes, each with the LSN of
its own WAL record, then its COMMIT. `next` is the entry the consumer reads next,
`last_lsn` is `_last_lsn`, `feedback` the status updates in flight and `confirmed`
the slot's confirmed LSN. `Receive` is one XLogData message: `_last_lsn` first,
then the publish; `PublishFails` is the same when the publish raises, whether or
not Redis took the message. `Finally` sends the last status update, also after a
failed publish. A new attempt (`StartReplication`) starts with `_last_lsn = 0` at
the first transaction that was not confirmed. The server may confirm backwards,
forget confirmed LSNs in a crash, and keep the old connection for a while
(`SlotBusy`). Creating a slot waits for the transactions that were running; the
model waits for all that have written, a little longer than Postgres does.
`CdcConsumer.run` calls `ensure_slot` a second time, which then finds the slot:
one action stands for both.

`ChangeStream` is the promise: a cursor that moves forward only by publishing
what it points at, and may fall back.

### CommsLoss

The loop of `watchdog.py` and the sweep of `detect_comms_loss`, next to the upsert
of `vehicle_current_state`. The sweep is one `INSERT ... SELECT`: `TakeNow` fixes
`now`, `Sweep` is the statement and what its snapshot finds (`found`), `Commit`
makes the rows visible, so that readings commit between any two of them.
`EndProcess` is the exception nothing catches, with the rows committed or not;
`StartAgain` is whoever starts it again. `raw` holds every reading's
`recorded_at`, `recorded` the one in the row, which is the last to commit.
`recorded_at` is the vehicle's word: it may be ahead of the clock by `MaxAhead`
and, for vehicles not in `InOrder`, out of order. `MCCommsLoss` adds the time each
vehicle was last heard, which the code does not keep.

### WsFanout, LiveFeed

`WsFanout` is the frontend process as what it is, one asyncio loop: an action runs
from one await that can suspend to the next. `FanOut`, `Send` and `EndBroadcast`
are the subscriber (`message`, `todo`, `to`, `dead` are the locals of `broadcast`);
`Connect`, `ReadFleet`, `SendSnapshot`, `SeeDisconnect` and `SnapshotFails` are
`ws_endpoint`, which registers before it reads; `Stall`, `Unstall` and `Disconnect`
are the browser's side of a connection; `LoseRedis`, `EndSubscriber` and `Restart`
are what fails. A patch is the number of the commit it announces, a snapshot the
number of the last commit it shows; a replica read returns any number, behind or
ahead of Redis. The snapshot's second read only takes time.

`LiveFeed` is the promise: from registration on, a gapless prefix of what was
broadcast.

### Dashboard

From the tables to the screen. A change is a version, numbered in commit order; an
anomaly has a `detected_at` of its own, which is the event's `recorded_at` or the
watchdog's clock, so that it need not grow with the version and anomalies of one
event share it. The consumer is `ChangeStream`, whose refinement
by `CdcConsumer` is proved; the fan-out to the one browser is what `LiveFeed`
promises, with `socket` saying whether the browser is connected without a gap. A
REST read (`Answer`) is one replica snapshot, of any age; `ApplySeed` replaces a
store, `HandlePatch` folds one message into one store. `SeedVersions` is what the
snapshot may return for a row: the vehicle or zone as last written (`Newest`), but
for anomalies any of those with the largest `detected_at` (`Latest`), since the
`DISTINCT ON` has no tie-breaker. `ShowsNewest` accordingly demands the newest
version of every row that a patch could bring up to date, and one of the latest of
an anomaly that was published before the browser listened. `passed` is history: how far
the stream was when the store began to hear all of it. `Told` says what the
browser has a right to know: a row whose newest change is in its seed or came
after it. A change that falls between an old seed and the opening of the socket is
not, and is not shown until the row changes again (see Findings).

### Migrate

`run_migrations` and `seed_zones` as processes of their own: `pc[p]` walks through
`EnsureTable`, `ReadDone`, `Skip` or `Apply` for each file, `CommitMigrations`, then
`SeedZone` for each zone and `CommitSeed`. `pending[p]` is what the open transaction
has inserted; a key another one has inserted makes the statement wait, and a key
that has been committed since makes it fail (`Duplicate`, `TableExists`) or skip.
`Fail` may come anywhere and `Start` again after it. `effects` counts how often the
SQL of each file took effect. `Enter` is the ingestion API, counting meanwhile.
`Init` is an empty database or the one an earlier release left.

## Runs

| Run | Instance | What it shows |
|---|---|---|
| `fault_safety` | 2 vehicles, 2 missions, 3 requests, 2 connections | every safety property, no circular wait, the refinement |
| `readings` | every sequence of 3 readings from 84 | late or repeated, none makes a timed rule fire; judged by a stale prior, none is a false teleport |
| `ingest_safety` | 4 requests, 3 connections, 2 vehicles (one sequential), 2 zones, counters up to 2 | exact counters, no circular wait, the prior of a sequential vehicle, the refinement |
| `api_liveness` | 2 requests per route, 2 connections, one row each | among those that hold a connection one can move; every request that arrives is answered |
| `cdc_safety` | 2 transactions, 2 rows, 2 failures | nothing skipped, order, convergence, everything decodable, refinement |
| `cdc_liveness` | 2 transactions, 1 row, 2 failures | every change is published in the end |
| `comms_loss` | 2 vehicles (one in order), 2 readings each, clock up to 6, timeout 1 | one flag per silence, no false one, none missing |
| `ws_fanout` | 2 browsers (one slow), 2 commits | gapless feed, nothing missed, delivery, clean registry |
| `dashboard` | 1 vehicle, 1 anomaly row, 2 changes, 1 replay, 2 values of `detected_at` | rows end at the newest change told, or at what the seed says is the latest anomaly |
| `migrate` | 2 processes, 3 runs each, 3 migrations, 2 zones | once and in order, complete, counters kept, every run ends |
| `ingest_naive_doc`, `comms_loss_doc` | | each shows one disagreement with the documentation (Findings) |

**Bounds.** Three status requests are one that commits, one that races it and
one that comes after a repair; two vehicles and two missions tell a vehicle's
rows from another's. Four telemetry requests let two contend for a zone while a
third has committed and a fourth waits for one of three connections; `MaxCount`
is 2 so that the overflow of an INTEGER happens; the events are chosen so that
they raise `stuck` and `battery_rising` in one order and no stateful rule in the
other (`teleport` has the run `readings`). In
`api_liveness` two connections are fewer than the four requests, and all
telemetry is for one row and one zone and all status updates for one vehicle, so
that a waiter can hold the connection another one needs; there are no missions,
whose locks `fault_safety` has. The readings lie on, above and below each
threshold, with positions one and two teleport distances apart. Two transactions
of up to two changes each interleave in the WAL (a change of the one that commits
last may have the lower LSN) and give the stream up to six entries;
`MaxFailures` is 2: a failure, and another while recovering from it;
`MaxUpdates` is 1 status update in flight besides the one `finally` sends, since
they leave a second apart. A timeout of 1 and a clock up to 6 are enough for a
silence, a flag, a reading and a second silence, `MaxAhead` 1 for a reading that
is newer than the sweep that meets it. Two commits let a patch fall before, into
and after the time a client takes to connect, and be under way to one client
while the next is queued; `Traced` is one of them, so that a message with and one
without a carrier occur. In `dashboard` two changes fall on the same row or on
different ones, and one replay repeats the first after the second; with two values
of `detected_at`, two anomalies of a vehicle are in the order of their insertion,
in the other order, or tied. Zones differ from vehicles only in being there from
the start, and with a third table the run would take longer than it is worth. Three migrations allow an
earlier release with none, some or all, and three runs of a process a failure, a
repetition and a run on a complete database. Requests, vehicles, missions,
transactions and rows are symmetric in the runs that check no liveness.

**Fairness.** The liveness properties assume weak fairness of what runs by
itself: a handler thread's own statements (a thread that can run does; Postgres
grants a free lock; a wait for a connection ends with one or with `PoolTimeout`);
the supervisor's own steps (its loop has no exit but `stop`), the server noticing
a dead connection (`wal_sender_timeout`), the migration and the end of
transactions; the watchdog's loop and the clock; the asyncio loop running what is
ready, a read of the replica that ends, and a full send buffer that drains or whose
keepalive ping times out; the browser's event loop, its three requests and the opening of its socket; a started
run of the migrations. Two of these rest on more than the code in `src/`: the
keepalive ping is uvicorn's default (`ws_ping_interval`, `ws_ping_timeout`), which
nothing in `src/` sets or turns off, and that a replica read ends rests on the
replica answering or its connection breaking. How far behind a replica is is not
bounded, and nothing is assumed of clients, failures, Redis, operators or status
updates: every liveness property holds without another
failure, client or confirmation, and where a failure may end a component for
good the property says so (`pc = "exited"`, the watchdog ending again and again,
a socket that is not open).

`CHECK_DEADLOCK` is off in `dashboard` and `migrate`, where everything bounded may
have happened: no more changes, no more runs. In the request models
`AllAnswered` is the only state in which nothing need happen.

## Proofs

Each proof module EXTENDS the component's module. All theorems hold for every
value of the constants under the named ASSUMEs of the modules, which TLC
evaluates in the runs (constants such as `None` are not values of a table, the
set of requests is finite where requests are counted).

- `FaultTransition_proofs`: type correctness, `AtMostOneOpenRecord`,
  `FaultLeavesRecord`, `GroundedVehicleHasNoMission`, `NoCircularWait`,
  `EffectsOnlyOnTransition` and the refinement of `FaultAtomic`. None is inductive: what makes them so is
  that between `LockVehicle` and the commit the transaction holds the row lock,
  that what it has seen under the lock is still the committed status, and that
  the record it will open, or one that made it open none, is still in the table.
  Deadlock freedom adds that whoever owns a row is past its first write
  (`HolderInv`) and that missions and index entries are written by the owner of
  the vehicle's row only (`WritesInv`): an owner meets no second lock.
- `TelemetryIngest_proofs`: type correctness, `ZoneCountsExact`,
  `NoCircularWait`, `PriorIsPrevious` and the refinement of `IngestAtomic`. The invariant: a
  transaction that has incremented holds the zone's lock and its `count` is the
  committed counter plus one; what it has found follows from a prior that is a
  past state of the vehicle; for a vehicle in `Sequential` there is one request
  in flight and that prior is the current row. Waits end because a vehicle's row
  is held from `UpsertCurrent` on and a zone's only from `IncrementZone` on, where
  nothing is left to wait for (`HolderInv`). The module also proves the two
  properties of the rules, over arbitrary integers: `LateOrRepeated` from the signs
  of the elapsed time, `StalePrior` as the triangle inequality - from
  `CauchySchwarz` for integers, two legal moves add up to a legal one.
- `IngestionApi_proofs`: `Composition` shows that a behaviour of the process is one
  of each route's module, for any pool (`FreeForEach`: a connection that is free
  for both routes is free for each). With the two proof modules instantiated, the
  theorems about each route by itself then hold in the process: `CountsExact`,
  `OneOpenRecord`, `FaultGrounds` and `Atomicity` (both refinements). The two
  `NoDeadlock` theorems together give `ConnectionsComeBack`: from any request that
  holds a connection the chain of waits ends (`ChainsEnd`) at one that holds a
  connection too and waits for no lock.
- `CdcConsumer_proofs`: type correctness, `ConfirmedIsPublished`,
  `PublishedInCommitOrder`, `CaughtUpShowsNewest`, `EverythingDecodable` and the
  refinement of `ChangeStream`. The heart of the invariant is `CoverInv`: no LSN that is
  confirmed, on its way, or about to be reported reaches a COMMIT the consumer
  has not read. It rests on a change's LSN being below its COMMIT's (`LogInv`), so
  reporting a change that was not published confirms nothing, and on commit order
  (`SortedInv`); with it a new attempt starts at or before the old cursor
  (`StartsBehind`), which gives the other properties. `EverythingDecodable` rests
  on an invariant of its own, `PublicationInv`: only a probe that saw the
  publication leads to `EnsureSlot`, no transaction that had written by then is
  open any more, and so all that an open transaction has written since is newer
  than the publication.
- `CommsLoss_proofs`: type correctness, `FlaggedOncePerSilence` and `NoFalseAlarm`.
  The invariant: the row's `recorded_at` is that of a reading, of the newest one if
  the vehicle reports in order; what the open sweep has found has a reading that is
  later than every flag and older than the timeout. Readings that commit after the
  sweep do not disturb it, since `raw` only grows, and nobody else flags.
- `WsFanout_proofs`: type correctness, the refinement of `LiveFeed`,
  `NothingMissed` and `NoLeak` (`RegistryExact`, stated in the proof module). The invariant ties the feed to the locals of `broadcast`: a
  registered client has received all of the feed since it was registered, except
  the message being broadcast exactly if it is still in `todo`; and what was
  broadcast before a client was registered had been published by then, so that a
  snapshot that is not behind Redis shows it.
- `Migrate_proofs`: type correctness, `AppliedOnceInOrder`, `CompleteBeforeServing`,
  `CountsNeverReset` and `NoDeadlock`. The invariant: a version that is pending is recorded by
  nobody and pending nowhere else (the primary key), what a run has passed is
  recorded or pending, and a zone pending in a seed has no row. For
  `NoDeadlock`: a key is pending only behind the position of its run
  (`PassedInv`), so that a run that meets it waits for one that is further on.
  `NoCircularWait` of `Migrate` is stated in the proof module.
- `Dashboard_proofs`: type correctness and `CaughtUpShowsNewest`. The invariant:
  behind every message on its way come all newer versions (`NoHoleInv`), since the
  consumer never skips one and a replay goes through all that follow; so a version
  a store was promised, by its seed or after it, has been reached by what the store
  shows or is still to come (`CoveredInv`). An anomaly the seed alone told of is as
  the seed had it, or a replay has begun that brings all its versions
  (`SeededInv`). That `Newest` has a maximum to choose is
  carried through the behaviour as `MaxInv`, one commit at a time, where a lemma
  would need an induction over the log.

Only model-checked: the liveness properties, since the prover does not reason
about ENABLED, and the runs that show a disagreement. Of what liveness rests on,
the part that is a safety property is proved: that nobody waits in a circle
(`NoDeadlock`, `ConnectionsComeBack`) behind `EveryRequestAnswered` and
`EveryRunEnds`, that the registry holds no connection without a handler (`NoLeak`)
behind `ClosedIsRemoved`, and that the stream never meets a change it cannot decode
(`NeverStuckOnOldChange`) behind `EveryChangePublished`. No proof is by induction
over data, and no operator is recursive.

## Findings

Two places where the code does less than its documentation says have a run, and
are quoted in `PROJECT.json`:

- `ingest_naive_doc`: a valid event without a UTC offset raises
  (`persistence.py:209`).
- `comms_loss_doc`: a reading that arrives late takes `recorded_at` back behind a
  flag, and the silence that follows is not flagged (`persistence.py:83`).

More were met while modelling and have no run of their own:

- The stuck rule compares with `>=` (`persistence.py:217`) although comparisons
  are said to be strict (`persistence.py:188`, `models.py:47`).
- `set_vehicle_status` reports `applied` for a status that does not change
  (`persistence.py:454`, `ingestion_api.py:131`).
- A vehicle faulted again while its record is open has its new mission cancelled
  and no record opened for it (`persistence.py:147`, `persistence.py:408`).
- An event that names a zone that is not seeded is accepted and counted nowhere
  (`persistence.py:268`, `persistence.py:244`).
- A change is published again after a break, whatever "once-per-committed-change
  guarantee" says (`cdc_consumer.py:346`); `ChangeStream` promises at least once.
- Without one request in flight, two events of a vehicle read the same prior
  (`persistence.py:246`, `persistence.py:261`): `PriorIsPrevious` is about the
  vehicles in `Sequential`, and `IngestAtomic` promises only an earlier state. The
  second may then be reported stuck although it is not: moving at 0 m/s at t = 0,
  at 3 m/s at t = 5 and at 0 m/s at t = 11, with the third reading judged against
  the first (`persistence.py:212`). `StalePriorNoFalseTeleport` has no counterpart
  for `stuck`.
- A client may receive patches before its snapshot, since it is registered first
  (`frontend_api.py:361`); the dashboard does not use the snapshot. Its two reads
  may show different states of the replica.
- Which anomaly of a vehicle is the latest is answered in two ways. The seed takes
  the largest `detected_at`, and among the anomalies of one event, which share it
  (`persistence.py:276`), whichever the sort puts first (`persistence.py:103`); the
  dashboard applies the patch that arrives last, not the one detected last
  (`anomalyStore.ts:50`). After a late reading, or an event with several
  anomalies, two dashboards may show different anomalies of a vehicle for as long
  as no further one is detected.
- Nothing reopens the WebSocket or asks for the seeds again (`transport.ts:203`),
  and a change that commits after the seed's replica snapshot and is published
  before the socket opens is shown only with the row's next change.
- `docker-compose.yml` starts no watchdog.

## Not modelled

Rendering, tracing and metrics, the replication probe, configuration and the load
generator: none of them writes state the system reads. `GET /fleet/state` and
`GET /anomalies` are single reads no component of the system uses. The replica
pool and the pools of the consumer-side processes are left out: what waits for
them holds no lock. The locks of missions are in `fault_safety` only; in
`api_liveness` there are none. Retries by clients are further requests with an
equal event: the code cannot tell them from new ones. Of what is modelled, the
texts of anomalies, the byte layout of pgoutput, the JSON of events and the SQL of
the migrations are abstracted, and a Redis publish is one step.
