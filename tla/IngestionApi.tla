---------------------------- MODULE IngestionApi ----------------------------
(***************************************************************************)
(* The process of src/app/ingestion_api.py: both routes at once, each over  *)
(* its own tables (TelemetryIngest, FaultTransition), and the one thing     *)
(* they share, the connection pool of src/app/db.py get_pool.  A request    *)
(* that waits for a row lock keeps its connection, whichever route it is    *)
(* of, and so do the requests that wait for it.                             *)
(***************************************************************************)
EXTENDS Naturals, FiniteSets

CONSTANTS Reporting,       \* the vehicles that report
          Zones, Posts,    \* the zones, and the requests of POST /telemetry
          Events, MaxCount, Sequential,
          Vehicles, Missions, Updates,   \* and of POST /vehicles/{id}/status
          OtherStatuses, AssignUnderLock,
          PoolSize, None

\* What the two modules assume, of their parameters here.
ASSUME TelemetryAssumption ==
  /\ IsFiniteSet(Posts)
  /\ MaxCount \in Nat
  /\ Sequential \subseteq Reporting
  /\ None \notin Posts \cup Reporting \cup Zones
  /\ \A e \in Events :
       /\ {"vehicle", "zone", "aware", "errors", "reading"} = DOMAIN e
       /\ e.vehicle \in Reporting
       /\ e.aware \in BOOLEAN /\ e.errors \in BOOLEAN
       /\ e.reading # None
ASSUME StatusAssumption ==
  /\ IsFiniteSet(Updates)
  /\ AssignUnderLock \in BOOLEAN
  /\ None \notin Vehicles \cup Missions \cup Updates \cup OtherStatuses \cup {"fault"}
  /\ None \notin [vehicle : Vehicles, mission : Missions \cup {None}, open : BOOLEAN]
  /\ "fault" \notin OtherStatuses
ASSUME PoolAssumption == PoolSize \in Nat \ {0}

VARIABLES
  event, raw, current, zones, anomalies, vehicleLock, zoneLock,
  ingestPc, prior, found, count, ingestAnswer,
  vehicles, missions, maintenance, lockedBy, call, statusPc, tx, statusAnswer

ingest == <<event, raw, current, zones, anomalies, vehicleLock, zoneLock,
            ingestPc, prior, found, count, ingestAnswer>>
status == <<vehicles, missions, maintenance, lockedBy, call, statusPc, tx, statusAnswer>>
vars == <<ingest, status>>

Telemetry == INSTANCE TelemetryIngest WITH
  Vehicles <- Reporting, Requests <- Posts, pc <- ingestPc, answer <- ingestAnswer
Status == INSTANCE FaultTransition WITH
  Requests <- Updates, pc <- statusPc, answer <- statusAnswer

\* One pool for both routes.
Connections ==
  Cardinality({r \in Posts : Telemetry!HoldsConnection(r)})
    + Cardinality({r \in Updates : Status!HoldsConnection(r)})

PoolExhausted == Connections >= PoolSize

Init == Telemetry!Init /\ Status!Init

\* What a handler of POST /telemetry does by itself.
PostTelemetry(r) ==
  /\ \/ ~PoolExhausted /\ Telemetry!Connect(r)
     \/ PoolExhausted /\ Telemetry!PoolTimeout(r)
     \/ Telemetry!Transact(r)
  /\ UNCHANGED status

\* What a handler of POST /vehicles/{id}/status does by itself.
PostVehicleStatus(r) ==
  /\ \/ ~PoolExhausted /\ Status!Connect(r)
     \/ PoolExhausted /\ Status!PoolTimeout(r)
     \/ Status!Transact(r)
  /\ UNCHANGED ingest

\* Clients, failures, and the services that assign missions.
Environment ==
  \/ \E r \in Posts : (Telemetry!Arrive(r) \/ Telemetry!Fail(r)) /\ UNCHANGED status
  \/ \E r \in Updates : (Status!Arrive(r) \/ Status!Fail(r)) /\ UNCHANGED ingest
  \/ Status!Environment /\ UNCHANGED ingest

AllAnswered ==
  /\ \A r \in Posts : ingestPc[r] = "done"
  /\ \A r \in Updates : statusPc[r] = "done"
  /\ UNCHANGED vars

Next ==
  \/ \E r \in Posts : PostTelemetry(r)
  \/ \E r \in Updates : PostVehicleStatus(r)
  \/ Environment
  \/ AllAnswered

Spec == Init /\ [][Next]_vars

\* A handler thread that can run does run; clients and failures owe nothing.
FairSpec ==
  /\ Spec
  /\ \A r \in Posts : WF_vars(PostTelemetry(r))
  /\ \A r \in Updates : WF_vars(PostVehicleStatus(r))

-----------------------------------------------------------------------------
\* The requests that hold a connection and wait for no lock.
MovingPosts == {r \in Posts : Telemetry!HoldsConnection(r) /\ Telemetry!BlockedBy(r) = {}}
MovingUpdates == {r \in Updates : Status!HoldsConnection(r) /\ Status!BlockedBy(r) = {}}

\* Held connections come back: of the requests of a route that hold one, some
\* request waits for no lock, whatever the other route, a full pool, timeouts and
\* failures did before.  So the pool is never exhausted by waiters alone.
HeldConnectionsComeBack ==
  /\ (\E r \in Posts : Telemetry!HoldsConnection(r)) => MovingPosts # {}
  /\ (\E r \in Updates : Status!HoldsConnection(r)) => MovingUpdates # {}

\* Every request of either route that arrives is answered: the row locks of
\* each route are taken in one order and released, those of one route never
\* wait for those of the other, and a wait for the pool ends.
EveryRequestAnswered ==
  /\ \A r \in Posts : ingestPc[r] = "waiting" ~> ingestPc[r] = "done"
  /\ \A r \in Updates : statusPc[r] = "waiting" ~> statusPc[r] = "done"
=============================================================================
