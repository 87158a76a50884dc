------------------------- MODULE IngestionApi_proofs -------------------------
(***************************************************************************)
(* Proofs about the process with both routes.  Each route, seen by itself,  *)
(* runs as its own module says: a step of the other leaves its tables and   *)
(* its handlers alone, and a pool with a free connection for both has one   *)
(* for each (Composition).  So what is proved of a route by itself holds in *)
(* the process, and the two together leave nobody waiting for ever.         *)
(***************************************************************************)
EXTENDS IngestionApi, FiniteSetTheorems, TLAPS

\* The theorems about each route.  (ReadingStream's sequence has no part here.)
TelemetryProofs == INSTANCE TelemetryIngest_proofs WITH
  Vehicles <- Reporting, Requests <- Posts, pc <- ingestPc, answer <- ingestAnswer,
  Readings <- {}, MaxReadings <- 0, readings <- <<>>
StatusProofs == INSTANCE FaultTransition_proofs WITH
  Requests <- Updates, pc <- statusPc, answer <- statusAnswer

-----------------------------------------------------------------------------
\* A connection that is free for both routes is free for each.
LEMMA FreeForEach ==
  ASSUME ~PoolExhausted
  PROVE  ~Telemetry!PoolExhausted /\ ~Status!PoolExhausted
<1> DEFINE A == {r \in Posts : Telemetry!HoldsConnection(r)}
           B == {r \in Updates : Status!HoldsConnection(r)}
<1>1. IsFiniteSet(A) /\ IsFiniteSet(B)
  BY FS_Subset, TelemetryAssumption, StatusAssumption
<1>2. Cardinality(A) \in Nat /\ Cardinality(B) \in Nat
  BY <1>1, FS_CardinalityType
<1>3. Cardinality(A) + Cardinality(B) < PoolSize
  BY <1>2, PoolAssumption DEF PoolExhausted, Connections
<1>4. Telemetry!Cardinality(A) = Cardinality(A) /\ Status!Cardinality(B) = Cardinality(B)
  BY DEF Telemetry!Cardinality, Status!Cardinality, Cardinality
<1> QED
  BY <1>2, <1>3, <1>4, PoolAssumption DEF Telemetry!PoolExhausted, Status!PoolExhausted

LEMMA TelemetryStep == [Next]_vars => [Telemetry!Next]_(Telemetry!vars)
<1> SUFFICES ASSUME [Next]_vars PROVE [Telemetry!Next]_(Telemetry!vars)
  OBVIOUS
<1>1. ASSUME NEW r \in Posts, PostTelemetry(r) PROVE Telemetry!Next
  BY <1>1, FreeForEach DEF PostTelemetry, Telemetry!Next, Telemetry!HandlerStep, Telemetry!Borrow
<1>2. ASSUME NEW r \in Posts, Telemetry!Arrive(r) \/ Telemetry!Fail(r) PROVE Telemetry!Next
  BY <1>2 DEF Telemetry!Next
<1>3. CASE UNCHANGED ingest
  BY <1>3 DEF ingest, Telemetry!vars, Telemetry!tables, Telemetry!locks, Telemetry!local
<1> QED
  BY <1>1, <1>2, <1>3 DEF Next, PostVehicleStatus, Environment, AllAnswered, vars

LEMMA StatusStep == [Next]_vars => [Status!Next]_(Status!vars)
<1> SUFFICES ASSUME [Next]_vars PROVE [Status!Next]_(Status!vars)
  OBVIOUS
<1>1. ASSUME NEW r \in Updates, PostVehicleStatus(r) PROVE Status!Next
  BY <1>1, FreeForEach DEF PostVehicleStatus, Status!Next, Status!HandlerStep, Status!Borrow
<1>2. ASSUME NEW r \in Updates, Status!Arrive(r) \/ Status!Fail(r) PROVE Status!Next
  BY <1>2 DEF Status!Next
<1>3. CASE Status!Environment
  BY <1>3 DEF Status!Next
<1>4. CASE UNCHANGED status
  BY <1>4 DEF status, Status!vars
<1> QED
  BY <1>1, <1>2, <1>3, <1>4 DEF Next, PostTelemetry, Environment, AllAnswered, vars

\* Each route of the process runs as it does by itself, whatever the other does
\* to the pool.
THEOREM Composition == Spec => Telemetry!Spec /\ Status!Spec
<1>1. Init => Telemetry!Init /\ Status!Init
  BY DEF Init
<1> QED
  BY <1>1, TelemetryStep, StatusStep, PTL DEF Spec, Telemetry!Spec, Status!Spec

-----------------------------------------------------------------------------
\* A module and its instance under the proofs are the same.
LEMMA SameTelemetry == Telemetry!Spec => TelemetryProofs!Spec
<1>1. Telemetry!Init <=> TelemetryProofs!Init
  BY DEF Telemetry!Init, TelemetryProofs!Init
<1>2. Telemetry!Next <=> TelemetryProofs!Next
  BY Zenon DEF Telemetry!tables, TelemetryProofs!tables, Telemetry!locks, TelemetryProofs!locks,
     Telemetry!local, TelemetryProofs!local, Telemetry!vars, TelemetryProofs!vars,
     Telemetry!InTransaction, TelemetryProofs!InTransaction, Telemetry!HoldsConnection,
     TelemetryProofs!HoldsConnection, Telemetry!PoolExhausted,
     TelemetryProofs!PoolExhausted, Telemetry!Cardinality, TelemetryProofs!Cardinality,
     Telemetry!InFlight, TelemetryProofs!InFlight, Telemetry!Arrive, TelemetryProofs!Arrive,
     Telemetry!Connect, TelemetryProofs!Connect, Telemetry!Borrow, TelemetryProofs!Borrow,
     Telemetry!Release, TelemetryProofs!Release, Telemetry!Refuse, TelemetryProofs!Refuse,
     Telemetry!PoolTimeout, TelemetryProofs!PoolTimeout, Telemetry!SelectPrior,
     TelemetryProofs!SelectPrior, Telemetry!NaiveTimestamp, TelemetryProofs!NaiveTimestamp,
     Telemetry!UpsertCurrent, TelemetryProofs!UpsertCurrent, Telemetry!IncrementZone,
     TelemetryProofs!IncrementZone, Telemetry!ZoneOverflow, TelemetryProofs!ZoneOverflow,
     Telemetry!NoZoneRow, TelemetryProofs!NoZoneRow, Telemetry!Commit,
     TelemetryProofs!Commit, Telemetry!Respond, TelemetryProofs!Respond, Telemetry!Fail,
     TelemetryProofs!Fail, Telemetry!Transact, TelemetryProofs!Transact,
     Telemetry!HandlerStep, TelemetryProofs!HandlerStep, Telemetry!AllAnswered,
     TelemetryProofs!AllAnswered, Telemetry!Next, TelemetryProofs!Next,
     Telemetry!DetectAnomalies, TelemetryProofs!DetectAnomalies, Telemetry!Stateless,
     TelemetryProofs!Stateless, Telemetry!Stateful, TelemetryProofs!Stateful,
     Telemetry!When, TelemetryProofs!When, Telemetry!IsStuck, TelemetryProofs!IsStuck,
     Telemetry!IsTeleport, TelemetryProofs!IsTeleport, Telemetry!IsBatteryRising,
     TelemetryProofs!IsBatteryRising, Telemetry!Square, TelemetryProofs!Square,
     Telemetry!LowBatteryPct, TelemetryProofs!LowBatteryPct, Telemetry!OverspeedDmps,
     TelemetryProofs!OverspeedDmps, Telemetry!StuckSpeedDmps,
     TelemetryProofs!StuckSpeedDmps, Telemetry!StuckMinSeconds,
     TelemetryProofs!StuckMinSeconds, Telemetry!TeleportDmps, TelemetryProofs!TeleportDmps
<1>3. [Telemetry!Next]_(Telemetry!vars) => [TelemetryProofs!Next]_(TelemetryProofs!vars)
  BY <1>2 DEF Telemetry!vars, TelemetryProofs!vars, Telemetry!tables, TelemetryProofs!tables,
     Telemetry!locks, TelemetryProofs!locks, Telemetry!local, TelemetryProofs!local
<1> QED
  BY <1>1, <1>3, PTL DEF Telemetry!Spec, TelemetryProofs!Spec

LEMMA SameStatus == Status!Spec => StatusProofs!Spec
<1>1. Status!Init <=> StatusProofs!Init
  BY Zenon DEF Status!Init, StatusProofs!Init, Status!EmptyTx, StatusProofs!EmptyTx, Status!Fault,
     StatusProofs!Fault
<1>2. Status!Next <=> StatusProofs!Next
  BY Zenon DEF Status!vars, StatusProofs!vars, Status!tables, StatusProofs!tables,
     Status!ActiveMissions, StatusProofs!ActiveMissions, Status!RecordsOf,
     StatusProofs!RecordsOf, Status!OpenRecords, StatusProofs!OpenRecords,
     Status!InTransaction, StatusProofs!InTransaction, Status!HoldsConnection,
     StatusProofs!HoldsConnection, Status!PoolExhausted, StatusProofs!PoolExhausted,
     Status!Cardinality, StatusProofs!Cardinality, Status!MissionLocked,
     StatusProofs!MissionLocked, Status!Fault, StatusProofs!Fault, Status!Arrive,
     StatusProofs!Arrive, Status!Connect, StatusProofs!Connect, Status!Borrow,
     StatusProofs!Borrow, Status!PoolTimeout, StatusProofs!PoolTimeout,
     Status!UnknownVehicle, StatusProofs!UnknownVehicle, Status!LockVehicle,
     StatusProofs!LockVehicle, Status!AlreadyFault, StatusProofs!AlreadyFault,
     Status!CancelActiveMission, StatusProofs!CancelActiveMission, Status!OpenMaintenance,
     StatusProofs!OpenMaintenance, Status!SetVehicleFault, StatusProofs!SetVehicleFault,
     Status!CommitFault, StatusProofs!CommitFault, Status!SetVehicleStatus,
     StatusProofs!SetVehicleStatus, Status!CommitStatus, StatusProofs!CommitStatus,
     Status!Respond, StatusProofs!Respond, Status!ReleasedBy, StatusProofs!ReleasedBy,
     Status!Fail, StatusProofs!Fail, Status!RegisterVehicle, StatusProofs!RegisterVehicle,
     Status!AssignMission, StatusProofs!AssignMission, Status!CompleteMission,
     StatusProofs!CompleteMission, Status!ResolveRecord, StatusProofs!ResolveRecord,
     Status!Transact, StatusProofs!Transact, Status!HandlerStep, StatusProofs!HandlerStep,
     Status!Environment, StatusProofs!Environment, Status!AllAnswered,
     StatusProofs!AllAnswered, Status!Next, StatusProofs!Next
<1>3. [Status!Next]_(Status!vars) => [StatusProofs!Next]_(StatusProofs!vars)
  BY <1>2 DEF Status!vars, StatusProofs!vars
<1> QED
  BY <1>1, <1>3, PTL DEF Status!Spec, StatusProofs!Spec

\* What the theorems about each route assume.
LEMMA TelemetryHypotheses ==
  /\ TelemetryProofs!IngestAssumption
  /\ TelemetryProofs!EventAssumption
  /\ TelemetryProofs!ReadingsAssumption
BY TelemetryAssumption, PoolAssumption DEF IsFiniteSet, TelemetryProofs!IsFiniteSet

LEMMA StatusHypotheses ==
  /\ StatusProofs!PoolAssumption
  /\ StatusProofs!DispatcherAssumption
  /\ StatusProofs!NoneAssumption
  /\ StatusProofs!NoRecordAssumption
  /\ StatusProofs!StatusAssumption
BY StatusAssumption, PoolAssumption DEF StatusProofs!Fault, StatusProofs!Record

-----------------------------------------------------------------------------
\* The zone counters are exact, with the pool shared with the other route.
THEOREM CountsExact == Spec => []Telemetry!ZoneCountsExact
<1>1. TelemetryProofs!Spec => []TelemetryProofs!ZoneCountsExact
  BY TelemetryHypotheses, TelemetryProofs!CountsExact
<1>2. TelemetryProofs!ZoneCountsExact => Telemetry!ZoneCountsExact
  BY Zenon DEF Telemetry!ZoneCountsExact, TelemetryProofs!ZoneCountsExact, Telemetry!Entries,
     TelemetryProofs!Entries, Telemetry!Cardinality, TelemetryProofs!Cardinality
<1> QED
  BY <1>1, <1>2, Composition, SameTelemetry, PTL

\* However status requests race with each other and with telemetry, a vehicle has
\* at most one open record.
THEOREM OneOpenRecord == Spec => []Status!AtMostOneOpenRecord
<1>1. StatusProofs!Spec => []StatusProofs!AtMostOneOpenRecord
  BY StatusHypotheses, StatusProofs!OneOpenRecord
<1>2. StatusProofs!AtMostOneOpenRecord => Status!AtMostOneOpenRecord
  BY Zenon DEF Status!AtMostOneOpenRecord, StatusProofs!AtMostOneOpenRecord
<1> QED
  BY <1>1, <1>2, Composition, SameStatus, PTL

\* A faulted vehicle keeps no mission, if missions are assigned under the lock.
THEOREM FaultGrounds == Spec => []Status!GroundedVehicleHasNoMission
<1>1. StatusProofs!Spec => []StatusProofs!GroundedVehicleHasNoMission
  BY StatusHypotheses, StatusProofs!FaultGrounds
<1>2. StatusProofs!GroundedVehicleHasNoMission => Status!GroundedVehicleHasNoMission
  BY Zenon DEF Status!GroundedVehicleHasNoMission, StatusProofs!GroundedVehicleHasNoMission,
     Status!ActiveMissions, StatusProofs!ActiveMissions, Status!Fault, StatusProofs!Fault
<1> QED
  BY <1>1, <1>2, Composition, SameStatus, PTL

-----------------------------------------------------------------------------
\* A chain of waits ends in a request that waits for nobody.
LEMMA ChainsEnd ==
  ASSUME Telemetry!NoCircularWait, Status!NoCircularWait
  PROVE  HeldConnectionsComeBack
<1>1. ASSUME NEW r \in Posts, Telemetry!HoldsConnection(r) PROVE MovingPosts # {}
  <2>1. CASE Telemetry!BlockedBy(r) = {}
    BY <1>1, <2>1 DEF MovingPosts
  <2>2. ASSUME NEW q \in Telemetry!BlockedBy(r) PROVE MovingPosts # {}
    <3>1. q \in Posts /\ Telemetry!HoldsConnection(q)
      BY <2>2 DEF Telemetry!NoCircularWait, Telemetry!BlockedBy
    <3>2. CASE Telemetry!BlockedBy(q) = {}
      BY <3>1, <3>2 DEF MovingPosts
    <3>3. ASSUME NEW p \in Telemetry!BlockedBy(q) PROVE MovingPosts # {}
      <4>1. p \in Posts
        BY DEF Telemetry!BlockedBy
      <4>2. Telemetry!HoldsConnection(p) /\ Telemetry!BlockedBy(p) = {}
        BY <3>1 DEF Telemetry!NoCircularWait
      <4> QED
        BY <4>1, <4>2 DEF MovingPosts
    <3> QED
      BY <3>2, <3>3
  <2> QED
    BY <2>1, <2>2
<1>2. ASSUME NEW r \in Updates, Status!HoldsConnection(r) PROVE MovingUpdates # {}
  <2>1. CASE Status!BlockedBy(r) = {}
    BY <1>2, <2>1 DEF MovingUpdates
  <2>2. ASSUME NEW q \in Status!BlockedBy(r) PROVE MovingUpdates # {}
    <3>1. q \in Updates
      BY DEF Status!BlockedBy
    <3>2. Status!HoldsConnection(q) /\ Status!BlockedBy(q) = {}
      BY DEF Status!NoCircularWait
    <3> QED
      BY <3>1, <3>2 DEF MovingUpdates
  <2> QED
    BY <2>1, <2>2
<1> QED
  BY <1>1, <1>2 DEF HeldConnectionsComeBack

\* Whatever the two routes do to each other through the pool, among the requests
\* of a route that hold a connection one can go on: a full pool empties.
THEOREM ConnectionsComeBack == Spec => []HeldConnectionsComeBack
<1>1. TelemetryProofs!Spec => []TelemetryProofs!NoCircularWait
  BY TelemetryHypotheses, TelemetryProofs!NoDeadlock
<1>2. TelemetryProofs!NoCircularWait => Telemetry!NoCircularWait
  BY Zenon DEF Telemetry!NoCircularWait, TelemetryProofs!NoCircularWait, Telemetry!BlockedBy,
     TelemetryProofs!BlockedBy, Telemetry!HoldsConnection, TelemetryProofs!HoldsConnection,
     Telemetry!InTransaction, TelemetryProofs!InTransaction
<1>3. StatusProofs!Spec => []StatusProofs!NoCircularWait
  BY StatusHypotheses, StatusProofs!NoDeadlock
<1>4. StatusProofs!NoCircularWait => Status!NoCircularWait
  BY Zenon DEF Status!NoCircularWait, StatusProofs!NoCircularWait, Status!BlockedBy,
     StatusProofs!BlockedBy, Status!HoldsConnection, StatusProofs!HoldsConnection,
     Status!InTransaction, StatusProofs!InTransaction, Status!ActiveMissions,
     StatusProofs!ActiveMissions
<1>5. Telemetry!NoCircularWait /\ Status!NoCircularWait => HeldConnectionsComeBack
  BY ChainsEnd
<1> QED
  BY <1>1, <1>2, <1>3, <1>4, <1>5, Composition, SameTelemetry, SameStatus, PTL

-----------------------------------------------------------------------------
\* The statements of each route still add up to one atomic step of its tables.
THEOREM Atomicity ==
  /\ Spec => Telemetry!ImplementsAtomic
  /\ AssignUnderLock => (Spec => Status!ImplementsAtomic)
<1>1. TelemetryProofs!Spec => TelemetryProofs!ImplementsAtomic
  BY TelemetryHypotheses, TelemetryProofs!Refinement
<1>2. TelemetryProofs!Atomic!Init => Telemetry!Atomic!Init
  BY Zenon DEF Telemetry!Atomic!Init, TelemetryProofs!Atomic!Init
<1>3. [TelemetryProofs!Atomic!Next]_(TelemetryProofs!Atomic!tables)
        => [Telemetry!Atomic!Next]_(Telemetry!Atomic!tables)
  BY Zenon DEF Telemetry!Atomic!Next, TelemetryProofs!Atomic!Next, Telemetry!Atomic!tables,
     TelemetryProofs!Atomic!tables, Telemetry!Atomic!Ingest, TelemetryProofs!Atomic!Ingest,
     Telemetry!Atomic!Entered, TelemetryProofs!Atomic!Entered, Telemetry!Atomic!PastStates,
     TelemetryProofs!Atomic!PastStates, Telemetry!Atomic!DetectAnomalies,
     TelemetryProofs!Atomic!DetectAnomalies, Telemetry!Atomic!Stateless,
     TelemetryProofs!Atomic!Stateless, Telemetry!Atomic!Stateful,
     TelemetryProofs!Atomic!Stateful, Telemetry!Atomic!When, TelemetryProofs!Atomic!When,
     Telemetry!Atomic!IsStuck, TelemetryProofs!Atomic!IsStuck, Telemetry!Atomic!IsTeleport,
     TelemetryProofs!Atomic!IsTeleport, Telemetry!Atomic!IsBatteryRising,
     TelemetryProofs!Atomic!IsBatteryRising, Telemetry!Atomic!Square,
     TelemetryProofs!Atomic!Square, Telemetry!Atomic!LowBatteryPct,
     TelemetryProofs!Atomic!LowBatteryPct, Telemetry!Atomic!OverspeedDmps,
     TelemetryProofs!Atomic!OverspeedDmps, Telemetry!Atomic!StuckSpeedDmps,
     TelemetryProofs!Atomic!StuckSpeedDmps, Telemetry!Atomic!StuckMinSeconds,
     TelemetryProofs!Atomic!StuckMinSeconds, Telemetry!Atomic!TeleportDmps,
     TelemetryProofs!Atomic!TeleportDmps
<1>4. Spec => Telemetry!ImplementsAtomic
  BY <1>1, <1>2, <1>3, Composition, SameTelemetry, PTL
     DEF Telemetry!ImplementsAtomic, TelemetryProofs!ImplementsAtomic, Telemetry!Atomic!Spec,
         TelemetryProofs!Atomic!Spec
<1>5. AssignUnderLock => (StatusProofs!Spec => StatusProofs!ImplementsAtomic)
  BY StatusHypotheses, StatusProofs!Refinement
<1>6. StatusProofs!Atomic!Init => Status!Atomic!Init
  BY Zenon DEF Status!Atomic!Init, StatusProofs!Atomic!Init
<1>7. [StatusProofs!Atomic!Next]_(StatusProofs!Atomic!tables)
        => [Status!Atomic!Next]_(Status!Atomic!tables)
  BY Zenon DEF Status!Atomic!Next, StatusProofs!Atomic!Next, Status!Atomic!tables,
     StatusProofs!Atomic!tables, Status!Atomic!Fault, StatusProofs!Atomic!Fault,
     Status!Atomic!RecordsOf, StatusProofs!Atomic!RecordsOf, Status!Atomic!OpenRecords,
     StatusProofs!Atomic!OpenRecords, Status!Atomic!ActiveMissions,
     StatusProofs!Atomic!ActiveMissions, Status!Atomic!SetStatus,
     StatusProofs!Atomic!SetStatus, Status!Atomic!TransitionToFault,
     StatusProofs!Atomic!TransitionToFault, Status!Atomic!RegisterVehicle,
     StatusProofs!Atomic!RegisterVehicle, Status!Atomic!AssignMission,
     StatusProofs!Atomic!AssignMission, Status!Atomic!CompleteMission,
     StatusProofs!Atomic!CompleteMission, Status!Atomic!ResolveRecord,
     StatusProofs!Atomic!ResolveRecord
<1>8. AssignUnderLock => (Spec => Status!ImplementsAtomic)
  BY <1>5, <1>6, <1>7, Composition, SameStatus, PTL
     DEF Status!ImplementsAtomic, StatusProofs!ImplementsAtomic, Status!Atomic!Spec,
         StatusProofs!Atomic!Spec
<1> QED
  BY <1>4, <1>8
=============================================================================
