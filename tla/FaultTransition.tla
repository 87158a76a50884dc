-------------------------- MODULE FaultTransition --------------------------
(***************************************************************************)
(* The vehicle status operation, statement by statement:                   *)
(* src/app/ingestion_api.py post_vehicle_status, and the two transactions  *)
(* it delegates to in src/app/persistence.py, transition_to_fault and       *)
(* set_vehicle_status, over the tables of migrations 0006-0008.             *)
(*                                                                          *)
(* `vehicles', `missions' and `maintenance' are the COMMITTED tables.  What *)
(* an open transaction has written is in tx[r] until Commit, as READ        *)
(* COMMITTED hides it; lockedBy is the row lock on the vehicles row, taken  *)
(* by SELECT ... FOR UPDATE or by an UPDATE and held to the end of the      *)
(* transaction.  A waiting statement is an action that is not enabled.      *)
(*                                                                          *)
(* Nothing in src/app registers vehicles, assigns or completes missions or  *)
(* resolves maintenance records: those four actions are the environment.    *)
(***************************************************************************)
EXTENDS Naturals, FiniteSets

CONSTANTS Vehicles,        \* vehicle ids
          Missions,        \* mission ids
          Requests,        \* status requests (a retry is another request)
          OtherStatuses,   \* the statuses other than "fault"
          PoolSize,        \* DB_POOL_MAX_SIZE
          AssignUnderLock, \* does the dispatcher assign under the vehicle row lock?
          None             \* SQL NULL / no row / nobody

Fault == "fault"

ASSUME PoolAssumption == PoolSize \in Nat \ {0}
ASSUME DispatcherAssumption == AssignUnderLock \in BOOLEAN
ASSUME NoneAssumption ==
  None \notin Vehicles \cup Missions \cup Requests \cup OtherStatuses \cup {Fault}
\* A maintenance_records row: its vehicle, the mission it names, and whether
\* resolved_at is still NULL.
Record == [vehicle : Vehicles, mission : Missions \cup {None}, open : BOOLEAN]

ASSUME NoRecordAssumption == None \notin Record
ASSUME StatusAssumption == Fault \notin OtherStatuses

VARIABLES
  vehicles,     \* vehicles.status per vehicle, None = no row
  missions,     \* missions rows
  maintenance,  \* maintenance_records rows, named by the request that wrote them
  lockedBy,     \* the request whose transaction holds the vehicle's row lock
  call,         \* the vehicle and the status a request asks for
  pc,           \* where the request's handler is
  tx,           \* what its transaction has read and written, uncommitted
  answer        \* what the client was told

tables == <<vehicles, missions, maintenance>>
vars == <<vehicles, missions, maintenance, lockedBy, call, pc, tx, answer>>

-----------------------------------------------------------------------------
\* The committed rows a statement can match.

ActiveMissions(v) ==
  {m \in Missions : missions[m].vehicle = v /\ missions[m].status = "active"}

RecordsOf(v) == {q \in Requests : maintenance[q] # None /\ maintenance[q].vehicle = v}

\* uq_open_maintenance_per_vehicle without its WHERE resolved_at IS NULL, and
\* with the vehicle left out of its key.
OpenRecords_NoIndex(v) == {}
OpenRecords_AnyVehicle(v) == {q \in Requests : maintenance[q] # None /\ maintenance[q].open}

\* uq_open_maintenance_per_vehicle: the rows ON CONFLICT DO NOTHING runs into.
OpenRecords(v) == {q \in RecordsOf(v) : maintenance[q].open}

InTransaction == {"connected", "locked", "cancelled", "opened", "written"}

HoldsConnection(r) == pc[r] \in InTransaction

PoolExhausted == Cardinality({r \in Requests : HoldsConnection(r)}) >= PoolSize

MissionLocked(m) == \E r \in Requests : HoldsConnection(r) /\ m \in tx[r].cancels

EmptyTx == [seen |-> None, cancels |-> {}, opens |-> FALSE]

Init ==
  /\ vehicles = [v \in Vehicles |-> None]
  /\ missions = [m \in Missions |-> [vehicle |-> None, status |-> "unassigned"]]
  /\ maintenance = [r \in Requests |-> None]
  /\ lockedBy = [v \in Vehicles |-> None]
  /\ call \in [Requests -> [vehicle : Vehicles, status : OtherStatuses \cup {Fault}]]
  /\ pc = [r \in Requests |-> "idle"]
  /\ tx = [r \in Requests |-> EmptyTx]
  /\ answer = [r \in Requests |-> None]

-----------------------------------------------------------------------------
\* The request reaches the handler and borrows a pooled connection.

Arrive(r) ==
  /\ pc[r] = "idle"
  /\ pc' = [pc EXCEPT ![r] = "waiting"]
  /\ UNCHANGED <<vehicles, missions, maintenance, lockedBy, call, tx, answer>>

Connect(r) ==
  /\ pc[r] = "waiting"
  /\ pc' = [pc EXCEPT ![r] = "connected"]
  /\ UNCHANGED <<vehicles, missions, maintenance, lockedBy, call, tx, answer>>

Borrow(r) == ~PoolExhausted /\ Connect(r)

\* psycopg_pool raises PoolTimeout when no connection is returned in time: these
\* requests have them all, or another route of the process has the rest.
PoolTimeout(r) ==
  /\ pc[r] = "waiting"
  /\ pc' = [pc EXCEPT ![r] = "done"]
  /\ answer' = [answer EXCEPT ![r] = "error"]
  /\ UNCHANGED <<vehicles, missions, maintenance, lockedBy, call, tx>>

\* No row: LookupError in transition_to_fault, rowcount 0 in
\* set_vehicle_status; the route answers 404 on both.
UnknownVehicle(r) ==
  /\ pc[r] = "connected"
  /\ vehicles[call[r].vehicle] = None
  /\ pc' = [pc EXCEPT ![r] = "done"]
  /\ answer' = [answer EXCEPT ![r] = "not_found"]
  /\ UNCHANGED <<vehicles, missions, maintenance, lockedBy, call, tx>>

-----------------------------------------------------------------------------
\* transition_to_fault.

\* A plain SELECT in place of SELECT ... FOR UPDATE.
LockVehicle_NoLock(r) ==
  /\ pc[r] = "connected"
  /\ call[r].status = Fault
  /\ vehicles[call[r].vehicle] # None
  /\ tx' = [tx EXCEPT ![r].seen = vehicles[call[r].vehicle]]
  /\ pc' = [pc EXCEPT ![r] = "locked"]
  /\ UNCHANGED <<vehicles, missions, maintenance, lockedBy, call, answer>>

\* SELECT status ... FOR UPDATE: waits for the lock, reads the latest commit.
LockVehicle(r) ==
  LET v == call[r].vehicle IN
  /\ pc[r] = "connected"
  /\ call[r].status = Fault
  /\ vehicles[v] # None
  /\ lockedBy[v] = None
  /\ lockedBy' = [lockedBy EXCEPT ![v] = r]
  /\ tx' = [tx EXCEPT ![r].seen = vehicles[v]]
  /\ pc' = [pc EXCEPT ![r] = "locked"]
  /\ UNCHANGED <<vehicles, missions, maintenance, call, answer>>

\* The transition guard: already in fault, return False.
AlreadyFault(r) ==
  /\ pc[r] = "locked"
  /\ tx[r].seen = Fault
  /\ lockedBy' = [lockedBy EXCEPT ![call[r].vehicle] = None]
  /\ pc' = [pc EXCEPT ![r] = "done"]
  /\ answer' = [answer EXCEPT ![r] = "noop"]
  /\ UNCHANGED <<vehicles, missions, maintenance, call, tx>>

\* The RETURNING row taken for the mission id it holds (no `cancelled[0]').
CancelActiveMission_RowAsId(r) ==
  LET v == call[r].vehicle IN
  /\ pc[r] = "locked"
  /\ tx[r].seen # Fault
  /\ tx' = [tx EXCEPT ![r].cancels = {<<m>> : m \in ActiveMissions(v)}]
  /\ pc' = [pc EXCEPT ![r] = "cancelled"]
  /\ UNCHANGED <<vehicles, missions, maintenance, lockedBy, call, answer>>

CancelActiveMission(r) ==
  LET v == call[r].vehicle IN
  /\ pc[r] = "locked"
  /\ tx[r].seen # Fault
  /\ \A m \in ActiveMissions(v) : ~MissionLocked(m)
  /\ tx' = [tx EXCEPT ![r].cancels = ActiveMissions(v)]
  /\ pc' = [pc EXCEPT ![r] = "cancelled"]
  /\ UNCHANGED <<vehicles, missions, maintenance, lockedBy, call, answer>>

\* INSERT ... ON CONFLICT DO NOTHING.  A conflicting row that another
\* transaction has inserted and not committed makes the statement wait.
OpenMaintenance(r) ==
  LET v == call[r].vehicle IN
  /\ pc[r] = "cancelled"
  /\ \A q \in Requests \ {r} :
       ~(HoldsConnection(q) /\ tx[q].opens /\ call[q].vehicle = v)
  /\ tx' = [tx EXCEPT ![r].opens = (OpenRecords(v) = {})]
  /\ pc' = [pc EXCEPT ![r] = "opened"]
  /\ UNCHANGED <<vehicles, missions, maintenance, lockedBy, call, answer>>

SetVehicleFault(r) ==
  /\ pc[r] = "opened"
  /\ pc' = [pc EXCEPT ![r] = "written"]
  /\ UNCHANGED <<vehicles, missions, maintenance, lockedBy, call, tx, answer>>

\* COMMIT: the three writes appear together and the row lock is released.
CommitFault(r) ==
  LET v == call[r].vehicle IN
  /\ pc[r] = "written"
  /\ call[r].status = Fault
  /\ vehicles' = [vehicles EXCEPT ![v] = Fault]
  /\ missions' = [m \in Missions |->
                    IF m \in tx[r].cancels
                    THEN [missions[m] EXCEPT !.status = "cancelled"]
                    ELSE missions[m]]
  /\ \E named \in Missions \cup {None} :
       /\ \/ named \in tx[r].cancels
          \/ named = None /\ tx[r].cancels = {}
       /\ maintenance' =
            IF tx[r].opens
            THEN [maintenance EXCEPT ![r] =
                    [vehicle |-> v, mission |-> named, open |-> TRUE]]
            ELSE maintenance
  /\ lockedBy' = [lockedBy EXCEPT ![v] = None]
  /\ pc' = [pc EXCEPT ![r] = "committed"]
  /\ UNCHANGED <<call, tx, answer>>

-----------------------------------------------------------------------------
\* set_vehicle_status: one UPDATE, which takes the row lock, then COMMIT.

SetVehicleStatus(r) ==
  LET v == call[r].vehicle IN
  /\ pc[r] = "connected"
  /\ call[r].status # Fault
  /\ vehicles[v] # None
  /\ lockedBy[v] = None
  /\ lockedBy' = [lockedBy EXCEPT ![v] = r]
  /\ pc' = [pc EXCEPT ![r] = "written"]
  /\ UNCHANGED <<vehicles, missions, maintenance, call, tx, answer>>

CommitStatus(r) ==
  LET v == call[r].vehicle IN
  /\ pc[r] = "written"
  /\ call[r].status # Fault
  /\ vehicles' = [vehicles EXCEPT ![v] = call[r].status]
  /\ lockedBy' = [lockedBy EXCEPT ![v] = None]
  /\ pc' = [pc EXCEPT ![r] = "committed"]
  /\ UNCHANGED <<missions, maintenance, call, tx, answer>>

Respond(r) ==
  /\ pc[r] = "committed"
  /\ pc' = [pc EXCEPT ![r] = "done"]
  /\ answer' = [answer EXCEPT ![r] = "applied"]
  /\ UNCHANGED <<vehicles, missions, maintenance, lockedBy, call, tx>>

-----------------------------------------------------------------------------
\* A statement fails, the connection drops or the process dies.  Postgres
\* rolls back and releases the lock; after COMMIT only the answer is lost.

ReleasedBy(r) == [v \in Vehicles |-> IF lockedBy[v] = r THEN None ELSE lockedBy[v]]

\* The connection goes back to the pool with its transaction left open.
Fail_KeepsLock(r) ==
  /\ pc[r] \in InTransaction \cup {"committed"}
  /\ pc' = [pc EXCEPT ![r] = "done"]
  /\ answer' = [answer EXCEPT ![r] = "error"]
  /\ UNCHANGED <<vehicles, missions, maintenance, lockedBy, call, tx>>

\* No conn.transaction(): what the statements before the failure wrote stays.
Fail_Autocommit(r) ==
  /\ pc[r] \in InTransaction
  /\ missions' = [m \in Missions |->
                    IF m \in tx[r].cancels
                    THEN [missions[m] EXCEPT !.status = "cancelled"]
                    ELSE missions[m]]
  /\ lockedBy' = ReleasedBy(r)
  /\ pc' = [pc EXCEPT ![r] = "done"]
  /\ answer' = [answer EXCEPT ![r] = "error"]
  /\ UNCHANGED <<vehicles, maintenance, call, tx>>

Fail(r) ==
  /\ pc[r] \in InTransaction \cup {"committed"}
  /\ lockedBy' = ReleasedBy(r)
  /\ pc' = [pc EXCEPT ![r] = "done"]
  /\ answer' = [answer EXCEPT ![r] = "error"]
  /\ UNCHANGED <<vehicles, missions, maintenance, call, tx>>

-----------------------------------------------------------------------------
\* The environment: autocommitted statements of services outside src/app.

RegisterVehicle(v) ==
  /\ vehicles[v] = None
  /\ \E s \in OtherStatuses : vehicles' = [vehicles EXCEPT ![v] = s]
  /\ UNCHANGED <<missions, maintenance, lockedBy, call, pc, tx, answer>>

\* uq_active_mission_per_vehicle: at most one active mission per vehicle.  A
\* dispatcher that takes the row lock also sees the committed status under it.
AssignMission(m, v) ==
  /\ vehicles[v] \notin {None, Fault}
  /\ AssignUnderLock => lockedBy[v] = None
  /\ missions[m].status = "unassigned"
  /\ ActiveMissions(v) = {}
  /\ missions' = [missions EXCEPT ![m] = [vehicle |-> v, status |-> "active"]]
  /\ UNCHANGED <<vehicles, maintenance, lockedBy, call, pc, tx, answer>>

CompleteMission(m) ==
  /\ missions[m].status = "active"
  /\ ~MissionLocked(m)
  /\ missions' = [missions EXCEPT ![m].status = "completed"]
  /\ UNCHANGED <<vehicles, maintenance, lockedBy, call, pc, tx, answer>>

ResolveRecord(q) ==
  /\ maintenance[q] # None
  /\ maintenance[q].open
  /\ maintenance' = [maintenance EXCEPT ![q].open = FALSE]
  /\ UNCHANGED <<vehicles, missions, lockedBy, call, pc, tx, answer>>

-----------------------------------------------------------------------------
\* From the connection to the answer.
Transact(r) ==
  \/ UnknownVehicle(r)
  \/ LockVehicle(r) \/ AlreadyFault(r) \/ CancelActiveMission(r)
  \/ OpenMaintenance(r) \/ SetVehicleFault(r) \/ CommitFault(r)
  \/ SetVehicleStatus(r) \/ CommitStatus(r) \/ Respond(r)

\* What the handler does by itself once the request has arrived.
HandlerStep(r) == Borrow(r) \/ PoolTimeout(r) \/ Transact(r)

Environment ==
  \/ \E v \in Vehicles : RegisterVehicle(v)
  \/ \E m \in Missions, v \in Vehicles : AssignMission(m, v)
  \/ \E m \in Missions : CompleteMission(m)
  \/ \E q \in Requests : ResolveRecord(q)

\* Every request answered: the only states in which nothing need happen.
AllAnswered == (\A r \in Requests : pc[r] = "done") /\ UNCHANGED vars

Next ==
  \/ \E r \in Requests : Arrive(r) \/ HandlerStep(r) \/ Fail(r)
  \/ Environment
  \/ AllAnswered

Spec == Init /\ [][Next]_vars

-----------------------------------------------------------------------------
Call == [vehicle : Vehicles, status : OtherStatuses \cup {Fault}]
Mission == [vehicle : Vehicles \cup {None},
            status : {"unassigned", "active", "cancelled", "completed"}]
Tx == [seen : OtherStatuses \cup {Fault, None}, cancels : SUBSET Missions, opens : BOOLEAN]

\* Every variable keeps its shape (tables of 0006-0008, handler locals).
TypeOK ==
  /\ vehicles \in [Vehicles -> OtherStatuses \cup {Fault, None}]
  /\ missions \in [Missions -> Mission]
  /\ maintenance \in [Requests -> Record \cup {None}]
  /\ lockedBy \in [Vehicles -> Requests \cup {None}]
  /\ call \in [Requests -> Call]
  /\ pc \in [Requests -> InTransaction \cup {"idle", "waiting", "committed", "done"}]
  /\ tx \in [Requests -> Tx]
  /\ answer \in [Requests -> {None, "applied", "noop", "not_found", "error"}]

\* However many fault requests race, are retried or are cut off, a vehicle
\* has at most one open maintenance record (migration 0008, transition_to_fault).
AtMostOneOpenRecord ==
  \A p, q \in Requests :
    /\ maintenance[p] # None /\ maintenance[p].open
    /\ maintenance[q] # None /\ maintenance[q].open
    /\ maintenance[p].vehicle = maintenance[q].vehicle
    => p = q

\* No vehicle is ever seen in fault without a maintenance record naming it,
\* whichever failures and races led there: status and record commit together.
FaultLeavesRecord ==
  \A v \in Vehicles : vehicles[v] = Fault => RecordsOf(v) # {}

\* With a dispatcher that assigns under the row lock, a faulted vehicle never
\* has an active mission: none is cancelled too early or assigned too late.
GroundedVehicleHasNoMission ==
  AssignUnderLock => \A v \in Vehicles : vehicles[v] = Fault => ActiveMissions(v) = {}

\* The requests whose transactions hold what the next statement of r waits for:
\* the vehicle's row, a mission to cancel, or the key of an open record.
BlockedBy(r) ==
  LET v == call[r].vehicle IN
  {q \in Requests \ {r} :
     \/ pc[r] = "connected" /\ lockedBy[v] = q
     \/ /\ pc[r] = "locked" /\ HoldsConnection(q)
        /\ ActiveMissions(v) \cap tx[q].cancels # {}
     \/ /\ pc[r] = "cancelled" /\ HoldsConnection(q)
        /\ tx[q].opens /\ call[q].vehicle = v}

\* No deadlock: whoever a request waits for is in its transaction and waits for
\* nobody, since all that a transaction locks lies behind the vehicle's row.
NoCircularWait ==
  \A r \in Requests : \A q \in BlockedBy(r) : HoldsConnection(q) /\ BlockedBy(q) = {}

\* A step in which a fault of v takes effect: a mission is cancelled, a record
\* appears, or a fault request for v commits.
FaultEffect(v) ==
  \/ \E m \in Missions : /\ missions[m].vehicle = v
                         /\ missions[m].status # "cancelled"
                         /\ missions'[m].status = "cancelled"
  \/ \E q \in Requests : /\ maintenance[q] = None /\ maintenance'[q] # None
                         /\ maintenance'[q].vehicle = v
  \/ \E r \in Requests : /\ call[r] = [vehicle |-> v, status |-> Fault]
                         /\ pc[r] = "written" /\ pc'[r] = "committed"

\* A fault takes effect only in the very step that takes the vehicle from
\* another status to fault: the second of two concurrent or repeated requests
\* cancels nothing, opens nothing and is not applied (transition_to_fault's guard).
EffectsOnlyOnTransition ==
  [][\A v \in Vehicles :
       FaultEffect(v) => vehicles[v] \notin {Fault, None} /\ vehicles'[v] = Fault]_vars

\* The handler's statements together are the one atomic step of FaultAtomic.
Atomic == INSTANCE FaultAtomic WITH
  vehicles <- vehicles, missions <- missions, maintenance <- maintenance
ImplementsAtomic == Atomic!Spec
=============================================================================
