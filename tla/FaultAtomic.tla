---------------------------- MODULE FaultAtomic ----------------------------
(***************************************************************************)
(* What the vehicle status operation promises (src/app/ingestion_api.py,   *)
(* POST /vehicles/{id}/status): a transition to `fault` is ONE step over    *)
(* the committed tables.  Either nothing changes, or the vehicle becomes    *)
(* faulted, every active mission it had is cancelled, and a maintenance     *)
(* record exists for it - a new one unless an earlier one was in the table. *)
(*                                                                          *)
(* FaultTransition.tla, the statement-by-statement model of the handler,    *)
(* implements this specification when missions are assigned by a dispatcher *)
(* that takes the vehicle row lock.                                         *)
(***************************************************************************)

CONSTANTS Vehicles,       \* vehicle ids
          Missions,       \* mission ids (missions.mission_id)
          Requests,       \* status requests; also the ids of the records they open
          OtherStatuses,  \* the statuses other than "fault"
          None            \* SQL NULL / no row

Fault == "fault"

VARIABLES vehicles,       \* vehicles.status per vehicle, None = no row
          missions,       \* missions rows
          maintenance     \* maintenance_records rows, named by the request

tables == <<vehicles, missions, maintenance>>

ActiveMissions(v) ==
  {m \in Missions : missions[m].vehicle = v /\ missions[m].status = "active"}

RecordsOf(v) == {q \in Requests : maintenance[q] # None /\ maintenance[q].vehicle = v}

OpenRecords(v) == {q \in RecordsOf(v) : maintenance[q].open}

Init ==
  /\ vehicles = [v \in Vehicles |-> None]
  /\ missions = [m \in Missions |-> [vehicle |-> None, status |-> "unassigned"]]
  /\ maintenance = [r \in Requests |-> None]

RegisterVehicle(v) ==
  /\ vehicles[v] = None
  /\ \E s \in OtherStatuses : vehicles' = [vehicles EXCEPT ![v] = s]
  /\ UNCHANGED <<missions, maintenance>>

AssignMission(m, v) ==
  /\ vehicles[v] \notin {None, Fault}
  /\ missions[m].status = "unassigned"
  /\ ActiveMissions(v) = {}
  /\ missions' = [missions EXCEPT ![m] = [vehicle |-> v, status |-> "active"]]
  /\ UNCHANGED <<vehicles, maintenance>>

CompleteMission(m) ==
  /\ missions[m].status = "active"
  /\ missions' = [missions EXCEPT ![m].status = "completed"]
  /\ UNCHANGED <<vehicles, maintenance>>

ResolveRecord(q) ==
  /\ maintenance[q] # None
  /\ maintenance' = [maintenance EXCEPT ![q].open = FALSE]
  /\ UNCHANGED <<vehicles, missions>>

SetStatus(v, s) ==
  /\ vehicles[v] # None
  /\ vehicles' = [vehicles EXCEPT ![v] = s]
  /\ UNCHANGED <<missions, maintenance>>

\* The whole fault transition.  No new record is opened only for a vehicle
\* that already has one in the table, and never while one of them is open.
TransitionToFault(v, r) ==
  /\ vehicles[v] \notin {None, Fault}
  /\ vehicles' = [vehicles EXCEPT ![v] = Fault]
  /\ missions' = [m \in Missions |->
                    IF m \in ActiveMissions(v)
                    THEN [missions[m] EXCEPT !.status = "cancelled"]
                    ELSE missions[m]]
  /\ \/ /\ OpenRecords(v) = {}
        /\ maintenance[r] = None
        /\ \E named \in Missions \cup {None} :
             /\ \/ named \in ActiveMissions(v)
                \/ named = None /\ ActiveMissions(v) = {}
             /\ maintenance' = [maintenance EXCEPT ![r] =
                                  [vehicle |-> v, mission |-> named, open |-> TRUE]]
     \/ /\ RecordsOf(v) # {}
        /\ UNCHANGED maintenance

Next ==
  \/ \E v \in Vehicles : RegisterVehicle(v)
  \/ \E m \in Missions, v \in Vehicles : AssignMission(m, v)
  \/ \E m \in Missions : CompleteMission(m)
  \/ \E q \in Requests : ResolveRecord(q)
  \/ \E v \in Vehicles, s \in OtherStatuses : SetStatus(v, s)
  \/ \E v \in Vehicles, r \in Requests : TransitionToFault(v, r)

Spec == Init /\ [][Next]_tables
=============================================================================
