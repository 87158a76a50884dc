---------------------------- MODULE IngestAtomic ----------------------------
(***************************************************************************)
(* What POST /telemetry promises (src/app/persistence.py,                   *)
(* persist_telemetry): a committed event is reflected in raw_events, in     *)
(* vehicle_current_state, in the counter of the zone it entered and in the  *)
(* anomalies it raised together, in one step, or not at all.                *)
(*                                                                          *)
(* The stateful rules are promised no more than some earlier committed      *)
(* state of the vehicle as the prior: two requests for one vehicle that are *)
(* in flight together read the same prior.                                  *)
(***************************************************************************)
EXTENDS AnomalyRules

CONSTANTS Vehicles,  \* vehicle ids
          Zones,     \* the seeded zone ids, rows of zone_counts
          Requests,  \* POST /telemetry requests, names of the rows they write
          MaxCount   \* the largest zone_counts.entry_count (INTEGER)

VARIABLES event,     \* the event each request carries
          raw,       \* raw_events
          current,   \* vehicle_current_state
          zones,     \* zone_counts
          anomalies  \* anomalies, as <<request, type>>

tables == <<event, raw, current, zones, anomalies>>

\* Every state the vehicle's row has had so far.
PastStates(v) == {None} \cup {event[q].reading : q \in {p \in raw : event[p].vehicle = v}}

\* The counter of the zone the event names, if it is a known one.
Entered(z, e) == IF z = e.zone THEN 1 ELSE 0

Init ==
  /\ raw = {}
  /\ current = [v \in Vehicles |-> None]
  /\ zones = [z \in Zones |-> 0]
  /\ anomalies = {}

Ingest(r) ==
  LET e == event[r] IN
  /\ r \notin raw
  /\ \A z \in Zones : zones[z] + Entered(z, e) <= MaxCount
  /\ raw' = raw \cup {r}
  /\ current' = [current EXCEPT ![e.vehicle] = e.reading]
  /\ zones' = [z \in Zones |-> zones[z] + Entered(z, e)]
  /\ \E prior \in PastStates(e.vehicle) :
       anomalies' = anomalies \cup ({r} \X DetectAnomalies(e.reading, e.errors, prior))
  /\ UNCHANGED event

Next == \E r \in Requests : Ingest(r)

Spec == Init /\ [][Next]_tables
=============================================================================
