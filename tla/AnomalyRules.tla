---------------------------- MODULE AnomalyRules ----------------------------
(***************************************************************************)
(* The anomaly rules of src/app/persistence.py, detect_anomalies, as a      *)
(* function from an event and the vehicle's previous persisted reading to   *)
(* the set of anomaly types raised.  Speeds are in dm/s, positions in dm,   *)
(* times in s, so that the thresholds of src/app/models.py are integers and *)
(* the comparisons exact.                                                   *)
(***************************************************************************)
EXTENDS Integers

CONSTANT None   \* SQL NULL / no prior row

Statuses == {"idle", "moving", "charging", "fault"}

\* The thresholds of models.py.
LowBatteryPct == 15
OverspeedDmps == 50
StuckSpeedDmps == 1
StuckMinSeconds == 10
TeleportDmps == 150

StatelessRules == {"fault_status", "error_codes", "low_battery", "overspeed"}
StatefulRules == {"stuck", "teleport", "battery_rising"}
AnomalyTypes == StatelessRules \cup StatefulRules

\* The type is raised when its condition holds.
When(type, condition) == IF condition THEN {type} ELSE {}

Stateless(now, errors) ==
  When("fault_status", now.status = "fault")
  \cup When("error_codes", errors)
  \cup When("low_battery", now.battery < LowBatteryPct /\ now.status # "charging")
  \cup When("overspeed", now.speed > OverspeedDmps)

\* "Still moving but effectively stationary for >= the dwell window".
IsStuck(now, prior) ==
  /\ prior.status = "moving" /\ now.status = "moving"
  /\ prior.speed < StuckSpeedDmps /\ now.speed < StuckSpeedDmps
  /\ now.at - prior.at >= StuckMinSeconds

Square(n) == n * n

\* The guard on dt without its sign.
IsTeleport_AnyOrder(now, prior) ==
  LET dt == now.at - prior.at IN
  /\ dt # 0
  /\ None \notin {now.x, now.y, prior.x, prior.y}
  /\ Square(now.x - prior.x) + Square(now.y - prior.y) > Square(TeleportDmps * dt)

\* The distance compared without dividing it by the interval.
IsTeleport_DistanceOnly(now, prior) ==
  /\ now.at > prior.at
  /\ None \notin {now.x, now.y, prior.x, prior.y}
  /\ Square(now.x - prior.x) + Square(now.y - prior.y) > Square(TeleportDmps)

\* distance / dt > TELEPORT_MPS, squared, for dt > 0 and both positions known.
IsTeleport(now, prior) ==
  LET dt == now.at - prior.at IN
  /\ dt > 0
  /\ None \notin {now.x, now.y, prior.x, prior.y}
  /\ Square(now.x - prior.x) + Square(now.y - prior.y) > Square(TeleportDmps * dt)

IsBatteryRising(now, prior) ==
  now.battery > prior.battery /\ now.status # "charging"

Stateful(now, prior) ==
  When("stuck", IsStuck(now, prior))
  \cup When("teleport", IsTeleport(now, prior))
  \cup When("battery_rising", IsBatteryRising(now, prior))

\* detect_anomalies(event, prior): no stateful rule on a first-ever reading.
DetectAnomalies(now, errors, prior) ==
  Stateless(now, errors) \cup IF prior = None THEN {} ELSE Stateful(now, prior)
=============================================================================
