------------------------- MODULE MCTelemetryIngest -------------------------
(* Small instances of TelemetryIngest for TLC. *)
EXTENDS TelemetryIngest, TLC

CONSTANTS v1, v2, z1, z2, zUnknown

MCReading(status, battery, speed, x, at) ==
  [status |-> status, battery |-> battery, speed |-> speed, x |-> x, y |-> 0, at |-> at]

MCEvent(vehicle, zone, aware, errors, reading) ==
  [vehicle |-> vehicle, zone |-> zone, aware |-> aware, errors |-> errors, reading |-> reading]

First == MCReading("moving", 50, 0, 0, 0)
Later == MCReading("moving", 60, 0, 900, 12)

\* Two vehicles, two zones and an unseeded one; the two readings raise stuck and
\* battery_rising against each other in one order and no stateful rule in the other.
MCEvents ==
  { MCEvent(v1, z1, TRUE, FALSE, First),
    MCEvent(v1, z2, TRUE, TRUE, Later),
    MCEvent(v1, zUnknown, FALSE, FALSE, Later),
    MCEvent(v2, z1, TRUE, FALSE, First),
    MCEvent(v2, None, TRUE, FALSE, Later) }

Symmetry == Permutations(Requests)
=============================================================================
