-------------------------- MODULE MCReadingStream --------------------------
(* Families of readings around each threshold, for TLC. *)
EXTENDS ReadingStream

Family(statuses, batteries, speeds, xs, ys, times) ==
  [status : statuses, battery : batteries, speed : speeds, x : xs, y : ys, at : times]

\* Positions one and two teleport distances apart, the dwell, and the battery
\* and speed thresholds.
MCReadings ==
  Family({"moving"}, {50}, {5}, {0, 90, 120, 150, 151}, {0, 120, 150, None}, 0..2)
  \cup Family({"moving", "idle"}, {50}, {0, 1}, {0}, {0}, {0, 9, 10, 11})
  \cup Family({"charging", "fault"}, {14, 15, 16}, {50, 51}, {0}, {0}, {0})
=============================================================================
