---------------------------- MODULE ReadingStream ----------------------------
(***************************************************************************)
(* The readings one vehicle sends, in the order their events commit, and    *)
(* what detect_anomalies (AnomalyRules.tla) says of any two of them: the    *)
(* prior a reading is compared with need not be the one just before it, and *)
(* a reading may be redelivered or arrive after a more recent one.          *)
(***************************************************************************)
EXTENDS AnomalyRules, Sequences

CONSTANTS Readings,    \* the readings the vehicle may send
          MaxReadings  \* how many it sends

\* The fields of TelemetryEvent the rules read; the position may be NULL.
ASSUME ReadingsAssumption ==
  \A r \in Readings :
    /\ {"status", "battery", "speed", "x", "y", "at"} = DOMAIN r
    /\ r.status \in Statuses
    /\ r.battery \in Int /\ r.speed \in Int /\ r.at \in Int
    /\ r.x = None \/ r.x \in Int
    /\ r.y = None \/ r.y \in Int

VARIABLE readings   \* the vehicle's readings, in commit order

ReadingInit == readings = <<>>

Report == /\ Len(readings) < MaxReadings
          /\ \E r \in Readings : readings' = Append(readings, r)

Enough == Len(readings) = MaxReadings /\ UNCHANGED readings

ReadingNext == Report \/ Enough

ReadingSpec == ReadingInit /\ [][ReadingNext]_readings

-----------------------------------------------------------------------------
\* A reading no newer than the persisted one raises no rule that divides by or
\* waits for the elapsed time: delivered late it may raise battery_rising,
\* delivered again (the retry of a committed POST /telemetry) nothing at all unless
\* a reading with less charge has been persisted in between.
LateOrRepeatedRaisesNoTimedRule ==
  \A i, j \in 1..Len(readings) :
    readings[i].at <= readings[j].at =>
      Stateful(readings[i], readings[j]) \subseteq
        When("battery_rising", readings[i].battery > readings[j].battery)

\* If the rule is computed against a prior that is one reading too old (two
\* requests in flight read the same prior), a vehicle that moved legally
\* between successive readings is still not reported as teleported.  (Of stuck the
\* like does not hold: a vehicle that moved at the reading skipped is reported.)
StalePriorNoFalseTeleport ==
  \A i, j, k \in 1..Len(readings) :
    LET a == readings[i]  b == readings[j]  c == readings[k] IN
    /\ a.at < b.at /\ b.at < c.at
    /\ b.x # None /\ b.y # None
    /\ ~IsTeleport(b, a) /\ ~IsTeleport(c, b)
    => ~IsTeleport(c, a)
=============================================================================
