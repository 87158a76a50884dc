SPECIFICATION ReadingSpec
CONSTANTS
  None = None
  Readings <- MCReadings
  MaxReadings = 3
INVARIANTS
  LateOrRepeatedRaisesNoTimedRule
  StalePriorNoFalseTeleport
