SPECIFICATION FairSpec
CONSTANTS
  Vehicles = {v1, v2}
  InOrder = {v1}
  Timeout = 1
  MaxAhead = 1
  MaxTime = 6
  LastReading = 4
  MaxReadings = 2
  None = None
INVARIANTS
  TypeOK
  FlaggedOncePerSilence
PROPERTIES
  NoFalseAlarm
  SilenceFlagged
