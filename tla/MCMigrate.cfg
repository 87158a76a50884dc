SPECIFICATION FairSpec
CONSTANTS
  Processes = {p1, p2}
  Last = 3
  LastZone = 2
  MaxRuns = 3
  MaxEntries = 2
  None = None
CHECK_DEADLOCK FALSE
INVARIANTS
  TypeOK
  AppliedOnceInOrder
  CompleteBeforeServing
PROPERTIES
  CountsNeverReset
  EveryRunEnds
