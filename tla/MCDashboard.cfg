SPECIFICATION FairSpec
CONSTANTS
  Vehicles = {v}
  Anomalies = {a}
  Zones = {}
  MaxVersions = 2
  MaxFalls = 1
  Times = {1, 2}
  None = None
INVARIANTS
  TypeOK
  CaughtUpShowsNewest
PROPERTIES
  Converges
CHECK_DEADLOCK FALSE
