SPECIFICATION FairSpec
CONSTANTS
  z1 = z1
  None = None
  Reporting = {v1}
  Zones = {z1}
  Posts = {r1, r2}
  Events <- MCEvents
  MaxCount = 1
  Sequential = {}
  Vehicles = {v1}
  Missions = {}
  Updates = {u1, u2}
  OtherStatuses = {"idle"}
  AssignUnderLock = TRUE
  PoolSize = 2
INVARIANTS
  HeldConnectionsComeBack
PROPERTIES
  EveryRequestAnswered
