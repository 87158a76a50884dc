SPECIFICATION Spec
CONSTANTS
  Vehicles = {v1, v2}
  Missions = {m1, m2}
  Requests = {r1, r2, r3}
  OtherStatuses = {"idle"}
  PoolSize = 2
  AssignUnderLock = TRUE
  None = None
SYMMETRY Symmetry
INVARIANTS
  TypeOK
  AtMostOneOpenRecord
  FaultLeavesRecord
  GroundedVehicleHasNoMission
  NoCircularWait
PROPERTIES
  EffectsOnlyOnTransition
  ImplementsAtomic
