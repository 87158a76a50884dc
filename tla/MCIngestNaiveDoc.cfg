SPECIFICATION Spec
CONSTANTS
  v1 = v1
  v2 = v2
  z1 = z1
  z2 = z2
  zUnknown = zUnknown
  None = None
  Vehicles = {v1, v2}
  Zones = {z1, z2}
  Requests = {r1, r2, r3}
  Events <- MCEvents
  PoolSize = 3
  MaxCount = 2
  Sequential = {}
SYMMETRY Symmetry
INVARIANTS
  ValidEventNeverRaises
