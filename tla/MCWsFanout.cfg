SPECIFICATION FairSpec
CONSTANTS
  Clients = {c1, c2}
  Slow = {c2}
  MaxVersions = 2
  Traced = {1}
  None = None
INVARIANTS
  TypeOK
  NothingMissed
PROPERTIES
  ImplementsLiveFeed
  EveryPatchDelivered
  ClosedIsRemoved
