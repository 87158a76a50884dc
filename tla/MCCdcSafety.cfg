SPECIFICATION Spec
CONSTANTS
  Txns = {t1, t2}
  Rows = {a, b}
  MaxFailures = 2
  MaxUpdates = 1
  None = None
SYMMETRY Symmetry
INVARIANTS
  TypeOK
  ConfirmedIsPublished
  PublishedInCommitOrder
  CaughtUpShowsNewest
  EverythingDecodable
PROPERTIES
  ImplementsStream
