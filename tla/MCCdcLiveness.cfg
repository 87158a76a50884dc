SPECIFICATION FairSpec
CONSTANTS
  Txns = {t1, t2}
  Rows = {a}
  MaxFailures = 2
  MaxUpdates = 1
  None = None
PROPERTIES
  EveryChangePublished
