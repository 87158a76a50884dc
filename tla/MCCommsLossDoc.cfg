SPECIFICATION HSpec
CONSTANTS
  Vehicles = {v1}
  InOrder = {}
  Timeout = 1
  MaxAhead = 0
  MaxTime = 6
  LastReading = 4
  MaxReadings = 2
  None = None
PROPERTIES
  EverySilenceFlagged
