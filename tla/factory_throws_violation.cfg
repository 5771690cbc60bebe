SPECIFICATION PersistentSpec
CONSTANTS
  MaxRecords = 2
  MaxSockets = 2
  BatchSize = 2
  MaxQueueSize = 2
  Inners = {FALSE}
  Exits = FALSE
  Beacon = {}
PROPERTIES
  RetriedLater
CHECK_DEADLOCK FALSE
