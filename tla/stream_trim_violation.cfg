SPECIFICATION Spec
CONSTANTS
  MaxRecords = 4
  MaxSockets = 2
  BatchSize = 2
  MaxQueueSize = 2
  Inners = {FALSE}
  Exits = FALSE
  Beacon = {}
INVARIANTS
  Accounted
CHECK_DEADLOCK FALSE
