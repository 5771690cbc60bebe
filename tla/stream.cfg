SPECIFICATION RecoveringSpec
CONSTANTS
  MaxRecords = 4
  MaxSockets = 3
  BatchSize = 2
  MaxQueueSize = 3
  Inners = {FALSE, TRUE}
  Exits = TRUE
  Beacon = {"accepts"}
INVARIANTS
  AccountedInOrder
  WakeupArmed
PROPERTIES
  NeverStalls
CHECK_DEADLOCK FALSE
