SPECIFICATION RecoveringSpec
CONSTANTS
  MaxRecords = 4
  MaxSockets = 2
  MaxQueueSize = 2
INVARIANTS
  OneChannel
PROPERTIES
  EventuallySent
  LedgerSpec
CHECK_DEADLOCK FALSE
