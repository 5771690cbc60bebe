SPECIFICATION RecoveringSpec
CONSTANTS
  e1 = e1
  MaxRecords = 6
  Bytes <- MCBytes
  BatchSize = 2
  MaxQueueSize = 2
  MaxRecordBytes = 5
  MaxBatchBytes = 9
  MaxExitBatchBytes = 6
  EnvelopeBudget = 1
  AwaitOptions = {FALSE, TRUE}
  Exits <- OneExit
INVARIANTS
  OnePlace
  QueueKept
PROPERTIES
  LedgerSpec
  NobodyWaitsForEver
CHECK_DEADLOCK FALSE
