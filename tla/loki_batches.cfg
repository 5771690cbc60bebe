SPECIFICATION FairSpec
CONSTANTS
    e1 = e1
    e2 = e2
    MaxRecords = 6
    BatchSize = 2
    MaxQueueSize = 2
    MaxRetries = 1
    Exits <- TwoExits
INVARIANTS
    InOrder
PROPERTIES
    EverySettles
    LedgerSpec
CHECK_DEADLOCK FALSE
