SPECIFICATION FairSpec
CONSTANTS
  t1 = t1
  MaxEvents = 2
  Transports <- OneTransport
  Calls <- TwoCalls
  OthersListen = {FALSE}
INVARIANTS
  FlushCovers
  DiesDrained
PROPERTIES
  SignalEnds
CHECK_DEADLOCK FALSE
