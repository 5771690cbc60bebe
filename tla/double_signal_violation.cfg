SPECIFICATION Spec
CONSTANTS
  t1 = t1
  s1 = s1
  MaxEvents = 1
  Transports <- OneTransport
  Calls <- TwoCalls
  OthersListen = {TRUE}
  Servers <- OneServer
  Interactive = FALSE
  WatchStdinEof = FALSE
  MayDispose = FALSE
  MaxSignals = 2
INVARIANTS
  SecondSignalForces
CHECK_DEADLOCK FALSE
