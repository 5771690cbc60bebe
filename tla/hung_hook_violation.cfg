SPECIFICATION ShutdownSpec
CONSTANTS
  s1 = s1
  s2 = s2
  Parts = {"hooks"}
  MaxRequests = 2
  Throwing = {}
  Reentrant = FALSE
  MaxHttpRequests = 2
  Servers <- TwoServers
  Unbound = {}
  MaxConnections = 0
  Interactive = FALSE
  WatchStdinEof = FALSE
  MayDispose = FALSE
PROPERTIES
  CannotBeHeld
CHECK_DEADLOCK FALSE
