SPECIFICATION ShutdownSpec
CONSTANTS
  s1 = s1
  s2 = s2
  Parts = {"hooks", "servers", "lifecycle"}
  MaxRequests = 4
  Throwing = {"drain", "force"}
  Reentrant = TRUE
  MaxHttpRequests = 3
  Servers <- TwoServers
  Unbound <- SecondUnbound
  MaxConnections = 2
  Interactive = TRUE
  WatchStdinEof = TRUE
  MayDispose = TRUE
INVARIANTS
  PhasesKept
  OnlyForceCuts
  DeadlineKept
PROPERTIES
  Completes
  TwoPhase
  Emptied
  HooksOnce
  Resolves
  TwoPhaseSpec
CHECK_DEADLOCK FALSE
