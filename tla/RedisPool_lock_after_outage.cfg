\* The first lock of a service that started while Redis was down.
CONSTANTS
  main = main  g1 = g1  g2 = g2
  Routine <- Routines
  Main = main
  Scenarios <- LockAfterOutage
  None = None
  MaxRetries = 2
  MaxCalls = 1
  MaxOutages = 0
SPECIFICATION Spec
CHECK_DEADLOCK FALSE
INVARIANTS NobodyWaitsForItself
