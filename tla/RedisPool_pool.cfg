\* Main and two request goroutines of three calls each, while Redis goes down twice.
CONSTANTS
  main = main  g1 = g1  g2 = g2
  Routine <- Routines
  Main = main
  Scenarios <- SafeUse
  None = None
  MaxRetries = 2
  MaxCalls = 3
  MaxOutages = 2
SPECIFICATION FairSpec
\* The bounds on calls and outages let the system come to rest.
CHECK_DEADLOCK FALSE
INVARIANTS LazyReconnectOpensOne LockingStaysAvailable
PROPERTIES CallsReturn
