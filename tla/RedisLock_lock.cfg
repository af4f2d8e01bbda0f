\* Two quick threads lock by key in one process, beside a slow one that keeps its mutex; a slow
\* one locks by key alone in another process.  Replies get lost, locks expire, processes crash.
CONSTANTS
  t1 = t1  t2 = t2  t3 = t3  t4 = t4  p1 = p1  p2 = p2
  None = None
  Thread <- Threads4
  Process <- Processes2
  ProcessOf <- ThreeAndOne
  KeyThread <- ByKey
  Slow <- SlowOnes
  MaxRounds = 2
  MaxLost = 1
SPECIFICATION Spec
\* The bounds on locks and lost replies let the system come to rest.
CHECK_DEADLOCK FALSE
INVARIANTS MapFindsOwnMutex MutualExclusion
PROPERTIES ImplementsLease
