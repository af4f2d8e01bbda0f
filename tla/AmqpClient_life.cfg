\* Two callers of Close against a client that fails up to four times; it may end.
CONSTANTS
  k1 = k1  k2 = k2
  Closer <- Closers2
  None = None
  MaxFaults = 4
SPECIFICATION FairSpec
CHECK_DEADLOCK FALSE
INVARIANTS OneConnection NotReadyWhileConnecting
PROPERTIES Recovers LoopEnds
