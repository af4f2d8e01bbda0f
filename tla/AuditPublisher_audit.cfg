\* Three submissions, two workers, a buffer of two, two callers of Stop; a threshold of
\* two: a trip and a late failure.  No symmetry, for the liveness.
CONSTANTS
  m1 = m1  m2 = m2  m3 = m3
  w1 = w1  w2 = w2  s1 = s1  s2 = s2
  Message <- Messages3
  Worker <- Workers2
  Stopper <- Stoppers2
  None = None
  BufferSize = 2
  MaxConsecFailures = 2
SPECIFICATION FairSpec
INVARIANTS ExactlyOnePlace StopDrains
INVARIANTS OneCooldownPerTrip OutageTripsBreaker OpenBreakerHadFailures
PROPERTIES BreakerRecovers StopReturns ImplementsFairRelay
\* Everything submitted and stopped: nothing is left to do.
CHECK_DEADLOCK FALSE
