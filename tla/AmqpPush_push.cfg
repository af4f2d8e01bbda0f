\* Two Push calls and one Close; one failure of the network or of the broker.
CONSTANTS
  k1 = k1  p1 = p1  p2 = p2  q1 = q1
  Closer <- Closers1
  Pusher <- JustTwo
  Quiet <- NoQuiet
  None = None
  MaxFaults = 1
  MaxAttempts = 2
SPECIFICATION FairPushSpec
\* The calls are finite in number, and so are the failures: the system comes to rest.
CHECK_DEADLOCK FALSE
INVARIANT SuccessesBacked
PROPERTIES PushEnds
