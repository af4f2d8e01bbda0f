\* Two starts, two faults, a connection for each of them, two queues declared together.
CONSTANTS
  q1 = q1  q2 = q2
  Queue <- Queues2
  Lists <- BothQueues
  MaxStarts = 2
  MaxFaults = 2
  MaxDials = 4
SPECIFICATION FairSpec
INVARIANTS OneConnectionOpen NothingOpenAfterStop QueuesFollow PanicsOnlyAfterRestart
PROPERTIES Recovers StopEnds
\* A crashed process stops, and so does one that is stopped and not started again.
CHECK_DEADLOCK FALSE
