\* Two goroutines and three calls, three set-ups, one restart.
CONSTANTS
  a1 = a1  a2 = a2
  Caller <- Callers2
  MaxAttempts = 2
  MaxCalls = 3
  MaxSetups = 3
  MaxLives = 2
SPECIFICATION Spec
SYMMETRY Symmetry
\* The bounds let the system come to rest.
CHECK_DEADLOCK FALSE
INVARIANTS RecordedOnce PanicsNeedDisableOrStop
