\* Two goroutines, four calls, two set-up calls, two periods; bursts of one, then
\* every second line.
CONSTANTS
  c1 = c1  c2 = c2
  Logger <- Loggers2
  EnvConfig <- Burst1Every2
  Configs <- SomeConfigs
  MaxCalls = 4
  MaxSetups = 2
  MaxTime = 2
SPECIFICATION LogSpec
SYMMETRY Symmetry
INVARIANTS SuppressedAccounted  ChoiceKept
\* A fatal line ends the process.
CHECK_DEADLOCK FALSE
