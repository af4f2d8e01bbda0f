\* Two goroutines that call Init and Shutdown, every environment of a named service, five
\* sets of options.
CONSTANTS
  g1 = g1  g2 = g2  g3 = g3
  Caller <- Callers2
  Envs <- NamedEnvs
  Options <- SomeOptions
SPECIFICATION Spec
SYMMETRY Symmetry
INVARIANTS NothingLeaks GuardedExport TraceSurvives
