--------------------------- MODULE MCLogPipeline ---------------------------
(* Model values for the runs of LogPipeline. *)
EXTENDS LogPipeline, TLC

CONSTANTS c1, c2

Loggers2 == {c1, c2}

Burst2Every2 == [initial |-> 2, thereafter |-> 2]
Burst1Every2 == [initial |-> 1, thereafter |-> 2]
Burst1Every0 == [initial |-> 1, thereafter |-> 0]
SomeConfigs  == {Burst1Every0, Off}

Symmetry == Permutations(Logger)
=============================================================================
