----------------------------- MODULE MCPhTrace -----------------------------
(* Model values for the runs of PhTrace. *)
EXTENDS PhTrace, TLC

CONSTANTS g1, g2, g3

Callers2 == {g1, g2}
Callers3 == {g1, g2, g3}

(* A service with a name, and every environment for the rest. *)
NamedEnvs == {e \in Env : e.service}

(* Nothing, a header or a switch in code. *)
NoOption == [enabled |-> "unset", endpoint |-> FALSE, service |-> FALSE,
             headers |-> "none", insecure |-> "unset", ca |-> "none", ratio |-> "unset"]
SomeOptions ==
  {NoOption,
   [NoOption EXCEPT !.headers = "good"],
   [NoOption EXCEPT !.headers = "bad"],
   [NoOption EXCEPT !.insecure = "off", !.ca = "good"],
   [NoOption EXCEPT !.enabled = "on", !.endpoint = TRUE]}

NoEnv      == [NoOption EXCEPT !.service = TRUE]
SomeEnvs   == {NoEnv, [NoEnv EXCEPT !.endpoint = TRUE]}
NoOptions  == {NoOption}

Symmetry == Permutations(Caller)
=============================================================================
