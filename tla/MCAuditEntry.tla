---------------------------- MODULE MCAuditEntry ----------------------------
(* Model values for the runs of AuditEntry. *)
EXTENDS AuditEntry, TLC

CONSTANTS a1, a2

Callers2 == {a1, a2}
Symmetry == Permutations(Caller)
=============================================================================
