-------------------------- MODULE MCAuditPublisher --------------------------
(* Model values for the run of AuditPublisher. *)
EXTENDS AuditPublisher

CONSTANTS m1, m2, m3, w1, w2, s1, s2

Messages3 == {m1, m2, m3}
Workers2  == {w1, w2}
Stoppers2 == {s1, s2}
=============================================================================
