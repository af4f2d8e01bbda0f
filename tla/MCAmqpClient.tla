---------------------------- MODULE MCAmqpClient ----------------------------
(* Model values for the runs of AmqpClient. *)
EXTENDS AmqpClient

CONSTANTS k1, k2

Closers1 == {k1}
Closers2 == {k1, k2}
=============================================================================
