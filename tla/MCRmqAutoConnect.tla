-------------------------- MODULE MCRmqAutoConnect --------------------------
(* Model values for the run of RmqAutoConnect. *)
EXTENDS RmqAutoConnect

CONSTANTS q1, q2
Queues2 == {q1, q2}
BothQueues == {{q1, q2}}
=============================================================================
