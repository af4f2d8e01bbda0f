----------------------------- MODULE MCAmqpPush -----------------------------
(* Model values for the runs of AmqpPush. *)
EXTENDS AmqpPush

CONSTANTS k1, p1, p2, q1

Closers1   == {k1}
NoClosers  == {}
TwoAndAQuietOne == {p1, p2, q1}
JustTwo    == {p1, p2}
TheQuietOne == {q1}
NoQuiet    == {}
=============================================================================
