-------------------------- MODULE MCRequestGuards --------------------------
(* Requests and chains for the run of RequestGuards. *)
EXTENDS RequestGuards, TLC

CONSTANTS r1, r2, r3, k1, k2

Requests == {r1, r2, r3}
Keys     == {k1, k2}

(* A request, its retry, and another. *)
RetriedOnce == (r1 :> k1) @@ (r2 :> k1) @@ (r3 :> k2)

(* The order of README.md:487-489, and the one with the key last. *)
BothOrders == {<<"csrf", "idem", "revoke">>, <<"csrf", "revoke", "idem">>}
=============================================================================
