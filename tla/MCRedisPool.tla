----------------------------- MODULE MCRedisPool -----------------------------
(* Goroutines and scenarios for the runs of RedisPool. *)
EXTENDS RedisPool

CONSTANTS main, g1, g2

Routines == {main, g1, g2}

Use(requests, admin, upAtStart) ==
  [calls |-> [g \in Routines |-> CASE g = main -> {"options"}
                                   [] g = g1   -> requests
                                   [] g = g2   -> admin],
   upAtStart |-> upAtStart]

(* Redis is up when the service starts; then one goroutine stores data and    *)
(* locks while another stores data and initialises Redis again.  Or Redis is   *)
(* down at first, and requests reconnect without using locks.                 *)
SafeUse == { Use({"pool", "sync"}, {"pool", "options"}, TRUE),
             Use({"pool"}, {"pool"}, FALSE) }

(* Redis is down at first, and a request locks. *)
LockAfterOutage == { Use({"sync"}, {}, FALSE) }
=============================================================================
