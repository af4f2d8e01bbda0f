------------------------------ MODULE LeaseLock ------------------------------
(***************************************************************************)
(* What the distributed lock of redis.go promises its callers, with the map, *)
(* the mutexes and the replies of Redis left out: at most one lease at a     *)
(* time, each another than all before, and whoever is told that it has one    *)
(* can rely on it until it leaves or the lease expires.  Nobody else's call    *)
(* takes it away.                                                            *)
(***************************************************************************)
EXTENDS Naturals

CONSTANTS
  Client,     \* who asks for the lock
  Slow,       \* those who may rely on a lease until it expires
  None        \* no lease

VARIABLES
  lease,      \* the lease that is out, <<client, number>>, or None
  granted,    \* every lease that was ever out
  inside      \* the clients that rely on theirs

vars == <<lease, granted, inside>>

TypeOK ==
  /\ granted \subseteq Client \X Nat
  /\ lease \in granted \cup {None}
  /\ inside \subseteq Client

Init == lease = None /\ granted = {} /\ inside = {}

(* A lease is given out; whether its client has been told is another matter. *)
Grant ==
  /\ lease = None
  /\ lease' \in (Client \X Nat) \ granted
  /\ granted' = granted \cup {lease'}
  /\ inside' \in {{}, {lease'[1]}}

(* The client returns from its section, or its process ends. *)
Leave ==
  /\ inside' = {}
  /\ UNCHANGED <<lease, granted>>

(* The lease is given back, and only when nobody relies on it. *)
GiveBack ==
  /\ lease # None /\ inside = {}
  /\ lease' = None
  /\ UNCHANGED <<granted, inside>>

(* It expires, when nobody relies on it or a slow client did. *)
Expire ==
  /\ lease # None /\ inside \subseteq Slow
  /\ lease' = None /\ inside' = {}
  /\ UNCHANGED granted

Next == Grant \/ Leave \/ GiveBack \/ Expire

Spec == Init /\ [][Next]_vars

(* Only the client whose lease is out relies on one. *)
LeaseHeld == \A c \in inside : lease # None /\ lease[1] = c
=============================================================================
