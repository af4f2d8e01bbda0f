----------------------------- MODULE MCRedisLock -----------------------------
(* Threads and processes for the runs of RedisLock. *)
EXTENDS RedisLock, TLC

CONSTANTS t1, t2, t3, t4, p1, p2

Threads2 == {t1, t2}
Threads4 == {t1, t2, t3, t4}
Processes1 == {p1}
Processes2 == {p1, p2}

(* Two threads of one process. *)
Together == [t \in Threads2 |-> p1]

(* Three of one process, of which t3 keeps its mutex, and t4 in another.  t1 and *)
(* t2, which lock by key beside each other, are quick.                            *)
ThreeAndOne == (t1 :> p1) @@ (t2 :> p1) @@ (t3 :> p1) @@ (t4 :> p2)
ByKey == {t1, t2, t4}
SlowOnes == {t3, t4}
=============================================================================
