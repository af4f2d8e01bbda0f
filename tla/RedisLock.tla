------------------------------ MODULE RedisLock ------------------------------
(***************************************************************************)
(* The distributed lock of redis.go for one key: AcquireLock / ReleaseLock,  *)
(* which find the lock again through the process-wide map of mutex.go, and   *)
(* AcquireLockWithRetry / ReleaseLockWithRetry, which hand the mutex to the  *)
(* caller.  StoreRedisWithLock is a critical section of the first kind.      *)
(*                                                                         *)
(* Redis and redsync are external: SET NX with a fresh random value and an   *)
(* expiry, and a script that deletes the key if it still has that value.  A  *)
(* handle <<t, n>> is the value of the n-th lock thread t obtained.  Time    *)
(* enters only as the expiry, which may come at any moment.  A lock attempt  *)
(* that finds the key taken returns false and changes nothing.               *)
(***************************************************************************)
EXTENDS Naturals

CONSTANTS
  Thread,      \* goroutines that use the lock, in all processes
  Process,
  ProcessOf,   \* the process each thread runs in
  KeyThread,   \* those that use AcquireLock / ReleaseLock, which know the key
               \* alone; the others use AcquireLockWithRetry and keep the mutex
  Slow,        \* those whose critical section may outlast the TTL of their lock
  None,        \* no handle, no owner
  MaxRounds,   \* bound on the locks each thread obtains
  MaxLost      \* bound on the replies of Redis that are lost

ASSUME ConstAssumption ==
  /\ ProcessOf \in [Thread -> Process]
  /\ KeyThread \subseteq Thread
  /\ Slow \subseteq Thread
  /\ MaxRounds \in Nat /\ MaxLost \in Nat
  /\ None \notin Thread \X Nat

VARIABLES
  owner,    \* value of the lock key in Redis, None if absent
  mutexMap, \* per process: the entry for this key
  pc,       \* where each thread is
  round,    \* locks it obtained so far
  mutex,    \* its local mutex while it releases
  valid,    \* it is in its critical section and its lock has not expired
  lost,     \* replies lost so far
  crossed   \* history: the threads that stored their mutex while another of their
            \* process, which has unlocked, was about to remove the entry

vars == <<owner, mutexMap, pc, round, mutex, valid, lost, crossed>>

Handle == Thread \X Nat

TypeOK ==
  /\ owner \in Handle \cup {None}
  /\ mutexMap \in [Process -> Handle \cup {None}]
  /\ pc \in [Thread -> {"idle", "locked", "held", "release", "unlocked"}]
  /\ round \in [Thread -> 0 .. MaxRounds]
  /\ mutex \in [Thread -> Handle \cup {None}]
  /\ valid \in [Thread -> BOOLEAN]
  /\ lost \in 0 .. MaxLost
  /\ crossed \subseteq Thread

Init ==
  /\ owner = None
  /\ mutexMap = [p \in Process |-> None]
  /\ pc = [t \in Thread |-> "idle"]
  /\ round = [t \in Thread |-> 0]
  /\ mutex = [t \in Thread |-> None]
  /\ valid = [t \in Thread |-> FALSE]
  /\ lost = 0
  /\ crossed = {}

Own(t) == <<t, round[t]>>
Fresh(t) == <<t, round[t] + 1>>

Goto(t, to) == pc' = [pc EXCEPT ![t] = to]

-----------------------------------------------------------------------------
(* Acquiring.                                                               *)

(* Mutant: the key is set whether or not it exists. *)
LockWithoutNX(t) ==
  /\ pc[t] = "idle" /\ round[t] < MaxRounds
  /\ owner' = Fresh(t)
  /\ round' = [round EXCEPT ![t] = @ + 1]
  /\ valid' = [valid EXCEPT ![t] = TRUE]
  /\ Goto(t, IF t \in KeyThread THEN "locked" ELSE "held")
  /\ UNCHANGED <<mutexMap, mutex, lost, crossed>>

(* Mutant: the value of the key names the thread, not this acquisition. *)
LockWithThreadValue(t) ==
  /\ pc[t] = "idle" /\ round[t] < MaxRounds
  /\ owner = None
  /\ owner' = t
  /\ round' = [round EXCEPT ![t] = @ + 1]
  /\ valid' = [valid EXCEPT ![t] = TRUE]
  /\ Goto(t, IF t \in KeyThread THEN "locked" ELSE "held")
  /\ UNCHANGED <<mutexMap, mutex, lost, crossed>>

(* LockContext succeeds.  AcquireLock has still to store the mutex.          *)
Lock(t) ==
  /\ pc[t] = "idle" /\ round[t] < MaxRounds
  /\ owner = None
  /\ owner' = Fresh(t)
  /\ round' = [round EXCEPT ![t] = @ + 1]
  /\ valid' = [valid EXCEPT ![t] = TRUE]
  /\ Goto(t, IF t \in KeyThread THEN "locked" ELSE "held")
  /\ UNCHANGED <<mutexMap, mutex, lost, crossed>>

(* Redis set the key, but the caller is told that locking failed, and the    *)
(* script that redsync then runs to undo it is lost as well.                 *)
LockReplyLost(t) ==
  /\ pc[t] = "idle" /\ round[t] < MaxRounds
  /\ owner = None
  /\ lost < MaxLost
  /\ lost' = lost + 1
  /\ owner' = Fresh(t)
  /\ round' = [round EXCEPT ![t] = @ + 1]
  /\ UNCHANGED <<mutexMap, pc, mutex, valid, crossed>>

RemovesEntry(p) == \E u \in Thread : ProcessOf[u] = p /\ pc[u] = "unlocked"

(* Mutant: an entry of the map is not overwritten. *)
StoreFirstMutex(t) ==
  /\ pc[t] = "locked"
  /\ mutexMap' = [mutexMap EXCEPT ![ProcessOf[t]] = IF @ = None THEN Own(t) ELSE @]
  /\ crossed' = IF RemovesEntry(ProcessOf[t]) THEN crossed \cup {t} ELSE crossed \ {t}
  /\ Goto(t, "held")
  /\ UNCHANGED <<owner, round, mutex, valid, lost>>

(* StoreMutex *)
StoreMutex(t) ==
  /\ pc[t] = "locked"
  /\ mutexMap' = [mutexMap EXCEPT ![ProcessOf[t]] = Own(t)]
  /\ crossed' = IF RemovesEntry(ProcessOf[t]) THEN crossed \cup {t} ELSE crossed \ {t}
  /\ Goto(t, "held")
  /\ UNCHANGED <<owner, round, mutex, valid, lost>>

-----------------------------------------------------------------------------
(* Releasing.  The critical section ends with the call.                     *)

(* ReleaseLock: GetMutex, and the early return when it finds nothing.        *)
GetMutex(t) ==
  /\ pc[t] = "held" /\ t \in KeyThread
  /\ mutex' = [mutex EXCEPT ![t] = mutexMap[ProcessOf[t]]]
  /\ Goto(t, IF mutexMap[ProcessOf[t]] = None THEN "idle" ELSE "release")
  /\ valid' = [valid EXCEPT ![t] = FALSE]
  /\ UNCHANGED <<owner, mutexMap, round, lost, crossed>>

(* ReleaseLockWithRetry: the caller passes its mutex. *)
PassMutex(t) ==
  /\ pc[t] = "held" /\ t \notin KeyThread
  /\ mutex' = [mutex EXCEPT ![t] = Own(t)]
  /\ Goto(t, "release")
  /\ valid' = [valid EXCEPT ![t] = FALSE]
  /\ UNCHANGED <<owner, mutexMap, round, lost, crossed>>

(* Mutant: the key is deleted without comparing its value. *)
UnlockBlindly(t) ==
  /\ pc[t] = "release"
  /\ owner # None
  /\ owner' = None
  /\ mutex' = [mutex EXCEPT ![t] = None]
  /\ Goto(t, IF t \in KeyThread THEN "unlocked" ELSE "idle")
  /\ UNCHANGED <<mutexMap, round, valid, lost, crossed>>

(* UnlockContext deletes the key. *)
Unlock(t) ==
  /\ pc[t] = "release"
  /\ owner = mutex[t]
  /\ owner' = None
  /\ mutex' = [mutex EXCEPT ![t] = None]
  /\ Goto(t, IF t \in KeyThread THEN "unlocked" ELSE "idle")
  /\ UNCHANGED <<mutexMap, round, valid, lost, crossed>>

(* The key is gone or has another value: "not the lock owner".  ReleaseLock   *)
(* returns and leaves the map as it is; ReleaseLockWithRetry tries again in   *)
(* vain before it returns.                                                   *)
NotOwner(t) ==
  /\ pc[t] = "release"
  /\ owner # mutex[t]
  /\ mutex' = [mutex EXCEPT ![t] = None]
  /\ Goto(t, "idle")
  /\ UNCHANGED <<owner, mutexMap, round, valid, lost, crossed>>

(* The script may or may not have run, and UnlockContext returns an error:    *)
(* ReleaseLock returns, ReleaseLockWithRetry may try again or give up.        *)
UnlockReplyLost(t) ==
  /\ pc[t] = "release"
  /\ lost < MaxLost
  /\ lost' = lost + 1
  /\ owner' \in IF owner = mutex[t] THEN {owner, None} ELSE {owner}
  /\ \/ Goto(t, "idle") /\ mutex' = [mutex EXCEPT ![t] = None]
     \/ t \notin KeyThread /\ UNCHANGED <<pc, mutex, crossed>>
  /\ UNCHANGED <<mutexMap, round, valid, crossed>>

(* RemoveMutex *)
RemoveMutex(t) ==
  /\ pc[t] = "unlocked"
  /\ mutexMap' = [mutexMap EXCEPT ![ProcessOf[t]] = None]
  /\ Goto(t, "idle")
  /\ UNCHANGED <<owner, round, mutex, valid, lost, crossed>>

-----------------------------------------------------------------------------

(* The TTL of the lock runs out, and its holder is not told; not while a thread   *)
(* that is quick is in its section.                                              *)
Expire ==
  /\ owner # None
  /\ \A t \in Thread : valid[t] /\ owner = Own(t) => t \in Slow
  /\ owner' = None
  /\ valid' = [t \in Thread |-> valid[t] /\ Own(t) # owner]
  /\ UNCHANGED <<mutexMap, pc, round, mutex, lost, crossed>>

(* A process ends and is started again; what it had locked stays in Redis.   *)
Crash(p) ==
  /\ \E t \in Thread : ProcessOf[t] = p /\ pc[t] # "idle"
  /\ mutexMap' = [mutexMap EXCEPT ![p] = None]
  /\ pc' = [t \in Thread |-> IF ProcessOf[t] = p THEN "idle" ELSE pc[t]]
  /\ mutex' = [t \in Thread |-> IF ProcessOf[t] = p THEN None ELSE mutex[t]]
  /\ valid' = [t \in Thread |-> valid[t] /\ ProcessOf[t] # p]
  /\ UNCHANGED <<owner, round, lost, crossed>>

Next ==
  \/ \E t \in Thread :
       \/ Lock(t) \/ LockReplyLost(t) \/ StoreMutex(t)
       \/ GetMutex(t) \/ PassMutex(t)
       \/ Unlock(t) \/ NotOwner(t) \/ UnlockReplyLost(t) \/ RemoveMutex(t)
  \/ Expire
  \/ \E p \in Process : Crash(p)

Spec == Init /\ [][Next]_vars

-----------------------------------------------------------------------------
(* Properties.                                                              *)

(* As long as a thread is in its critical section and its TTL has not run     *)
(* out, the lock in Redis is its own: nobody else's release, late or           *)
(* repeated, takes it away.                                                   *)
HolderOwnsLock == \A t \in Thread : valid[t] => owner = Own(t)

(* Two threads are never both in the critical section under an unexpired lock. *)
MutualExclusion == \A t, u \in Thread : valid[t] /\ valid[u] => t = u

(* What a thread that locked by key finds in the map when it comes to release it  *)
(* is its own mutex and never another's, expired or not; and it finds none only if  *)
(* another thread of its process was between UnlockContext and RemoveMutex when it   *)
(* stored it (redis.go:609-619).                                                    *)
MapFindsOwnMutex ==
  \A t \in KeyThread : pc[t] = "held" =>
    \/ mutexMap[ProcessOf[t]] = Own(t)
    \/ mutexMap[ProcessOf[t]] = None /\ t \in crossed

-----------------------------------------------------------------------------
(* The lock implements the abstract one.                                     *)

(* Every value the key has had. *)
Granted == {h \in Thread \X (1 .. MaxRounds) : h[2] <= round[h[1]]}

Lease == INSTANCE LeaseLock
           WITH Client <- Thread, lease <- owner, granted <- Granted,
                inside <- {t \in Thread : valid[t]}

(* Every behaviour of the lock is one of a lock with a lease: the key is given    *)
(* out under a fresh value, deleted only when nobody relies on it, and otherwise   *)
(* only expires, whatever replies are lost and processes end.                      *)
ImplementsLease == Lease!Spec
=============================================================================
