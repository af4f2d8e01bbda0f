-------------------------- MODULE RedisLock_proofs --------------------------
(***************************************************************************)
(* When the lock of redis.go is sound, for any threads and processes and any *)
(* bound on the locks and lost replies.                                      *)
(***************************************************************************)
EXTENDS RedisLock, TLAPS

(* The way to use the lock that keeps its promise: of the threads of a process that *)
(* lock by key beside one another, each ends its section within the TTL.  One that    *)
(* does not locks by key alone in its process, or keeps its mutex.                     *)
Disciplined ==
  \A t, u \in KeyThread : ProcessOf[t] = ProcessOf[u] /\ t \in Slow => t = u

ValidInside == \A t \in Thread : valid[t] => pc[t] \in {"locked", "held"}

InsideValid == \A t \in Thread \ Slow : pc[t] \in {"locked", "held"} => valid[t]

(* Whoever holds a lock while another of its process is about to remove the entry *)
(* stored its mutex after that one had unlocked.                                    *)
CrossedKnown ==
  \A t, u \in KeyThread :
    ProcessOf[t] = ProcessOf[u] /\ pc[t] = "held" /\ pc[u] = "unlocked" => t \in crossed

(* What a thread unlocks is its own mutex. *)
ReleaseOwn == \A t \in Thread : pc[t] = "release" => mutex[t] = Own(t)

(* Only a thread that locks by key stores its mutex and removes it. *)
StoresByKey == \A t \in Thread : pc[t] \in {"locked", "unlocked"} => t \in KeyThread

IInv ==
  /\ TypeOK /\ StoresByKey
  /\ ValidInside /\ InsideValid /\ HolderOwnsLock
  /\ MapFindsOwnMutex /\ CrossedKnown /\ ReleaseOwn

USE DEF Handle, Own, Fresh, Goto

LEMMA RoundBound ==
  ASSUME TypeOK, NEW t \in Thread, round[t] < MaxRounds
  PROVE  round[t] + 1 \in 0 .. MaxRounds
  BY ConstAssumption DEF TypeOK, ConstAssumption

LEMMA OwnTyped ==
  ASSUME TypeOK, NEW t \in Thread
  PROVE  Own(t) \in Handle /\ ProcessOf[t] \in Process
<1>1. round[t] \in Nat
  BY ConstAssumption DEF TypeOK, ConstAssumption
<1> QED
  BY <1>1, ConstAssumption DEF ConstAssumption

LEMMA LostBound ==
  ASSUME TypeOK, lost < MaxLost
  PROVE  lost + 1 \in 0 .. MaxLost
  BY ConstAssumption DEF TypeOK, ConstAssumption

LEMMA InitIInv == Init => IInv
<1> SUFFICES ASSUME Init PROVE IInv
  OBVIOUS
<1> USE ConstAssumption DEF ConstAssumption, Init
<1>1. TypeOK
  <2>1. round \in [Thread -> 0 .. MaxRounds] /\ lost \in 0 .. MaxLost
    OBVIOUS
  <2> QED
    BY <2>1 DEF TypeOK
<1>2. StoresByKey
  BY DEF StoresByKey
<1>3. ValidInside /\ InsideValid /\ HolderOwnsLock /\ MapFindsOwnMutex /\ CrossedKnown /\ ReleaseOwn
  BY DEF ValidInside, InsideValid, HolderOwnsLock, MapFindsOwnMutex, CrossedKnown, ReleaseOwn
<1> QED
  BY <1>1, <1>2, <1>3 DEF IInv

LEMMA TypeStep == TypeOK /\ [Next]_vars => TypeOK'
<1> SUFFICES ASSUME TypeOK, [Next]_vars PROVE TypeOK'
  OBVIOUS
<1> USE ConstAssumption DEF ConstAssumption, TypeOK
<1>1. ASSUME NEW t \in Thread, Lock(t) PROVE TypeOK'
  <2>1. round[t] + 1 \in 0 .. MaxRounds /\ Fresh(t) \in Handle
    BY <1>1, RoundBound DEF Lock
  <2> QED
    BY <1>1, <2>1 DEF Lock
<1>2. ASSUME NEW t \in Thread, LockReplyLost(t) PROVE TypeOK'
  <2>1. round[t] + 1 \in 0 .. MaxRounds /\ Fresh(t) \in Handle
    BY <1>2, RoundBound DEF LockReplyLost
  <2>2. lost' \in 0 .. MaxLost
    BY <1>2, LostBound DEF LockReplyLost
  <2> QED
    BY <1>2, <2>1, <2>2 DEF LockReplyLost
<1>3. ASSUME NEW t \in Thread, StoreMutex(t) \/ RemoveMutex(t) PROVE TypeOK'
  <2>1. Own(t) \in Handle
    BY OwnTyped
  <2>2. CASE StoreMutex(t)
    BY <2>1, <2>2 DEF StoreMutex
  <2>3. CASE RemoveMutex(t)
    BY <2>3 DEF RemoveMutex
  <2> QED
    BY <1>3, <2>2, <2>3
<1>4. ASSUME NEW t \in Thread, GetMutex(t) \/ PassMutex(t) PROVE TypeOK'
  <2>1. Own(t) \in Handle /\ mutexMap[ProcessOf[t]] \in Handle \cup {None}
    BY OwnTyped
  <2>2. CASE GetMutex(t)
    BY <2>1, <2>2 DEF GetMutex
  <2>3. CASE PassMutex(t)
    BY <2>1, <2>3 DEF PassMutex
  <2> QED
    BY <1>4, <2>2, <2>3
<1>5. ASSUME NEW t \in Thread, Unlock(t) \/ NotOwner(t) PROVE TypeOK'
  BY <1>5 DEF Unlock, NotOwner
<1>6. ASSUME NEW t \in Thread, UnlockReplyLost(t) PROVE TypeOK'
  <2>1. lost' \in 0 .. MaxLost
    BY <1>6, LostBound DEF UnlockReplyLost
  <2> QED
    BY <1>6, <2>1 DEF UnlockReplyLost
<1>7. CASE Expire
  BY <1>7 DEF Expire
<1>8. ASSUME NEW p \in Process, Crash(p) PROVE TypeOK'
  BY <1>8 DEF Crash
<1>9. CASE UNCHANGED vars
  BY <1>9 DEF vars
<1> QED
  BY <1>1, <1>2, <1>3, <1>4, <1>5, <1>6, <1>7, <1>8, <1>9 DEF Next

(* Everything but the type: which handle is where. *)
OwnInv == StoresByKey /\ ValidInside /\ InsideValid /\ HolderOwnsLock /\ MapFindsOwnMutex /\ CrossedKnown /\ ReleaseOwn

LEMMA OwnStep ==
  ASSUME Disciplined, TypeOK, OwnInv, Next
  PROVE  OwnInv'
<1> USE ConstAssumption
    DEF ConstAssumption, TypeOK, OwnInv, StoresByKey, ValidInside, InsideValid,
        HolderOwnsLock, MapFindsOwnMutex, CrossedKnown, ReleaseOwn
<1>1. ASSUME NEW t \in Thread, Lock(t) PROVE OwnInv'
  <2>1. \A u \in Thread : ~valid[u]
    BY <1>1 DEF Lock
  <2> QED
    BY <1>1, <2>1 DEF Lock
<1>2. ASSUME NEW t \in Thread, LockReplyLost(t) PROVE OwnInv'
  <2>1. \A u \in Thread : ~valid[u]
    BY <1>2 DEF LockReplyLost
  <2> QED
    BY <1>2, <2>1 DEF LockReplyLost
<1>3. ASSUME NEW t \in Thread, StoreMutex(t) PROVE OwnInv'
  <2>1. ASSUME NEW u \in KeyThread, u # t, ProcessOf[u] = ProcessOf[t]
        PROVE  pc[u] # "held"
    <3>1. t \notin Slow /\ u \notin Slow
      BY <1>3, <2>1 DEF Disciplined, StoreMutex
    <3>2. valid[t]
      BY <1>3, <3>1 DEF StoreMutex
    <3>3. pc[u] = "held" => valid[u]
      BY <3>1
    <3> QED
      BY <2>1, <3>2, <3>3
  <2>2. /\ pc[t] = "locked" /\ t \in KeyThread /\ pc'[t] = "held"
        /\ mutexMap'[ProcessOf[t]] = Own(t)
        /\ \A u \in Thread \ {t} : pc'[u] = pc[u]
        /\ \A p \in Process \ {ProcessOf[t]} : mutexMap'[p] = mutexMap[p]
        /\ UNCHANGED <<owner, round, mutex, valid>>
    BY <1>3 DEF StoreMutex
  <2>3. /\ \A u \in Thread \ {t} : u \in crossed' <=> u \in crossed
        /\ RemovesEntry(ProcessOf[t]) => t \in crossed'
    BY <1>3 DEF StoreMutex
  <2>4. MapFindsOwnMutex'
    <3> SUFFICES ASSUME NEW u \in KeyThread, pc'[u] = "held"
                 PROVE  \/ mutexMap'[ProcessOf[u]] = Own(u)'
                        \/ mutexMap'[ProcessOf[u]] = None /\ u \in crossed'
      BY DEF MapFindsOwnMutex
    <3>1. CASE u = t
      BY <2>2, <3>1
    <3>2. CASE u # t
      <4>1. u \in Thread /\ pc[u] = "held" /\ ProcessOf[u] # ProcessOf[t]
        BY <2>1, <2>2, <3>2
      <4>2. mutexMap'[ProcessOf[u]] = mutexMap[ProcessOf[u]] /\ Own(u)' = Own(u)
        BY <2>2, <4>1
      <4>3. \/ mutexMap[ProcessOf[u]] = Own(u)
            \/ mutexMap[ProcessOf[u]] = None /\ u \in crossed
        BY <4>1 DEF MapFindsOwnMutex
      <4> QED
        BY <2>3, <3>2, <4>1, <4>2, <4>3
    <3> QED
      BY <3>1, <3>2
  <2>5. CrossedKnown'
    <3> SUFFICES ASSUME NEW u \in KeyThread, NEW w \in KeyThread, ProcessOf[u] = ProcessOf[w],
                        pc'[u] = "held", pc'[w] = "unlocked"
                 PROVE  u \in crossed'
      BY DEF CrossedKnown
    <3>1. w # t /\ pc[w] = "unlocked" /\ w \in Thread /\ u \in Thread
      BY <2>2
    <3>2. CASE u = t
      BY <2>3, <3>1, <3>2 DEF RemovesEntry
    <3>3. CASE u # t
      BY <2>2, <2>3, <3>1, <3>3 DEF CrossedKnown
    <3> QED
      BY <3>2, <3>3
  <2> QED
    BY <2>2, <2>4, <2>5 DEF StoresByKey, ValidInside, InsideValid, HolderOwnsLock, ReleaseOwn
<1>4. ASSUME NEW t \in Thread, GetMutex(t) PROVE OwnInv'
  <2>1. mutexMap[ProcessOf[t]] # None => mutexMap[ProcessOf[t]] = Own(t)
    BY <1>4 DEF GetMutex
  <2> QED
    BY <1>4, <2>1 DEF GetMutex
<1>5. ASSUME NEW t \in Thread, PassMutex(t) PROVE OwnInv'
  BY <1>5 DEF PassMutex
<1>6. ASSUME NEW t \in Thread, Unlock(t) PROVE OwnInv'
  <2>1. \A u \in Thread : ~valid[u]
    <3>1. owner = Own(t) /\ ~valid[t]
      BY <1>6 DEF Unlock
    <3> QED
      BY <3>1
  <2>2. CrossedKnown'
    <3>1. ASSUME NEW u \in KeyThread, t \in KeyThread, ProcessOf[u] = ProcessOf[t], u # t
          PROVE  pc[u] # "held"
      BY <2>1, <3>1 DEF Disciplined
    <3> QED
      BY <1>6, <3>1 DEF Unlock
  <2> QED
    BY <1>6, <2>1, <2>2 DEF Unlock
<1>7. ASSUME NEW t \in Thread, NotOwner(t) PROVE OwnInv'
  BY <1>7 DEF NotOwner
<1>8. ASSUME NEW t \in Thread, UnlockReplyLost(t) PROVE OwnInv'
  <2>1. HolderOwnsLock'
    <3>1. mutex[t] = Own(t) /\ ~valid[t]
      BY <1>8 DEF UnlockReplyLost
    <3>2. owner' = owner \/ owner = Own(t)
      BY <1>8, <3>1 DEF UnlockReplyLost
    <3>3. owner = Own(t) => \A u \in Thread : ~valid[u]
      BY <3>1
    <3> QED
      BY <1>8, <3>2, <3>3 DEF UnlockReplyLost
  <2> QED
    BY <1>8, <2>1 DEF UnlockReplyLost
<1>9. ASSUME NEW t \in Thread, RemoveMutex(t) PROVE OwnInv'
  BY <1>9 DEF RemoveMutex
<1>10. CASE Expire
  <2>1. \A u \in Thread : valid'[u] => valid[u] /\ Own(u) # owner
    BY <1>10 DEF Expire
  <2>2. \A u \in Thread : ~valid'[u]
    BY <2>1
  <2> QED
    BY <1>10, <2>2 DEF Expire
<1>11. ASSUME NEW p \in Process, Crash(p) PROVE OwnInv'
  BY <1>11 DEF Crash
<1> QED
  BY <1>1, <1>2, <1>3, <1>4, <1>5, <1>6, <1>7, <1>8, <1>9, <1>10, <1>11 DEF Next

LEMMA IInvStep == Disciplined /\ IInv /\ [Next]_vars => IInv'
<1> SUFFICES ASSUME Disciplined, IInv, [Next]_vars PROVE IInv'
  OBVIOUS
<1>1. TypeOK'
  BY TypeStep DEF IInv
<1>2. OwnInv'
  <2>1. CASE Next
    BY <2>1, OwnStep DEF IInv, OwnInv
  <2>2. CASE UNCHANGED vars
    BY <2>2 DEF vars, IInv, OwnInv, StoresByKey, ValidInside, InsideValid,
                HolderOwnsLock, MapFindsOwnMutex, CrossedKnown, ReleaseOwn
  <2> QED
    BY <2>1, <2>2
<1> QED
  BY <1>1, <1>2 DEF IInv, OwnInv

(* The variables keep their types however the lock is used. *)
THEOREM LockTypes == Spec => []TypeOK
<1>1. Init => TypeOK
  BY InitIInv DEF IInv
<1> QED
  BY <1>1, TypeStep, PTL DEF Spec

(* In a disciplined use, a thread inside its critical section *)
(* with an unexpired lock owns the key in Redis, whatever expires, crashes or  *)
(* is lost elsewhere: redis.go 536-696.                                        *)
THEOREM HolderKeepsLock == Disciplined => (Spec => []HolderOwnsLock)
<1> SUFFICES ASSUME Disciplined PROVE Spec => []HolderOwnsLock
  OBVIOUS
<1>1. IInv /\ [Next]_vars => IInv'
  BY IInvStep
<1>2. IInv => HolderOwnsLock
  BY DEF IInv
<1> QED
  BY InitIInv, <1>1, <1>2, PTL DEF Spec

(* In a disciplined use the entry that a thread finds in the map of mutex.go when it *)
(* comes to release is its own mutex; it finds none only where it stored its own       *)
(* between another's UnlockContext and RemoveMutex.                                     *)
THEOREM EntryIsOwn == Disciplined => (Spec => []MapFindsOwnMutex)
<1> SUFFICES ASSUME Disciplined PROVE Spec => []MapFindsOwnMutex
  OBVIOUS
<1>1. IInv /\ [Next]_vars => IInv'
  BY IInvStep
<1>2. IInv => MapFindsOwnMutex
  BY DEF IInv
<1> QED
  BY InitIInv, <1>1, <1>2, PTL DEF Spec

(* In a disciplined use two threads are never inside together. *)
THEOREM LockExcludes == Disciplined => (Spec => []MutualExclusion)
<1> SUFFICES ASSUME Disciplined PROVE Spec => []MutualExclusion
  OBVIOUS
<1>1. HolderOwnsLock => MutualExclusion
  BY DEF HolderOwnsLock, MutualExclusion
<1>2. Spec => []HolderOwnsLock
  BY HolderKeepsLock
<1> QED
  BY <1>1, <1>2, PTL

-----------------------------------------------------------------------------
(* The lock implements LeaseLock. *)

Inside == {t \in Thread : valid[t]}

(* Whoever relies on a lease is its only client. *)
LEMMA InsideOwns ==
  ASSUME TypeOK, HolderOwnsLock, NEW t \in Thread
  PROVE  /\ owner = None => Inside = {}
         /\ owner = Own(t) => Inside \subseteq {t}
<1>1. owner = None => \A u \in Thread : ~valid[u]
  <2>1. \A u \in Thread : Own(u) # None
    BY OwnTyped, ConstAssumption DEF ConstAssumption
  <2> QED
    BY <2>1 DEF HolderOwnsLock
<1>2. owner = Own(t) => \A u \in Thread : valid[u] => u = t
  BY DEF HolderOwnsLock
<1> QED
  BY <1>1, <1>2 DEF Inside

LEMMA InsideAtMostOne ==
  ASSUME HolderOwnsLock, NEW t \in Thread, valid[t]
  PROVE  Inside = {t}
  BY DEF HolderOwnsLock, Inside

(* A lock attempt that reaches Redis gives out a value the key never had. *)
LEMMA GrantedFresh ==
  ASSUME TypeOK, NEW t \in Thread, round[t] < MaxRounds, round' = [round EXCEPT ![t] = @ + 1]
  PROVE  Fresh(t) \in (Thread \X Nat) \ Granted /\ Granted' = Granted \cup {Fresh(t)}
<1>1. round \in [Thread -> 0 .. MaxRounds] /\ MaxRounds \in Nat
  BY ConstAssumption DEF ConstAssumption, TypeOK
<1>2. round[t] + 1 \in 1 .. MaxRounds
  BY <1>1
<1>3. Fresh(t) \in (Thread \X Nat) \ Granted
  BY <1>1, <1>2 DEF Granted
<1>4. ASSUME NEW u \in Thread, NEW n \in 1 .. MaxRounds
      PROVE  n <= round'[u] <=> (n <= round[u] \/ <<u, n>> = Fresh(t))
  <2>1. CASE u = t
    BY <1>1, <2>1
  <2>2. CASE u # t
    BY <1>1, <2>2
  <2> QED
    BY <2>1, <2>2
<1>5. Granted' = {h \in Thread \X (1 .. MaxRounds) : h[2] <= round'[h[1]]}
  BY DEF Granted
<1>6. Fresh(t) \in Thread \X (1 .. MaxRounds)
  BY <1>2
<1>7. \A h \in Thread \X (1 .. MaxRounds) : h \in Granted' <=> h \in Granted \cup {Fresh(t)}
  BY <1>4, <1>5 DEF Granted
<1>8. Granted' \subseteq Thread \X (1 .. MaxRounds)
      /\ Granted \cup {Fresh(t)} \subseteq Thread \X (1 .. MaxRounds)
  BY <1>5, <1>6 DEF Granted
<1> QED
  BY <1>3, <1>7, <1>8

LEMMA LeaseInit == Init => Lease!Init
<1> SUFFICES ASSUME Init PROVE owner = None /\ Granted = {} /\ Inside = {}
  BY DEF Lease!Init, Inside
<1>1. \A h \in Thread \X (1 .. MaxRounds) : ~(h[2] <= round[h[1]])
  BY ConstAssumption DEF ConstAssumption, Init
<1> QED
  BY <1>1 DEF Init, Granted, Inside

(* A step that leaves the key alone is a client's leaving, or nothing. *)
LEMMA QuietStep ==
  ASSUME HolderOwnsLock, UNCHANGED <<owner, round>>, Inside' \subseteq Inside
  PROVE  Lease!Next \/ UNCHANGED Lease!vars
<1>1. Granted' = Granted
  BY DEF Granted
<1>2. Inside' = Inside \/ Inside' = {}
  BY InsideAtMostOne DEF Inside
<1>3. CASE Inside' = Inside
  BY <1>1, <1>3 DEF Lease!vars, Inside
<1>4. CASE Inside' = {}
  BY <1>1, <1>4 DEF Lease!Next, Lease!Leave, Inside
<1> QED
  BY <1>2, <1>3, <1>4

(* A step that deletes the key when nobody is inside gives the lease back. *)
LEMMA DeleteStep ==
  ASSUME owner # None, owner' = None, UNCHANGED <<round, valid>>, Inside = {}
  PROVE  Lease!Next
<1>1. Granted' = Granted
  BY DEF Granted
<1>2. Inside' = {}
  BY DEF Inside
<1> QED
  BY <1>1, <1>2 DEF Lease!Next, Lease!GiveBack, Inside

LEMMA LeaseStep == Disciplined /\ IInv /\ [Next]_vars => [Lease!Next]_(Lease!vars)
<1> SUFFICES ASSUME Disciplined, IInv, [Next]_vars PROVE Lease!Next \/ UNCHANGED Lease!vars
  OBVIOUS
<1> USE DEF IInv
<1>1. ASSUME NEW t \in Thread, Lock(t) \/ LockReplyLost(t) PROVE Lease!Next
  <2>1. /\ owner = None /\ owner' = Fresh(t)
        /\ round[t] < MaxRounds /\ round' = [round EXCEPT ![t] = @ + 1]
    BY <1>1 DEF Lock, LockReplyLost
  <2>2. owner' \in (Thread \X Nat) \ Granted /\ Granted' = Granted \cup {owner'}
    BY <2>1, GrantedFresh
  <2>3. Inside = {}
    BY <2>1, InsideOwns
  <2>4. Inside' \in {{}, {owner'[1]}}
    <3>1. CASE Lock(t)
      <4>1. \A u \in Thread : valid'[u] <=> u = t
        BY <2>3, <3>1 DEF Lock, TypeOK, Inside
      <4> QED
        BY <2>1, <4>1 DEF Inside
    <3>2. CASE LockReplyLost(t)
      BY <2>3, <3>2 DEF LockReplyLost, Inside
    <3> QED
      BY <1>1, <3>1, <3>2
  <2> QED
    BY <2>1, <2>2, <2>4 DEF Lease!Next, Lease!Grant, Inside
<1>2. ASSUME NEW t \in Thread, StoreMutex(t) \/ NotOwner(t) \/ RemoveMutex(t)
      PROVE  Lease!Next \/ UNCHANGED Lease!vars
  BY <1>2, QuietStep DEF StoreMutex, NotOwner, RemoveMutex, Inside
<1>3. ASSUME NEW t \in Thread, GetMutex(t) \/ PassMutex(t)
      PROVE  Lease!Next \/ UNCHANGED Lease!vars
  BY <1>3, QuietStep DEF GetMutex, PassMutex, TypeOK, Inside
<1>4. ASSUME NEW t \in Thread, Unlock(t) \/ UnlockReplyLost(t)
      PROVE  Lease!Next \/ UNCHANGED Lease!vars
  <2>1. mutex[t] = Own(t) /\ ~valid[t] /\ UNCHANGED <<round, valid>>
    BY <1>4 DEF Unlock, UnlockReplyLost, ReleaseOwn, ValidInside
  <2>2. CASE owner' = owner
    BY <2>1, <2>2, QuietStep DEF Inside
  <2>3. CASE owner' # owner
    <3>1. owner = Own(t) /\ owner' = None
      BY <1>4, <2>1, <2>3 DEF Unlock, UnlockReplyLost
    <3>2. Inside = {}
      BY <2>1, <3>1, InsideOwns DEF Inside
    <3> QED
      BY <2>1, <2>3, <3>1, <3>2, DeleteStep
  <2> QED
    BY <2>2, <2>3
<1>5. ASSUME Expire PROVE Lease!Next
  <2>1. Inside' = {}
    <3>1. \A t \in Thread : ~valid'[t]
      BY <1>5 DEF Expire, HolderOwnsLock
    <3> QED
      BY <3>1 DEF Inside
  <2>2. Granted' = Granted
    BY <1>5 DEF Expire, Granted
  <2>3. Inside \subseteq Slow
    BY <1>5 DEF Expire, HolderOwnsLock, Inside
  <2> QED
    BY <1>5, <2>1, <2>2, <2>3 DEF Expire, Lease!Next, Lease!Expire, Inside
<1>6. ASSUME NEW p \in Process, Crash(p) PROVE Lease!Next \/ UNCHANGED Lease!vars
  BY <1>6, QuietStep DEF Crash, Inside
<1>7. ASSUME UNCHANGED vars PROVE UNCHANGED Lease!vars
  BY <1>7 DEF vars, Lease!vars, Granted
<1> QED
  BY <1>1, <1>2, <1>3, <1>4, <1>5, <1>6, <1>7 DEF Next

(* In a disciplined use the lock of redis.go 536-696 is a lock with a lease: the   *)
(* key is deleted only when nobody relies on it, or expires.                       *)
THEOREM LockImplementsLease == Disciplined => (Spec => ImplementsLease)
<1> SUFFICES ASSUME Disciplined PROVE Spec => ImplementsLease
  OBVIOUS
<1>1. IInv /\ [Next]_vars => IInv'
  BY IInvStep
<1>2. IInv /\ [Next]_vars => [Lease!Next]_(Lease!vars)
  BY LeaseStep
<1> QED
  BY InitIInv, LeaseInit, <1>1, <1>2, PTL DEF Spec, ImplementsLease, Lease!Spec

(* What that is worth: in a lock with a lease nobody relies on a lease but the      *)
(* client whose lease is out, so there is never a second one.                       *)
THEOREM LeaseExcludes == Lease!Spec => [](Lease!TypeOK /\ Lease!LeaseHeld)
<1> DEFINE Inv == Lease!TypeOK /\ Lease!LeaseHeld
<1> USE DEF Lease!TypeOK, Lease!LeaseHeld
<1>1. Lease!Init => Inv
  BY DEF Lease!Init
<1>2. Inv /\ [Lease!Next]_(Lease!vars) => Inv'
  <2> SUFFICES ASSUME Inv, [Lease!Next]_(Lease!vars) PROVE Inv'
    OBVIOUS
  <2>1. CASE Lease!Grant
    <3>1. PICK c \in Thread, n \in Nat : owner' = <<c, n>>
      BY <2>1 DEF Lease!Grant
    <3>2. owner'[1] = c /\ owner' # None
      BY <3>1, ConstAssumption DEF ConstAssumption
    <3> QED
      BY <2>1, <3>1, <3>2 DEF Lease!Grant
  <2>2. CASE Lease!Leave \/ Lease!GiveBack \/ Lease!Expire
    BY <2>2 DEF Lease!Leave, Lease!GiveBack, Lease!Expire
  <2>3. CASE UNCHANGED Lease!vars
    BY <2>3 DEF Lease!vars
  <2> QED
    BY <2>1, <2>2, <2>3 DEF Lease!Next
<1> QED
  BY <1>1, <1>2, PTL DEF Lease!Spec
=============================================================================
