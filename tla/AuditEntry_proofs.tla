-------------------------- MODULE AuditEntry_proofs --------------------------
(***************************************************************************)
(* Theorems about AuditEntry, for any number of callers, calls, set-ups and   *)
(* restarts.                                                                  *)
(***************************************************************************)
EXTENDS AuditEntry, TLAPS

Kept == queues \cup pending

(* Every call so far is in one place: with a caller, with a V1 goroutine, or kept. *)
CallInv ==
  /\ spawned \subseteq 1 .. calls
  /\ \A r \in Kept : r.call <= calls /\ r.call \notin spawned
  /\ \A r, s \in Kept : r # s => Copies(r, s) \/ r.call # s.call
  /\ \A c \in Caller : pc[c] # "idle" =>
       /\ record[c].call <= calls /\ record[c].call \notin spawned
       /\ \A r \in Kept : r.call # record[c].call
       /\ \A d \in Caller : pc[d] # "idle" /\ d # c => record[d].call # record[c].call

(* Every id of this life was drawn from the counter, and by one call. *)
IdInv ==
  /\ \A r \in Kept : r.life <= life /\ (r.life = life => r.id <= counter)
  /\ \A r, s \in Kept : r # s /\ r.life = s.life => Copies(r, s) \/ r.id # s.id
  /\ \A c \in Caller : pc[c] # "idle" => record[c].life = life
  /\ \A c \in Caller : pc[c] \in {"submit", "send"} =>
       /\ record[c].id <= counter
       /\ \A r \in Kept : r.life = life => r.id # record[c].id
       /\ \A d \in Caller : pc[d] \in {"submit", "send"} /\ d # c => record[d].id # record[c].id

(* A caller that is about to submit finds its publisher, or is among those whose      *)
(* transaction publisher was taken away.                                                 *)
PublisherInv ==
  \A c \in Caller :
    /\ pc[c] \in {"build", "submit"} =>
         IF record[c].kind = "trx" THEN trx # 0 \/ c \in during ELSE publisher # 0
    /\ pc[c] = "nil" => c \in during
    /\ pc[c] = "closed" => target[c] \in stopped

USE DEF clientVars, trxVars, recordVars, callVars

-----------------------------------------------------------------------------
(* Type correctness. *)

LEMMA Bounds ==
  {MaxCalls, MaxSetups, MaxAttempts, MaxLives} \subseteq Nat /\ 1 <= MaxLives
  BY ConstAssumption DEF ConstAssumption

LEMMA TypeInit == Init => TypeOK
<1> SUFFICES ASSUME Init PROVE TypeOK
  OBVIOUS
<1>1. NoRecord \in Record
  BY DEF NoRecord, Record, Kind
<1>2. 1 \in 1 .. MaxLives /\ 0 \in 0 .. MaxCalls /\ 0 \in 0 .. MaxSetups
  BY Bounds
<1>3. trxEnabled \in BOOLEAN
  BY Zenon DEF Init
<1>4. {publisher, trx, made, counter} \subseteq Nat /\ target \in [Caller -> Nat]
  BY DEF Init
<1> QED
  BY <1>1, <1>2, <1>3, <1>4 DEF Init, TypeOK

LEMMA TypeStep == TypeOK /\ [Next]_vars => TypeOK'
<1> SUFFICES ASSUME TypeOK, [Next]_vars PROVE TypeOK'
  OBVIOUS
<1> USE Bounds DEF TypeOK, Goes, Running, NewCall, Setup
<1>1. ASSUME SetUpRabbitMq \/ ClientChanges \/ SetUpAuditTrailPublisher PROVE TypeOK'
  <2>1. CASE SetUpRabbitMq
    <3>1. setups' \in 0 .. MaxSetups
      BY <2>1 DEF SetUpRabbitMq
    <3> QED
      BY <2>1, <3>1 DEF SetUpRabbitMq
  <2>2. CASE ClientChanges
    BY <2>2 DEF ClientChanges
  <2>3. CASE SetUpAuditTrailPublisher
    <3>1. setups' \in 0 .. MaxSetups
      BY <2>3 DEF SetUpAuditTrailPublisher
    <3> QED
      BY <2>3, <3>1 DEF SetUpAuditTrailPublisher
  <2> QED
    BY <1>1, <2>1, <2>2, <2>3
<1>2. ASSUME NEW on \in BOOLEAN, SetTrxEnabled(on) PROVE TypeOK'
  <2>1. setups' \in 0 .. MaxSetups
    BY <1>2 DEF SetTrxEnabled
  <2>2. trxEnabled' \in BOOLEAN
    BY <1>2, Zenon DEF SetTrxEnabled
  <2> QED
    BY <1>2, <2>1, <2>2 DEF SetTrxEnabled
<1>3. ASSUME SetTrxPublisher \/ Stop PROVE TypeOK'
  <2>1. CASE SetTrxPublisher
    BY <2>1 DEF SetTrxPublisher
  <2>2. CASE Stop
    <3>1. \A c \in Caller : target[c] \in Nat
      OBVIOUS
    <3>2. stopped' \subseteq Nat
      BY <2>2, <3>1 DEF Stop
    <3> QED
      BY <2>2, <3>2 DEF Stop
  <2> QED
    BY <1>3, <2>1, <2>2
<1>4. ASSUME NEW c \in Caller, LogV1(c) PROVE TypeOK'
  <2>1. calls' \in 0 .. MaxCalls /\ calls' \in 1 .. MaxCalls
    BY <1>4 DEF LogV1
  <2>2. spawned' \subseteq 1 .. MaxCalls
    BY <1>4, <2>1 DEF LogV1
  <2> QED
    BY <1>4, <2>1, <2>2 DEF LogV1
<1>5. ASSUME NEW c \in Caller, NEW kind \in Kind, Begin(c, kind) PROVE TypeOK'
  <2>1. [call |-> calls', kind |-> kind, id |-> 0, life |-> life, nth |-> 1] \in Record
    BY <1>5 DEF Begin, Record
  <2> QED
    BY <1>5, <2>1 DEF Begin
<1>6. ASSUME NEW c \in Caller, LogV2(c) \/ LogTrx(c) PROVE TypeOK'
  BY <1>4, <1>5, <1>6 DEF LogV2, LogTrx, Kind
<1>7. ASSUME NEW c \in Caller, NextId(c) PROVE TypeOK'
  <2>1. record' = [record EXCEPT ![c] = [record[c] EXCEPT !.id = counter + 1]]
    BY <1>7 DEF NextId
  <2>2. [record[c] EXCEPT !.id = counter + 1] \in Record
    BY DEF Record
  <2>3. record' \in [Caller -> Record]
    BY <2>1, <2>2
  <2> QED
    BY <1>7, <2>3 DEF NextId
<1>8. ASSUME NEW c \in Caller, TakePublisher(c) \/ Submit(c) PROVE TypeOK'
  <2>1. NoRecord \in Record
    BY DEF NoRecord, Record, Kind
  <2>2. CASE TakePublisher(c)
    BY <2>2 DEF TakePublisher
  <2>3. CASE Submit(c)
    <3>1. pending' \subseteq Record /\ record' \in [Caller -> Record]
      BY <2>1, <2>3 DEF Submit
    <3>2. pc' \in [Caller -> {"idle", "build", "submit", "send", "nil", "closed"}]
      BY <2>3 DEF Submit
    <3>3. target' \in [Caller -> Nat] /\ during' \subseteq Caller
      BY <2>3 DEF Submit
    <3> QED
      BY <2>3, <3>1, <3>2, <3>3 DEF Submit
  <2> QED
    BY <1>8, <2>2, <2>3
<1>9. ASSUME NEW n \in spawned, V1Goroutine(n) PROVE TypeOK'
  <2>1. [call |-> n, kind |-> "v1", id |-> counter + 1, life |-> life, nth |-> 1] \in Record
    BY DEF Record, Kind
  <2> QED
    BY <1>9, <2>1 DEF V1Goroutine
<1>10. ASSUME NEW r \in pending, PushMessage(r) PROVE TypeOK'
  <2>1. [r EXCEPT !.nth = @ + 1] \in Record
    BY DEF Record
  <2> QED
    BY <1>10, <2>1 DEF PushMessage
<1>11. ASSUME Restart PROVE TypeOK'
  <2>1. NoRecord \in Record
    BY DEF NoRecord, Record, Kind
  <2>2. life' \in 1 .. MaxLives
    BY <1>11 DEF Restart
  <2>3. trxEnabled' \in BOOLEAN
    BY <1>11, Zenon DEF Restart
  <2>4. {publisher', trx', made', counter'} \subseteq Nat /\ target' \in [Caller -> Nat]
    BY <1>11 DEF Restart
  <2> QED
    BY <1>11, <2>1, <2>2, <2>3, <2>4 DEF Restart
<1>12. CASE UNCHANGED vars
  BY <1>12 DEF vars
<1> QED
  BY <1>1, <1>2, <1>3, <1>4, <1>6, <1>7, <1>8, <1>9, <1>10, <1>11, <1>12 DEF Next, Service

(* The audit state keeps its type over calls, set-ups and restarts. *)
THEOREM EntryTypes == Spec => []TypeOK
  BY TypeInit, TypeStep, PTL DEF Spec

-----------------------------------------------------------------------------
(* Panics. *)

LEMMA PublisherStep == TypeOK /\ PublisherInv /\ [Next]_vars => PublisherInv'
<1> SUFFICES ASSUME TypeOK, PublisherInv, [Next]_vars PROVE PublisherInv'
  OBVIOUS
<1> USE DEF TypeOK, PublisherInv, Goes, Running, NewCall, Setup
<1>1. ASSUME SetUpRabbitMq \/ ClientChanges \/ SetUpAuditTrailPublisher PROVE PublisherInv'
  BY <1>1 DEF SetUpRabbitMq, ClientChanges, SetUpAuditTrailPublisher
<1>2. ASSUME NEW on \in BOOLEAN, SetTrxEnabled(on) PROVE PublisherInv'
  BY <1>2 DEF SetTrxEnabled
<1>3. ASSUME SetTrxPublisher \/ Stop PROVE PublisherInv'
  BY <1>3 DEF SetTrxPublisher, Stop
<1>4. ASSUME NEW c \in Caller, LogV1(c) PROVE PublisherInv'
  BY <1>4 DEF LogV1
<1>5. ASSUME NEW c \in Caller, NEW kind, Begin(c, kind),
             IF kind = "trx" THEN trx # 0 ELSE publisher # 0
      PROVE  PublisherInv'
  BY <1>5 DEF Begin
<1>6. ASSUME NEW c \in Caller, LogV2(c) \/ LogTrx(c) PROVE PublisherInv'
  <2>1. CASE LogV2(c) /\ publisher = 0
    BY <1>4, <2>1 DEF LogV2
  <2>2. CASE LogV2(c) /\ publisher # 0
    <3>1. Begin(c, "v2")
      BY <2>2 DEF LogV2
    <3> QED
      BY <1>5, <2>2, <3>1
  <2>3. CASE LogTrx(c)
    <3>1. Begin(c, "trx") /\ trx # 0
      BY <2>3 DEF LogTrx
    <3> QED
      BY <1>5, <3>1
  <2> QED
    BY <1>6, <2>1, <2>2, <2>3
<1>7. ASSUME NEW c \in Caller, NextId(c) PROVE PublisherInv'
  <2>1. /\ \A d \in Caller : record'[d].kind = record[d].kind /\ (d # c => pc'[d] = pc[d])
        /\ pc[c] = "build" /\ pc'[c] = "submit"
    BY <1>7 DEF NextId, Record
  <2> QED
    BY <1>7, <2>1 DEF NextId
<1>8. ASSUME NEW c \in Caller, TakePublisher(c) \/ Submit(c) PROVE PublisherInv'
  BY <1>8 DEF TakePublisher, Submit
<1>9. ASSUME NEW n \in spawned, V1Goroutine(n) PROVE PublisherInv'
  BY <1>9 DEF V1Goroutine
<1>10. ASSUME NEW r \in pending, PushMessage(r) PROVE PublisherInv'
  BY <1>10 DEF PushMessage
<1>11. ASSUME Restart PROVE PublisherInv'
  BY <1>11 DEF Restart
<1>12. CASE UNCHANGED vars
  BY <1>12 DEF vars
<1> QED
  BY <1>1, <1>2, <1>3, <1>4, <1>6, <1>7, <1>8, <1>9, <1>10, <1>11, <1>12 DEF Next, Service

(* A service panics over an audit call only when its transaction publisher is taken    *)
(* away between the call's check and its Submit (audittrail_trx.go:25, 53-79), or when    *)
(* the publisher was stopped (audittrail_publisher.go:154).                                 *)
THEOREM PanicsExplained == Spec => []PanicsNeedDisableOrStop
<1>1. Init => TypeOK /\ PublisherInv
  BY TypeInit DEF Init, PublisherInv
<1>2. TypeOK /\ PublisherInv /\ [Next]_vars => (TypeOK /\ PublisherInv)'
  BY TypeStep, PublisherStep
<1>3. PublisherInv => PanicsNeedDisableOrStop
  BY DEF PublisherInv, PanicsNeedDisableOrStop
<1> QED
  BY <1>1, <1>2, <1>3, PTL DEF Spec

-----------------------------------------------------------------------------
(* One record per call, one id per record. *)

(* A push keeps what there is; what it publishes again is a copy. *)
LEMMA PushedAgain ==
  ASSUME TypeOK, NEW r \in pending, PushMessage(r)
  PROVE  /\ r \in Kept
         /\ \A s \in Kept' : s \in Kept \/ Copies(r, s)
<1>1. [r EXCEPT !.nth = @ + 1].call = r.call /\ [r EXCEPT !.nth = @ + 1].id = r.id
  BY DEF TypeOK, Record
<1>2. [r EXCEPT !.nth = @ + 1].kind = r.kind /\ [r EXCEPT !.nth = @ + 1].life = r.life
  BY DEF TypeOK, Record
<1> QED
  BY <1>1, <1>2 DEF PushMessage, Kept, Copies

LEMMA CallStep == TypeOK /\ CallInv /\ [Next]_vars => CallInv'
<1> SUFFICES ASSUME TypeOK, CallInv, [Next]_vars PROVE CallInv'
  OBVIOUS
<1> USE Bounds DEF TypeOK, CallInv, Kept, Goes, Running, NewCall, Setup
<1>1. ASSUME \/ SetUpRabbitMq \/ ClientChanges \/ SetUpAuditTrailPublisher
             \/ SetTrxPublisher \/ Stop
      PROVE  CallInv'
  BY <1>1 DEF SetUpRabbitMq, ClientChanges, SetUpAuditTrailPublisher, SetTrxPublisher, Stop
<1>2. ASSUME NEW on \in BOOLEAN, SetTrxEnabled(on) PROVE CallInv'
  BY <1>2 DEF SetTrxEnabled
<1>3. ASSUME NEW c \in Caller, LogV1(c) PROVE CallInv'
  BY <1>3 DEF LogV1, Record
<1>4. ASSUME NEW c \in Caller, NEW kind, Begin(c, kind) PROVE CallInv'
  <2>1. /\ record'[c].call = calls + 1
        /\ \A d \in Caller : d # c => record'[d] = record[d]
    BY <1>4 DEF Begin
  <2> QED
    BY <1>4, <2>1 DEF Begin, Record
<1>5. ASSUME NEW c \in Caller, LogV2(c) \/ LogTrx(c) PROVE CallInv'
  BY <1>3, <1>4, <1>5 DEF LogV2, LogTrx
<1>6. ASSUME NEW c \in Caller, NextId(c) PROVE CallInv'
  <2>1. \A d \in Caller : record'[d].call = record[d].call /\ (pc[d] = "idle" <=> pc'[d] = "idle")
    BY <1>6 DEF NextId, Record
  <2> QED
    BY <1>6, <2>1 DEF NextId
<1>7. ASSUME NEW c \in Caller, TakePublisher(c) \/ Submit(c) PROVE CallInv'
  <2>1. /\ \A d \in Caller : d # c => record'[d] = record[d] /\ pc'[d] = pc[d]
        /\ pc[c] # "idle" /\ UNCHANGED <<spawned, calls>>
        /\ \/ record'[c] = record[c] /\ Kept' = Kept
           \/ pc'[c] = "idle" /\ (Kept' = Kept \/ Kept' = Kept \cup {record[c]})
    BY <1>7 DEF TakePublisher, Submit
  <2> HIDE DEF Kept
  <2> QED
    BY <2>1
<1>8. ASSUME NEW n \in spawned, V1Goroutine(n) PROVE CallInv'
  <2>1. n \in 1 .. calls /\ calls \in Nat
    OBVIOUS
  <2> DEFINE r == [call |-> n, kind |-> "v1", id |-> counter', life |-> life, nth |-> 1]
  <2>2. /\ Kept' = Kept \/ Kept' = Kept \cup {r}
        /\ spawned' = spawned \ {n} /\ UNCHANGED <<pc, record, calls>>
    BY <1>8 DEF V1Goroutine
  <2>3. r.call = n
    OBVIOUS
  <2> HIDE DEF Kept, r
  <2> QED
    BY <2>1, <2>2, <2>3
<1>9. ASSUME NEW r \in pending, PushMessage(r) PROVE CallInv'
  <2>1. UNCHANGED <<pc, record, spawned, calls>>
    BY <1>9 DEF PushMessage
  <2> QED
    BY <1>9, <2>1, PushedAgain DEF CallInv, Copies
<1>10. ASSUME Restart PROVE CallInv'
  BY <1>10 DEF Restart
<1>11. CASE UNCHANGED vars
  BY <1>11 DEF vars
<1> QED
  BY <1>1, <1>2, <1>3, <1>5, <1>6, <1>7, <1>8, <1>9, <1>10, <1>11 DEF Next, Service

LEMMA IdStep == TypeOK /\ IdInv /\ [Next]_vars => IdInv'
<1> SUFFICES ASSUME TypeOK, IdInv, [Next]_vars PROVE IdInv'
  OBVIOUS
<1> USE Bounds DEF TypeOK, IdInv, Kept, Goes, Running, NewCall, Setup
<1>1. ASSUME \/ SetUpRabbitMq \/ ClientChanges \/ SetUpAuditTrailPublisher
             \/ SetTrxPublisher \/ Stop
      PROVE  IdInv'
  BY <1>1 DEF SetUpRabbitMq, ClientChanges, SetUpAuditTrailPublisher, SetTrxPublisher, Stop
<1>2. ASSUME NEW on \in BOOLEAN, SetTrxEnabled(on) PROVE IdInv'
  BY <1>2 DEF SetTrxEnabled
<1>3. ASSUME NEW c \in Caller, LogV1(c) PROVE IdInv'
  BY <1>3 DEF LogV1
<1>4. ASSUME NEW c \in Caller, NEW kind, Begin(c, kind) PROVE IdInv'
  <2>1. /\ record'[c].life = life
        /\ \A d \in Caller : d # c => record'[d] = record[d]
    BY <1>4 DEF Begin
  <2> QED
    BY <1>4, <2>1 DEF Begin
<1>5. ASSUME NEW c \in Caller, LogV2(c) \/ LogTrx(c) PROVE IdInv'
  BY <1>3, <1>4, <1>5 DEF LogV2, LogTrx
<1>6. ASSUME NEW c \in Caller, NextId(c) PROVE IdInv'
  <2>1. /\ record'[c].life = record[c].life /\ record'[c].id = counter + 1
        /\ \A d \in Caller : d # c => record'[d] = record[d] /\ pc'[d] = pc[d]
        /\ pc[c] = "build" /\ counter' = counter + 1
        /\ UNCHANGED <<queues, pending, life>>
    BY <1>6 DEF NextId, Record
  <2>2. Kept' = Kept /\ \A r \in Kept : r.id \in Nat
    BY <2>1 DEF Record
  <2>3. \A d \in Caller : record[d].id \in Nat
    BY DEF Record
  <2> HIDE DEF Kept
  <2> QED
    BY <2>1, <2>2, <2>3
<1>7. ASSUME NEW c \in Caller, TakePublisher(c) \/ Submit(c) PROVE IdInv'
  <2>1. /\ \A d \in Caller : d # c => record'[d] = record[d] /\ pc'[d] = pc[d]
        /\ pc[c] \in {"submit", "send"} /\ UNCHANGED <<counter, life>>
        /\ \/ record'[c] = record[c] /\ Kept' = Kept
           \/ pc'[c] = "idle" /\ (Kept' = Kept \/ Kept' = Kept \cup {record[c]})
    BY <1>7 DEF TakePublisher, Submit
  <2> HIDE DEF Kept
  <2> QED
    BY <2>1
<1>8. ASSUME NEW n \in spawned, V1Goroutine(n) PROVE IdInv'
  <2> DEFINE r == [call |-> n, kind |-> "v1", id |-> counter + 1, life |-> life, nth |-> 1]
  <2>1. /\ Kept' = Kept \/ Kept' = Kept \cup {r}
        /\ counter' = counter + 1 /\ UNCHANGED <<pc, record, life>>
    BY <1>8 DEF V1Goroutine
  <2>2. r.id = counter + 1 /\ r.life = life
    OBVIOUS
  <2>3. /\ \A s \in Kept : s.id \in Nat
        /\ \A d \in Caller : record[d].id \in Nat
    BY DEF Record
  <2> HIDE DEF Kept, r
  <2> QED
    BY <2>1, <2>2, <2>3
<1>9. ASSUME NEW r \in pending, PushMessage(r) PROVE IdInv'
  <2>1. UNCHANGED <<pc, record, counter, life>>
    BY <1>9 DEF PushMessage
  <2> QED
    BY <1>9, <2>1, PushedAgain DEF IdInv, Copies
<1>10. ASSUME Restart PROVE IdInv'
  <2>1. /\ Kept' \subseteq Kept /\ life' = life + 1
        /\ \A c \in Caller : pc'[c] = "idle"
    BY <1>10 DEF Restart
  <2>2. \A r \in Kept : r.life \in Nat /\ r.life <= life
    BY DEF Record
  <2> HIDE DEF Kept
  <2> QED
    BY <2>1, <2>2
<1>11. CASE UNCHANGED vars
  BY <1>11 DEF vars
<1> QED
  BY <1>1, <1>2, <1>3, <1>5, <1>6, <1>7, <1>8, <1>9, <1>10, <1>11 DEF Next, Service

(* Whatever a call falls back on, it leaves one record at most, but for the copies of  *)
(* a V1 push (amqp.go:431-453), and no two records that one life of the process wrote    *)
(* have the same id.                                                                        *)
THEOREM OneRecordPerCall == Spec => []RecordedOnce
<1>1. Init => TypeOK /\ CallInv /\ IdInv
  BY TypeInit DEF Init, CallInv, IdInv, Kept
<1>2. TypeOK /\ CallInv /\ IdInv /\ [Next]_vars => (TypeOK /\ CallInv /\ IdInv)'
  BY TypeStep, CallStep, IdStep
<1>3. CallInv /\ IdInv => RecordedOnce
  BY DEF CallInv, IdInv, Kept, RecordedOnce
<1> QED
  BY <1>1, <1>2, <1>3, PTL DEF Spec
=============================================================================
