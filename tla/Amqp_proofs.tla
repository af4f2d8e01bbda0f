---------------------------- MODULE Amqp_proofs ----------------------------
(***************************************************************************)
(* Theorems about the life cycle of AmqpClient and about publishing through   *)
(* it (AmqpPush), for any number of callers of Close and of calls of Push, any *)
(* number of attempts and any bound on the failures.                          *)
(***************************************************************************)
EXTENDS AmqpPush, FiniteSetTheorems, TLAPS

(* Only the current connection can be open, and none is while the loop is on *)
(* its way to the next dial.                                                  *)
ConnectionInv ==
  /\ openConns \subseteq {connection}
  /\ lpc \in {"top", "dial", "redial"} => openConns = {}

IInv == TypeOK /\ ConnectionInv

USE DEF loopVars, netVars, closeVars

LEMMA TypeInit == Init => TypeOK
<1> SUFFICES ASSUME Init PROVE TypeOK
  OBVIOUS
<1>1. openConns \in SUBSET (1 .. connection) /\ connection \in Nat
  BY DEF Init
<1>2. faults \in 0 .. MaxFaults
  BY ConstAssumption DEF Init, ConstAssumption
<1>3. cpc \in [Closer -> {"idle", "channel", "connection", "finish",
                         "ok", "error", "alreadyClosed", "panicked"}]
  BY DEF Init
<1> QED
  BY <1>1, <1>2, <1>3 DEF Init, TypeOK

LEMMA FaultBound ==
  ASSUME TypeOK, Fault \/ UNCHANGED faults
  PROVE  faults' \in 0 .. MaxFaults
  BY ConstAssumption DEF TypeOK, Fault, ConstAssumption

LEMMA TypeStep == TypeOK /\ [Next]_vars => TypeOK'
<1> SUFFICES ASSUME TypeOK, [Next]_vars PROVE TypeOK'
  OBVIOUS
<1> USE DEF TypeOK, LoopGoes
<1>1. ASSUME ReconnectTop \/ ReInitTop \/ BecomeReady PROVE TypeOK'
  BY <1>1 DEF ReconnectTop, ReInitTop, Unready, BecomeReady
<1>2. ASSUME DialFails \/ InitFails \/ InitSucceeds PROVE TypeOK'
  BY <1>2, FaultBound DEF DialFails, InitFails, InitSucceeds
<1>3. ASSUME DialSucceeds PROVE TypeOK'
  <2>1. connection + 1 \in Nat /\ openConns \cup {connection + 1} \subseteq 1 .. connection + 1
    OBVIOUS
  <2> QED
    BY <1>3, <2>1 DEF DialSucceeds
<1>4. ASSUME RedialWakes \/ RedialDone \/ InitDelayWakes PROVE TypeOK'
  BY <1>4 DEF RedialWakes, RedialDone, InitDelayWakes
<1>5. ASSUME SelectDone \/ SelectConnClosed \/ SelectChanClosed PROVE TypeOK'
  BY <1>5 DEF SelectDone, SelectConnClosed, SelectChanClosed
<1>6. ASSUME DropConnection \/ DropChannel PROVE TypeOK'
  BY <1>6, FaultBound DEF DropConnection, DropChannel
<1>7. ASSUME NEW k \in Closer, CloseCall(k) PROVE TypeOK'
  BY <1>7 DEF CloseCall, CloseNotReady, CloseBegins, ClosePanics, Return
<1>8. ASSUME NEW k \in Closer, CloseStep(k) PROVE TypeOK'
  <2>1. Fault \/ UNCHANGED faults
    BY <1>8 DEF CloseStep, CloseChannel, CloseConnection, CloseFinishes
  <2>2. faults' \in 0 .. MaxFaults
    BY <2>1, FaultBound
  <2>3. CASE CloseChannel(k)
    BY <2>2, <2>3 DEF CloseChannel, Return
  <2>4. CASE CloseConnection(k)
    BY <2>2, <2>4 DEF CloseConnection, Return
  <2>5. CASE CloseFinishes(k)
    BY <2>2, <2>5 DEF CloseFinishes, Return
  <2> QED
    BY <1>8, <2>3, <2>4, <2>5 DEF CloseStep
<1>9. CASE UNCHANGED vars
  BY <1>9 DEF vars
<1> QED
  BY <1>1, <1>2, <1>3, <1>4, <1>5, <1>6, <1>7, <1>8, <1>9 DEF Next, Loop

LEMMA ConnectionStep == TypeOK /\ ConnectionInv /\ [Next]_vars => ConnectionInv'
<1> SUFFICES ASSUME TypeOK, ConnectionInv, [Next]_vars PROVE ConnectionInv'
  OBVIOUS
<1> USE DEF TypeOK, ConnectionInv, LoopGoes
<1>1. ASSUME ReconnectTop \/ ReInitTop \/ BecomeReady PROVE ConnectionInv'
  BY <1>1 DEF ReconnectTop, ReInitTop, Unready, BecomeReady
<1>2. ASSUME DialFails \/ InitFails \/ InitSucceeds PROVE ConnectionInv'
  BY <1>2 DEF DialFails, InitFails, InitSucceeds
<1>3. ASSUME DialSucceeds PROVE ConnectionInv'
  BY <1>3 DEF DialSucceeds
<1>4. ASSUME RedialWakes \/ RedialDone \/ InitDelayWakes PROVE ConnectionInv'
  BY <1>4 DEF RedialWakes, RedialDone, InitDelayWakes
<1>5. ASSUME SelectDone \/ SelectConnClosed \/ SelectChanClosed PROVE ConnectionInv'
  BY <1>5 DEF SelectDone, SelectConnClosed, SelectChanClosed, Connected
<1>6. ASSUME DropConnection \/ DropChannel PROVE ConnectionInv'
  BY <1>6 DEF DropConnection, DropChannel
<1>7. ASSUME NEW k \in Closer, CloseCall(k) PROVE ConnectionInv'
  BY <1>7 DEF CloseCall, CloseNotReady, CloseBegins, ClosePanics
<1>8. ASSUME NEW k \in Closer, CloseStep(k) PROVE ConnectionInv'
  BY <1>8 DEF CloseStep, CloseChannel, CloseConnection, CloseFinishes
<1>9. CASE UNCHANGED vars
  BY <1>9 DEF vars
<1> QED
  BY <1>1, <1>2, <1>3, <1>4, <1>5, <1>6, <1>7, <1>8, <1>9 DEF Next, Loop

(* The client keeps its types, whenever the broker fails and Close is called. *)
THEOREM ClientTypes == Spec => []TypeOK
  BY TypeInit, TypeStep, PTL DEF Spec

(* The reconnect loop never has two connections to the broker open, however  *)
(* dials, channel errors and calls of Close interleave.                      *)
THEOREM NeverTwoConnections == Spec => []OneConnection
<1>1. Init => IInv
  BY TypeInit DEF Init, IInv, ConnectionInv
<1>2. IInv /\ [Next]_vars => IInv'
  BY TypeStep, ConnectionStep DEF IInv
<1>3. IInv => OneConnection
  <2> SUFFICES ASSUME IInv PROVE Cardinality(openConns) <= 1
    BY DEF IInv, ConnectionInv, OneConnection
  <2>1. CASE openConns = {}
    BY <2>1, FS_EmptySet
  <2>2. CASE openConns = {connection}
    BY <2>2, FS_Singleton
  <2> QED
    BY <2>1, <2>2 DEF IInv, ConnectionInv
<1> QED
  BY <1>1, <1>2, <1>3, PTL DEF Spec

(* isReady is false from the moment the loop notices a lost connection or    *)
(* channel until the next channel is installed.                              *)
THEOREM ReadinessFollowsLoop == Spec => []NotReadyWhileConnecting
<1> DEFINE R == isReady => lpc \in {"top", "reinit", "serve", "exited"}
<1>1. Init => R
  BY DEF Init
<1>2. TypeOK /\ R /\ [Next]_vars => R'
  <2> SUFFICES ASSUME TypeOK, R, [Next]_vars PROVE R'
    OBVIOUS
  <2> USE DEF LoopGoes
  <2>1. ASSUME Loop PROVE R'
    BY <2>1 DEF Loop, ReconnectTop, ReInitTop, Unready, DialFails, DialSucceeds, RedialWakes,
                RedialDone, InitFails, InitSucceeds, BecomeReady, InitDelayWakes, SelectDone,
                SelectConnClosed, SelectChanClosed
  <2>2. ASSUME DropConnection \/ DropChannel \/ UNCHANGED vars PROVE R'
    BY <2>2 DEF DropConnection, DropChannel, vars
  <2>3. ASSUME NEW k \in Closer, CloseCall(k) \/ CloseStep(k) PROVE R'
    BY <2>3 DEF CloseCall, CloseNotReady, CloseBegins, ClosePanics, CloseStep, CloseChannel,
                CloseConnection, CloseFinishes
  <2> QED
    BY <2>1, <2>2, <2>3 DEF Next
<1>3. Init => TypeOK
  BY TypeInit
<1>4. TypeOK /\ [Next]_vars => TypeOK'
  BY TypeStep
<1>5. TypeOK /\ R => NotReadyWhileConnecting
  BY DEF NotReadyWhileConnecting, TypeOK
<1> QED
  BY <1>1, <1>2, <1>3, <1>4, <1>5, PTL DEF Spec
-----------------------------------------------------------------------------
(* Publishing. *)

USE DEF chanVars, pushVars

LEMMA PushTypeInit == PushInit => PushTypeOK
<1> SUFFICES ASSUME PushInit PROVE PushTypeOK
  OBVIOUS
<1>1. TypeOK
  BY TypeInit DEF PushInit
<1>2. attempt \in [Pusher -> 0 .. MaxAttempts - 1]
  BY PushConstAssumption DEF PushInit, PushConstAssumption
<1>3. \A g \in 0 .. gen : buffer[g] = <<>>
  BY DEF PushInit
<1> QED
  BY <1>1, <1>2, <1>3 DEF PushInit, PushTypeOK, Results

(* A call that goes round or returns keeps its variables in their ranges. *)
LEMMA CallTypes ==
  ASSUME PushTypeOK, NEW p \in Pusher, NEW result \in Results,
         PushReturns(p, result) \/ NextAttempt(p)
  PROVE  /\ ppc' \in [Pusher -> {"idle", "attempt", "publish", "published", "wait", "resend"}
                                  \cup Results]
         /\ attempt' \in [Pusher -> 0 .. MaxAttempts - 1]
         /\ waitsOn' \in [Pusher -> 0 .. gen]
<1>1. MaxAttempts \in Nat \ {0}
  BY PushConstAssumption DEF PushConstAssumption
<1>2. ASSUME NEW r \in Results, PushReturns(p, r)
      PROVE  /\ ppc' \in [Pusher -> {"idle", "attempt", "publish", "published", "wait", "resend"}
                                      \cup Results]
             /\ attempt' \in [Pusher -> 0 .. MaxAttempts - 1]
             /\ waitsOn' \in [Pusher -> 0 .. gen]
  BY <1>1, <1>2 DEF PushReturns, PushTypeOK, Goto
<1>3. CASE NextAttempt(p)
  <2>1. CASE attempt[p] + 1 < MaxAttempts
    <3>1. /\ ppc' = [ppc EXCEPT ![p] = "attempt"]
          /\ attempt' = [attempt EXCEPT ![p] = @ + 1]
          /\ waitsOn' = [waitsOn EXCEPT ![p] = 0]
      BY <1>3, <2>1 DEF NextAttempt, Goto
    <3>2. attempt[p] + 1 \in 0 .. MaxAttempts - 1 /\ 0 \in 0 .. gen
      BY <1>1, <2>1 DEF PushTypeOK
    <3> QED
      BY <3>1, <3>2 DEF PushTypeOK
  <2>2. CASE ~(attempt[p] + 1 < MaxAttempts)
    BY <1>2, <1>3, <2>2 DEF NextAttempt, Results
  <2> QED
    BY <2>1, <2>2
<1> QED
  BY <1>2, <1>3

LEMMA PushTypeStep == PushTypeOK /\ [PushNext]_allVars => PushTypeOK'
<1> SUFFICES ASSUME PushTypeOK, [PushNext]_allVars PROVE PushTypeOK'
  OBVIOUS
<1> USE DEF PushTypeOK
<1>1. ASSUME ClientStep PROVE PushTypeOK'
  <2>1. TypeOK'
    BY <1>1, TypeStep DEF ClientStep
  <2>2. gen' \in Nat /\ gen <= gen'
    BY <1>1 DEF ClientStep
  <2>3. /\ buffer' \in [0 .. gen' -> Seq(BOOLEAN)]
        /\ \A g \in 0 .. gen' : Len(buffer'[g]) <= 2
    <3>1. buffer' = [g \in 0 .. gen' |-> IF g <= gen THEN buffer[g] ELSE <<>>]
      BY <1>1 DEF ClientStep
    <3>2. ASSUME NEW g \in 0 .. gen', g <= gen
          PROVE  buffer[g] \in Seq(BOOLEAN) /\ Len(buffer[g]) <= 2
      BY <2>2, <3>2
    <3>3. <<>> \in Seq(BOOLEAN) /\ Len(<<>>) <= 2
      OBVIOUS
    <3> QED
      BY <3>1, <3>2, <3>3
  <2>4. pending' \in Seq(Pusher)
    BY <1>1 DEF ClientStep
  <2>5. waitsOn' \in [Pusher -> 0 .. gen'] /\ confirms' \in 0 .. gen'
    BY <1>1, <2>2 DEF ClientStep
  <2> QED
    BY <1>1, <2>1, <2>2, <2>3, <2>4, <2>5 DEF ClientStep
<1>2. ASSUME UNCHANGED vars PROVE TypeOK'
  BY <1>2, TypeStep
<1>3. ASSUME ListenForConfirms PROVE PushTypeOK'
  BY <1>2, <1>3 DEF ListenForConfirms
<1>4. ASSUME NEW ack \in BOOLEAN, Confirm(ack), acks' \in Nat PROVE PushTypeOK'
  <2>1. buffer[gen] \in Seq(BOOLEAN) /\ Len(buffer[gen]) <= 1
    <3>1. gen \in 0 .. gen /\ Len(buffer[gen]) # 2
      BY <1>4 DEF Confirm, ReaderWaits
    <3>2. buffer[gen] \in Seq(BOOLEAN) /\ Len(buffer[gen]) <= 2
      BY <3>1
    <3>3. Len(buffer[gen]) \in Nat
      BY <3>2
    <3>4. \A n \in Nat : n # 2 /\ n <= 2 => n <= 1
      OBVIOUS
    <3> QED
      BY <3>1, <3>2, <3>3, <3>4, Zenon
  <2>2. Append(buffer[gen], ack) \in Seq(BOOLEAN) /\ Len(Append(buffer[gen], ack)) <= 2
    BY <2>1
  <2>3. /\ buffer' \in [0 .. gen' -> Seq(BOOLEAN)]
        /\ \A g \in 0 .. gen' : Len(buffer'[g]) <= 2
    BY <1>4, <2>2 DEF Confirm
  <2>4. pending' \in Seq(Pusher)
    BY <1>4 DEF Confirm
  <2> QED
    BY <1>2, <1>4, <2>3, <2>4 DEF Confirm
<1>5. ASSUME BrokerAcks \/ BrokerNacks PROVE PushTypeOK'
  <2>1. CASE BrokerAcks
    <3>1. Confirm(TRUE) /\ acks' = acks + 1
      BY <2>1, Zenon DEF BrokerAcks
    <3>2. acks' \in Nat
      BY <3>1
    <3> QED
      BY <1>4, <3>1, <3>2, Zenon
  <2>2. CASE BrokerNacks
    <3>1. Confirm(FALSE) /\ acks' = acks
      BY <2>2, Zenon DEF BrokerNacks
    <3>2. acks' \in Nat
      BY <3>1
    <3> QED
      BY <1>4, <3>1, <3>2, Zenon
  <2> QED
    BY <1>5, <2>1, <2>2
<1>6. ASSUME NEW p \in Pusher, Begin(p) \/ CheckReady(p) PROVE PushTypeOK'
  BY <1>2, <1>6 DEF Begin, CheckReady, NotPublished, Goto, Results
<1>7. ASSUME NEW p \in Pusher, Publish(p) PROVE PushTypeOK'
  <2>1. /\ \E to \in {"ok", "error", "published", "resend"} : ppc' = [ppc EXCEPT ![p] = to]
        /\ pending' = Append(pending, p) \/ pending' = pending
        /\ UNCHANGED <<vars, gen, confirms, buffer, acks, attempt, waitsOn>>
    BY <1>7 DEF Publish, NotPublished, Goto
  <2>2. pending' \in Seq(Pusher)
    <3>1. pending \in Seq(Pusher)
      OBVIOUS
    <3>2. Append(pending, p) \in Seq(Pusher)
      BY <3>1
    <3> QED
      BY <2>1, <3>1, <3>2
  <2>3. ppc' \in [Pusher -> {"idle", "attempt", "publish", "published", "wait", "resend"}
                             \cup Results]
    BY <2>1 DEF Results
  <2> QED
    BY <1>2, <2>1, <2>2, <2>3
<1>8. ASSUME NEW p \in Pusher, ReadConfirms(p) PROVE PushTypeOK'
  BY <1>2, <1>8 DEF ReadConfirms, Goto
<1>9. ASSUME NEW p \in Pusher, ReceiveConfirm(p) PROVE PushTypeOK'
  <2>1. /\ PushReturns(p, "ok") \/ NextAttempt(p)
        /\ UNCHANGED <<vars, gen, confirms, pending, acks>>
        /\ waitsOn[p] \in 0 .. gen /\ buffer[waitsOn[p]] # <<>>
        /\ buffer' = [buffer EXCEPT ![waitsOn[p]] = Tail(@)]
    BY <1>9 DEF ReceiveConfirm
  <2>2. /\ Tail(buffer[waitsOn[p]]) \in Seq(BOOLEAN)
        /\ Len(Tail(buffer[waitsOn[p]])) <= 2
    BY <2>1
  <2> QED
    BY <1>2, <2>1, <2>2, CallTypes DEF Results
<1>10. ASSUME NEW p \in Pusher,
              ReceiveClosed(p) \/ ResendWakes(p) \/ Deadline(p) \/ Shutdown(p)
       PROVE  PushTypeOK'
  <2>1. /\ PushReturns(p, "error") \/ NextAttempt(p)
        /\ UNCHANGED <<vars, chanVars>>
    BY <1>10 DEF ReceiveClosed, ResendWakes, Deadline, Shutdown
  <2> QED
    BY <1>2, <2>1, CallTypes DEF Results
<1>11. CASE UNCHANGED allVars
  BY <1>2, <1>11 DEF allVars
<1> QED
  BY <1>1, <1>3, <1>5, <1>6, <1>7, <1>8, <1>9, <1>10, <1>11 DEF PushNext, PushStep

(* The states of publishing calls have their types: a call never asks for a   *)
(* notifyConfirm that does not exist, nor makes more attempts than allowed,   *)
(* and the reader never holds more than the confirmation it waits with.       *)
THEOREM PushTypes == PushSpec => []PushTypeOK
<1> QED
  BY PushTypeInit, PushTypeStep, PTL DEF PushSpec

-----------------------------------------------------------------------------
(* Acknowledgements.  Each one the broker gave is at most one of: a successful *)
(* call, the first confirmation in a notifyConfirm, the second one.            *)

Succeeded == {p \in Pusher \ Quiet : ppc[p] = "ok"}
First  == {g \in 0 .. gen : Len(buffer[g]) >= 1 /\ buffer[g][1]}
Second == {g \in 0 .. gen : Len(buffer[g]) = 2 /\ buffer[g][2]}

Backed ==
  /\ IsFiniteSet(Succeeded)
  /\ Cardinality(Succeeded) + Cardinality(First) + Cardinality(Second) <= acks

LEMMA OneMoreOrLess ==
  ASSUME NEW S, IsFiniteSet(S), NEW x
  PROVE  /\ Cardinality(S) \in Nat
         /\ IsFiniteSet(S \cup {x}) /\ IsFiniteSet(S \ {x})
         /\ x \notin S => Cardinality(S \cup {x}) = Cardinality(S) + 1
         /\ x \in S => Cardinality(S \ {x}) = Cardinality(S) - 1
  BY FS_CardinalityType, FS_AddElement, FS_RemoveElement

LEMMA ConfirmationsFinite ==
  ASSUME PushTypeOK PROVE IsFiniteSet(First) /\ IsFiniteSet(Second)
<1>1. 0 \in Int /\ gen \in Int
  BY DEF PushTypeOK
<1>2. IsFiniteSet(0 .. gen)
  BY <1>1, FS_Interval
<1>3. First \subseteq 0 .. gen /\ Second \subseteq 0 .. gen
  BY DEF First, Second
<1> QED
  BY <1>2, <1>3, FS_Subset

LEMMA BackedInit == PushInit => Backed
<1> SUFFICES ASSUME PushInit PROVE Backed
  OBVIOUS
<1>1. Succeeded = {} /\ First = {} /\ Second = {} /\ acks = 0
  <2>1. Succeeded = {}
    BY DEF PushInit, Succeeded
  <2>2. gen = 0 /\ acks = 0 /\ \A g \in 0 .. gen : buffer[g] = <<>>
    BY DEF PushInit
  <2>3. Len(<<>>) = 0
    OBVIOUS
  <2> QED
    BY <2>1, <2>2, <2>3 DEF First, Second
<1>2. IsFiniteSet({}) /\ Cardinality({}) = 0
  BY FS_EmptySet
<1> QED
  BY <1>1, <1>2 DEF Backed

(* The broker's confirmation is the first or the second of its channel. *)
LEMMA BackedConfirm ==
  ASSUME PushTypeOK, Backed, NEW ack \in BOOLEAN, Confirm(ack),
         acks' = IF ack THEN acks + 1 ELSE acks
  PROVE  Backed'
<1>1. Succeeded' = Succeeded
  BY DEF Confirm, pushVars, Succeeded
<1>2. CASE confirms # gen
  <2>1. buffer' = buffer /\ gen' = gen /\ acks' \in {acks, acks + 1} /\ acks \in Nat
    BY <1>2 DEF Confirm, PushTypeOK
  <2>2. First' = First /\ Second' = Second
    BY <2>1 DEF First, Second
  <2> QED
    <3>1. Cardinality(Succeeded) \in Nat /\ Cardinality(First) \in Nat /\ Cardinality(Second) \in Nat
      BY ConfirmationsFinite, FS_CardinalityType DEF Backed
    <3> QED
      BY <1>1, <2>1, <2>2, <3>1 DEF Backed
<1>3. CASE confirms = gen
  <2> DEFINE b == buffer[gen]
  <2>1. /\ gen' = gen /\ gen \in 0 .. gen
        /\ \A g \in 0 .. gen : buffer'[g] = IF g = gen THEN Append(b, ack) ELSE buffer[g]
    BY <1>3 DEF Confirm, PushTypeOK
  <2>2. b \in Seq(BOOLEAN) /\ Len(b) \in Nat
    BY DEF PushTypeOK
  <2>3. Len(b) = 0 \/ Len(b) = 1
    <3>1. Len(b) # 2
      BY DEF Confirm, ReaderWaits
    <3>2. Len(b) <= 2
      BY <2>1 DEF PushTypeOK
    <3>3. \A n \in Nat : n # 2 /\ n <= 2 => n = 0 \/ n = 1
      OBVIOUS
    <3> QED
      BY <2>2, <3>1, <3>2, <3>3, Zenon
  <2>4. /\ Len(Append(b, ack)) = Len(b) + 1
        /\ Append(b, ack)[Len(b) + 1] = ack
        /\ Len(b) = 1 => Append(b, ack)[1] = b[1]
    BY <2>2
  <2>5. /\ ~ack \/ Len(b) = 1 => First' = First
        /\ ack /\ Len(b) = 0 => gen \notin First /\ First' = First \cup {gen}
    <3> HIDE DEF b
    <3>1. \A g \in 0 .. gen : g # gen => buffer'[g] = buffer[g]
      BY <2>1
    <3>2. buffer'[gen] = Append(b, ack)
      BY <2>1
    <3>3. b = buffer[gen]
      BY DEF b
    <3> QED
      BY <2>1, <2>3, <2>4, <3>1, <3>2, <3>3 DEF First
  <2>6. /\ ~ack \/ Len(b) = 0 => Second' = Second
        /\ ack /\ Len(b) = 1 => gen \notin Second /\ Second' = Second \cup {gen}
    <3> HIDE DEF b
    <3>1. \A g \in 0 .. gen : g # gen => buffer'[g] = buffer[g]
      BY <2>1
    <3>2. buffer'[gen] = Append(b, ack)
      BY <2>1
    <3>3. /\ Len(b) = 1 => Len(buffer'[gen]) = 2 /\ buffer'[gen][2] = ack
          /\ Len(b) = 0 => Len(buffer'[gen]) = 1
      BY <2>4, <3>2
    <3>4. Len(buffer[gen]) # 2
      BY <2>3 DEF b
    <3> QED
      BY <2>1, <2>3, <3>1, <3>3, <3>4 DEF Second
  <2>7. /\ Cardinality(Succeeded) \in Nat /\ Cardinality(First) \in Nat
        /\ Cardinality(Second) \in Nat /\ acks \in Nat
    BY ConfirmationsFinite, FS_CardinalityType DEF Backed, PushTypeOK
  <2>8. Cardinality(First') + Cardinality(Second')
           = Cardinality(First) + Cardinality(Second) + (IF ack THEN 1 ELSE 0)
    <3>1. CASE ~ack
      BY <2>5, <2>6, <2>7, <3>1
    <3>2. CASE ack /\ Len(b) = 0
      <4>1. Cardinality(First') = Cardinality(First) + 1 /\ Second' = Second
        BY <2>5, <2>6, <3>2, ConfirmationsFinite, OneMoreOrLess
      <4> QED
        BY <2>7, <3>2, <4>1
    <3>3. CASE ack /\ Len(b) = 1
      <4>1. Cardinality(Second') = Cardinality(Second) + 1 /\ First' = First
        BY <2>5, <2>6, <3>3, ConfirmationsFinite, OneMoreOrLess
      <4> QED
        BY <2>7, <3>3, <4>1
    <3> QED
      BY <2>3, <3>1, <3>2, <3>3
  <2>9. Cardinality(First') \in Nat /\ Cardinality(Second') \in Nat
    BY <2>5, <2>6, <2>3, ConfirmationsFinite, OneMoreOrLess
  <2> HIDE DEF b
  <2> QED
    BY <1>1, <2>7, <2>8, <2>9 DEF Backed
<1> QED
  BY <1>2, <1>3

(* A Push takes the first confirmation of a channel; the second moves up. *)
LEMMA BackedReceive ==
  ASSUME PushTypeOK, Backed, NEW p \in Pusher, ReceiveConfirm(p) PROVE Backed'
<1> DEFINE w == waitsOn[p]
           b == buffer[w]
<1>1. /\ w \in 0 .. gen /\ gen' = gen /\ acks' = acks
      /\ \A g \in 0 .. gen : buffer'[g] = IF g = w THEN Tail(b) ELSE buffer[g]
  BY DEF ReceiveConfirm, PushTypeOK
<1>2. b \in Seq(BOOLEAN) /\ b # <<>> /\ Len(b) \in Nat
  <2>1. b \in Seq(BOOLEAN)
    BY <1>1 DEF PushTypeOK
  <2>2. b # <<>>
    BY DEF ReceiveConfirm
  <2> QED
    BY <2>1, <2>2
<1>3. Len(b) = 1 \/ Len(b) = 2
  <2>1. Len(b) <= 2
    BY <1>1 DEF PushTypeOK
  <2>2. Len(b) # 0
    BY <1>2
  <2>3. \A n \in Nat : n # 0 /\ n <= 2 => n = 1 \/ n = 2
    OBVIOUS
  <2> QED
    BY <1>2, <2>1, <2>2, <2>3, Zenon
<1>4. Len(Tail(b)) = Len(b) - 1 /\ (Len(b) = 2 => Tail(b)[1] = b[2]) /\ Head(b) = b[1]
  BY <1>2
<1>5. /\ w \in First <=> b[1]
      /\ w \in Second <=> Len(b) = 2 /\ b[2]
  BY <1>1, <1>3 DEF First, Second
<1>6. \A g \in 0 .. gen : g # w => buffer'[g] = buffer[g]
  BY <1>1
<1>7. /\ Len(b) = 1 => Len(buffer'[w]) = 0
      /\ Len(b) = 2 => Len(buffer'[w]) = 1 /\ buffer'[w][1] = b[2]
  <2>1. Len(Tail(b)) = Len(b) - 1 /\ buffer'[w] = Tail(b)
    BY <1>1, <1>4
  <2>2. Len(b) = 1 => Len(Tail(b)) = 0
    BY <1>2, <2>1
  <2>3. Len(b) = 2 => Len(Tail(b)) = 1
    BY <1>2, <2>1
  <2> QED
    BY <1>4, <2>1, <2>2, <2>3
<1>8. Second' = Second \ {w}
  <2> HIDE DEF b, w
  <2>1. Len(buffer'[w]) # 2
    BY <1>3, <1>7
  <2> QED
    BY <1>1, <1>6, <2>1 DEF Second
<1>9. First' = IF w \in Second THEN First \cup {w} ELSE First \ {w}
  <2> HIDE DEF b, w
  <2>1. Len(buffer'[w]) >= 1 /\ buffer'[w][1] <=> Len(b) = 2 /\ b[2]
    <3>1. CASE Len(b) = 1
      BY <1>7, <3>1
    <3>2. CASE Len(b) = 2
      BY <1>7, <3>2
    <3> QED
      BY <1>3, <3>1, <3>2
  <2>2. Len(buffer'[w]) >= 1 /\ buffer'[w][1] <=> w \in Second
    BY <1>5, <2>1
  <2> QED
    BY <1>1, <1>6, <2>2 DEF First
<1>10. Succeeded' = Succeeded \/ (b[1] /\ Succeeded' = Succeeded \cup {p})
  <2>1. ppc[p] = "wait" /\ ppc \in [Pusher -> {"idle", "attempt", "publish", "published", "wait",
                                                "resend"} \cup Results]
    BY DEF ReceiveConfirm, At, PushTypeOK
  <2>2. CASE b[1]
    <3>1. ppc' = [ppc EXCEPT ![p] = "ok"]
      BY <1>4, <2>2 DEF ReceiveConfirm, PushReturns, Goto
    <3> QED
      BY <2>1, <2>2, <3>1 DEF Succeeded
  <2>3. CASE ~b[1]
    <3>1. \E to \in {"attempt", "error"} : ppc' = [ppc EXCEPT ![p] = to]
      BY <1>4, <2>3 DEF ReceiveConfirm, NextAttempt, PushReturns, Goto
    <3> QED
      BY <2>1, <3>1 DEF Succeeded
  <2> QED
    BY <2>2, <2>3
<1>11. /\ Cardinality(Succeeded) \in Nat /\ Cardinality(First) \in Nat
       /\ Cardinality(Second) \in Nat /\ acks \in Nat
  BY ConfirmationsFinite, FS_CardinalityType DEF Backed, PushTypeOK
<1>12. /\ IsFiniteSet(Succeeded') /\ Cardinality(Succeeded') \in Nat
       /\ Cardinality(Succeeded') <= Cardinality(Succeeded) + (IF b[1] THEN 1 ELSE 0)
  <2> HIDE DEF b
  <2>1. IsFiniteSet(Succeeded)
    BY DEF Backed
  <2>2. CASE Succeeded' = Succeeded
    BY <1>11, <2>1, <2>2
  <2>3. CASE b[1] /\ Succeeded' = Succeeded \cup {p} /\ p \notin Succeeded
    <3>1. IsFiniteSet(Succeeded') /\ Cardinality(Succeeded') = Cardinality(Succeeded) + 1
      BY <2>1, <2>3, OneMoreOrLess
    <3> QED
      BY <1>11, <2>3, <3>1
  <2>4. p \in Succeeded => Succeeded \cup {p} = Succeeded
    OBVIOUS
  <2> QED
    BY <1>10, <2>2, <2>3, <2>4
<1>13. /\ Cardinality(First') \in Nat /\ Cardinality(Second') \in Nat
       /\ Cardinality(First') + Cardinality(Second')
            = Cardinality(First) + Cardinality(Second) - (IF b[1] THEN 1 ELSE 0)
  <2> HIDE DEF b, w
  <2>1. CASE w \in Second /\ w \in First
    <3>1. Cardinality(Second') = Cardinality(Second) - 1 /\ First' = First
      BY <1>8, <1>9, <2>1, ConfirmationsFinite, OneMoreOrLess
    <3>2. IsFiniteSet(Second')
      BY <1>8, ConfirmationsFinite, OneMoreOrLess
    <3>3. Cardinality(Second') \in Nat
      BY <3>2, FS_CardinalityType
    <3> QED
      BY <1>5, <1>11, <2>1, <3>1, <3>3
  <2>2. CASE w \in Second /\ w \notin First
    <3>1. /\ Cardinality(Second') = Cardinality(Second) - 1
          /\ Cardinality(First') = Cardinality(First) + 1
      BY <1>8, <1>9, <2>2, ConfirmationsFinite, OneMoreOrLess
    <3>2. IsFiniteSet(Second')
      BY <1>8, ConfirmationsFinite, OneMoreOrLess
    <3>3. Cardinality(Second') \in Nat
      BY <3>2, FS_CardinalityType
    <3> QED
      BY <1>5, <1>11, <2>2, <3>1, <3>3
  <2>3. CASE w \notin Second /\ w \in First
    <3>1. Cardinality(First') = Cardinality(First) - 1
      BY <1>9, <2>3, ConfirmationsFinite, OneMoreOrLess
    <3>2. IsFiniteSet(First')
      BY <1>9, <2>3, ConfirmationsFinite, OneMoreOrLess
    <3>3. Cardinality(First') \in Nat /\ Second' = Second
      BY <1>8, <2>3, <3>2, FS_CardinalityType
    <3> QED
      BY <1>5, <1>11, <2>3, <3>1, <3>3
  <2>4. CASE w \notin Second /\ w \notin First
    <3>1. First' = First /\ Second' = Second
      BY <1>8, <1>9, <2>4
    <3> QED
      BY <1>5, <1>11, <2>4, <3>1
  <2> QED
    BY <2>1, <2>2, <2>3, <2>4
<1>14. Cardinality(Succeeded) + Cardinality(First) + Cardinality(Second) <= acks
  BY DEF Backed
<1> HIDE DEF b
<1> QED
  BY <1>1, <1>11, <1>12, <1>13, <1>14 DEF Backed

(* The other steps of a call: nobody succeeds, no confirmation moves. *)
LEMMA BackedCall ==
  ASSUME PushTypeOK, Backed, NEW p \in Pusher,
         \/ Begin(p) \/ CheckReady(p) \/ Publish(p) \/ ReadConfirms(p) \/ ReceiveClosed(p)
         \/ ResendWakes(p) \/ Deadline(p) \/ Shutdown(p)
  PROVE  Backed'
<1>1. gen' = gen /\ buffer' = buffer /\ acks' = acks
  BY DEF Begin, CheckReady, Publish, ReadConfirms, ReceiveClosed, ResendWakes, Deadline, Shutdown
<1>2. /\ ppc[p] # "ok"
      /\ \E to \in {"attempt", "publish", "published", "wait", "resend", "error"} \cup
                     (IF p \in Quiet THEN {"ok"} ELSE {}) :
            ppc' = [ppc EXCEPT ![p] = to]
  BY DEF Begin, CheckReady, Publish, ReadConfirms, ReceiveClosed, ResendWakes, Deadline, Shutdown,
         NotPublished, NextAttempt, PushReturns, Goto, At
<1>3. ppc \in [Pusher -> {"idle", "attempt", "publish", "published", "wait", "resend"}
                           \cup Results]
  BY DEF PushTypeOK
<1>4. Succeeded' = Succeeded
  BY <1>2, <1>3 DEF Succeeded
<1>5. First' = First /\ Second' = Second
  BY <1>1 DEF First, Second
<1> QED
  BY <1>1, <1>4, <1>5 DEF Backed

LEMMA BackedStep == PushTypeOK /\ Backed /\ [PushNext]_allVars => Backed'
<1> SUFFICES ASSUME PushTypeOK, Backed, [PushNext]_allVars PROVE Backed'
  OBVIOUS
<1>1. ASSUME ClientStep PROVE Backed'
  <2>1. /\ gen \in Nat /\ gen' \in {gen, gen + 1}
        /\ \A g \in 0 .. gen' : buffer'[g] = IF g <= gen THEN buffer[g] ELSE <<>>
        /\ ppc' = ppc /\ acks' = acks
    BY <1>1 DEF ClientStep, PushTypeOK
  <2>2. Len(<<>>) = 0
    OBVIOUS
  <2>3. First' = First /\ Second' = Second
    BY <2>1, <2>2 DEF First, Second
  <2>4. Succeeded' = Succeeded
    BY <2>1 DEF Succeeded
  <2> QED
    BY <2>1, <2>3, <2>4 DEF Backed
<1>2. CASE ListenForConfirms \/ UNCHANGED allVars
  <2>1. gen' = gen /\ buffer' = buffer /\ ppc' = ppc /\ acks' = acks
    BY <1>2 DEF ListenForConfirms, allVars
  <2> QED
    BY <2>1 DEF Backed, Succeeded, First, Second
<1>3. CASE BrokerAcks
  <2>1. Confirm(TRUE) /\ acks' = acks + 1
    BY <1>3, Zenon DEF BrokerAcks
  <2>2. acks' = IF TRUE THEN acks + 1 ELSE acks
    BY <2>1
  <2> QED
    BY <2>1, <2>2, BackedConfirm, Zenon
<1>4. CASE BrokerNacks
  <2>1. Confirm(FALSE) /\ acks' = acks
    BY <1>4, Zenon DEF BrokerNacks
  <2>2. acks' = IF FALSE THEN acks + 1 ELSE acks
    BY <2>1
  <2> QED
    BY <2>1, <2>2, BackedConfirm, Zenon
<1> QED
  BY <1>1, <1>2, <1>3, <1>4, BackedReceive, BackedCall DEF PushNext, PushStep

(* However many calls, attempts, reconnects and confirmations there are, no   *)
(* more Push calls succeed than the broker acknowledged publishings.          *)
THEOREM SuccessesAreBacked == PushSpec => []SuccessesBacked
<1>1. PushTypeOK /\ Backed => SuccessesBacked
  <2> SUFFICES ASSUME PushTypeOK, Backed PROVE SuccessesBacked
    OBVIOUS
  <2>1. /\ Cardinality(Succeeded) \in Nat /\ Cardinality(First) \in Nat
        /\ Cardinality(Second) \in Nat /\ acks \in Nat
    BY ConfirmationsFinite, FS_CardinalityType DEF Backed, PushTypeOK
  <2>2. Cardinality(Succeeded) <= acks
    BY <2>1 DEF Backed
  <2> QED
    BY <2>2 DEF SuccessesBacked, Succeeded, At
<1> QED
  BY <1>1, PushTypeInit, PushTypeStep, BackedInit, BackedStep, PTL DEF PushSpec

-----------------------------------------------------------------------------
(* Publishing leaves the client's life cycle as it is.                      *)

(* Push, the broker's confirmations and the second half of changeChannel take *)
(* no step that the client of AmqpClient does not take (amqp.go:411-498 reads  *)
(* isReady, done and the channel and writes none of them).                    *)
THEOREM PushImplementsClient == PushSpec => Spec
<1>1. PushInit => Init
  BY DEF PushInit
<1>2. [PushNext]_allVars => [Next]_vars
  <2> SUFFICES ASSUME PushNext, ~Next PROVE UNCHANGED vars
    BY DEF allVars
  <2>1. ~ClientStep
    BY DEF ClientStep
  <2>2. CASE ListenForConfirms \/ BrokerAcks \/ BrokerNacks
    BY <2>2 DEF ListenForConfirms, BrokerAcks, BrokerNacks, Confirm
  <2>3. ASSUME NEW p \in Pusher, Begin(p) \/ PushStep(p) PROVE UNCHANGED vars
    BY <2>3 DEF Begin, PushStep, CheckReady, Publish, ReadConfirms, ReceiveConfirm, ReceiveClosed,
                ResendWakes, Deadline, Shutdown
  <2> QED
    BY <2>1, <2>2, <2>3 DEF PushNext
<1> QED
  BY <1>1, <1>2, PTL DEF PushSpec, Spec

(* So the client keeps its promises while calls of Push, of which some time    *)
(* out, are under way: one connection, and not ready while it connects.        *)
THEOREM ClientSafeWhilePublishing == PushSpec => [](OneConnection /\ NotReadyWhileConnecting)
  BY PushImplementsClient, NeverTwoConnections, ReadinessFollowsLoop, PTL
=============================================================================
