----------------------- MODULE AuditPublisher_proofs -----------------------
(***************************************************************************)
(* Theorems about AuditPublisher, for any number of messages, workers and    *)
(* callers of Stop, any buffer size and any breaker threshold.               *)
(***************************************************************************)
EXTENDS AuditPublisher, FiniteSetTheorems, TLAPS

(* The WaitGroup counts exactly the workers that are running. *)
WaitGroupInv == wg = {w \in Worker : wpc[w] \notin {"unborn", "exited"}}

(* How far the shutdown has come, as the workers see it. *)
ShutdownInv ==
  /\ \A w \in Worker : wpc[w] = "exited" => chanClosed /\ buffer = <<>>
  /\ once # "new" => \A w \in Worker : wpc[w] # "unborn"
  /\ \A s \in Stopper : spc[s] # "idle" => \A w \in Worker : wpc[w] # "unborn"
  /\ \A s \in Stopper : spc[s] \notin {"idle", "once"} => once # "new"
  /\ \A s \in Stopper : spc[s] = "returned" => once = "done"
  /\ once = "done" => wg = {}

(* Only a worker inside processMessage holds a message, and it holds one. *)
TypeInv == TypeOK /\ \A w \in Worker : wpc[w] = "process" => wmsg[w] \in Message

IInv == TypeInv /\ ExactlyOnePlace /\ WaitGroupInv /\ ShutdownInv

USE DEF submitVars, chanVars, workerVars, breakerVars, stopVars

-----------------------------------------------------------------------------
(* Type correctness. *)

LEMMA TypeInit == Init => TypeInv
<1> SUFFICES ASSUME Init PROVE TypeInv
  OBVIOUS
<1> USE DEF Init
<1>1. buffer \in Seq(Message) /\ Len(buffer) <= BufferSize
  BY ConstAssumption DEF ConstAssumption
<1>2. stage \in [Message -> Stage] /\ attempts \in [Message -> Nat]
  BY DEF Stage
<1>3. /\ wpc \in [Worker -> {"unborn", "recv", "process", "ok", "fail", "trip", "exited"}]
      /\ \A w \in Worker : wpc[w] = "process" => wmsg[w] \in Message
  OBVIOUS
<1>4. wmsg \in [Worker -> Message \cup {None}] /\ wfailures \in [Worker -> Nat]
  OBVIOUS
<1> QED
  BY <1>1, <1>2, <1>3, <1>4 DEF TypeInv, TypeOK

LEMMA TypeStep == TypeInv /\ [Next]_vars => TypeInv'
<1> SUFFICES ASSUME TypeInv, [Next]_vars PROVE TypeInv'
  OBVIOUS
<1> USE ConstAssumption DEF TypeInv, TypeOK, Stage, ConstAssumption
<1>1. ASSUME NEW m \in Message, CheckCircuit(m) PROVE TypeInv'
  BY <1>1 DEF CheckCircuit
<1>2. ASSUME NEW m \in Message, SendAccepted(m) PROVE TypeInv'
  BY <1>2 DEF SendAccepted
<1>3. ASSUME NEW m \in Message, SendDropped(m) PROVE TypeInv'
  BY <1>3 DEF SendDropped
<1>4. ASSUME NEW m \in Message, SendPanics(m) PROVE TypeInv'
  BY <1>4 DEF SendPanics
<1>5. ASSUME NEW w \in Worker, StartWorker(w) PROVE TypeInv'
  BY <1>5 DEF StartWorker
<1>6. ASSUME NEW w \in Worker, Receive(w) PROVE TypeInv'
  BY <1>6 DEF Receive
<1>7. ASSUME NEW w \in Worker, Exit(w) PROVE TypeInv'
  BY <1>7 DEF Exit
<1>8. ASSUME NEW w \in Worker, Process(w) PROVE TypeInv'
  <2>1. PICK new \in Stage, n \in {0, 1}, pc \in {"recv", "fail", "ok"} : Settle(w, new, n, pc)
    BY <1>8 DEF Process, ClientNotReady, MarshalFails, PushFails, PushSucceeds
  <2>2. wmsg[w] \in Message
    BY <2>1 DEF Settle
  <2>3. stage' \in [Message -> Stage] /\ attempts' \in [Message -> Nat]
    BY <2>1, <2>2 DEF Settle
  <2>4. /\ wpc' \in [Worker -> {"unborn", "recv", "process", "ok", "fail", "trip", "exited"}]
        /\ wmsg' \in [Worker -> Message \cup {None}]
        /\ \A v \in Worker : wpc'[v] = "process" => wmsg'[v] \in Message
    BY <2>1 DEF Settle
  <2> QED
    BY <2>1, <2>3, <2>4 DEF Settle
<1>9. ASSUME NEW w \in Worker, ClearFailures(w) PROVE TypeInv'
  BY <1>9 DEF ClearFailures
<1>10. ASSUME NEW w \in Worker, AddFailure(w) PROVE TypeInv'
  BY <1>10 DEF AddFailure
<1>11. ASSUME NEW w \in Worker, TripCircuit(w) PROVE TypeInv'
  BY <1>11 DEF TripCircuit, Trip
<1>12. ASSUME Cooldown PROVE TypeInv'
  BY <1>12 DEF Cooldown, CooldownElapses, CloseCircuit, CooldownAbandoned
<1>13. ASSUME NEW s \in Stopper, CallStop(s) \/ StopStep(s) PROVE TypeInv'
  BY <1>13 DEF CallStop, StopFirst, StopStep, StopAgain, CloseDone, CloseMsgChan, WaitWorkers
<1>14. CASE UNCHANGED vars
  BY <1>14 DEF vars
<1> QED
  BY <1>1, <1>2, <1>3, <1>4, <1>5, <1>6, <1>7, <1>8, <1>9, <1>10, <1>11, <1>12, <1>13,
     <1>14 DEF Next, Submit, WorkerStep

(* Every variable keeps its type (the fields of AuditPublisher and the       *)
(* program counters of its goroutines).                                      *)
THEOREM TypeCorrect == Spec => []TypeOK
<1>1. Init => TypeInv
  BY TypeInit
<1>2. TypeInv /\ [Next]_vars => TypeInv'
  BY TypeStep
<1>3. TypeInv => TypeOK
  BY DEF TypeInv
<1> QED
  BY <1>1, <1>2, <1>3, PTL DEF Spec

-----------------------------------------------------------------------------
(* A message is in one place. *)

LEMMA PlaceInit == Init => ExactlyOnePlace
  BY DEF Init, ExactlyOnePlace

(* A step that moves no message: nobody starts or ends processing one. *)
LEMMA PlaceFrame ==
  ASSUME ExactlyOnePlace, UNCHANGED <<stage, buffer, wmsg>>,
         \A w \in Worker : wpc'[w] = "process" <=> wpc[w] = "process"
  PROVE  ExactlyOnePlace'
  BY DEF ExactlyOnePlace

(* A message outside the pool changes stage outside the pool. *)
LEMMA PlaceOutside ==
  ASSUME TypeInv, ExactlyOnePlace, UNCHANGED <<buffer, wmsg, wpc>>, NEW m \in Message,
         stage[m] \notin {"queued", "processing"},
         NEW to \in Stage \ {"queued", "processing"}, stage' = [stage EXCEPT ![m] = to]
  PROVE  ExactlyOnePlace'
<1>1. \A i \in DOMAIN buffer : buffer[i] \in Message
  BY DEF TypeInv, TypeOK
<1> QED
  BY <1>1 DEF ExactlyOnePlace, TypeInv, TypeOK

LEMMA PlaceSend ==
  ASSUME TypeInv, ExactlyOnePlace, NEW m \in Message, SendAccepted(m)
  PROVE  ExactlyOnePlace'
<1> USE DEF SendAccepted
<1>1. /\ Len(buffer') = Len(buffer) + 1
      /\ buffer'[Len(buffer) + 1] = m
      /\ \A i \in 1 .. Len(buffer) : buffer'[i] = buffer[i] /\ buffer[i] \in Message
      /\ DOMAIN buffer = 1 .. Len(buffer)
      /\ DOMAIN buffer' = 1 .. Len(buffer) + 1
      /\ Len(buffer) \in Nat
  BY DEF TypeInv, TypeOK
<1>2. stage' = [stage EXCEPT ![m] = "queued"] /\ stage[m] = "checked" /\ m \in DOMAIN stage
  BY DEF TypeInv, TypeOK
<1>3. \A i \in DOMAIN buffer : buffer[i] # m
  BY <1>2 DEF ExactlyOnePlace
<1>4. \A i \in DOMAIN buffer' : stage'[buffer'[i]] = "queued"
  BY <1>1, <1>2, <1>3 DEF ExactlyOnePlace, TypeInv, TypeOK
<1>5. \A i, j \in DOMAIN buffer' : buffer'[i] = buffer'[j] => i = j
  BY <1>1, <1>3 DEF ExactlyOnePlace
<1>6. \A x \in Message : stage'[x] = "queued" => \E i \in DOMAIN buffer' : buffer'[i] = x
  <2>1. ASSUME NEW x \in Message, stage'[x] = "queued", x # m
        PROVE \E i \in DOMAIN buffer' : buffer'[i] = x
    <3>1. PICK i \in DOMAIN buffer : buffer[i] = x
      BY <2>1, <1>2 DEF ExactlyOnePlace
    <3> QED
      BY <3>1, <1>1
  <2> QED
    BY <2>1, <1>1
<1>7. /\ \A w \in Worker : wpc'[w] = "process" =>
            wmsg'[w] \in Message /\ stage'[wmsg'[w]] = "processing"
      /\ \A v, w \in Worker : wpc'[v] = "process" /\ wpc'[w] = "process" /\ wmsg'[v] = wmsg'[w]
            => v = w
      /\ \A x \in Message : stage'[x] = "processing" =>
            \E w \in Worker : wpc'[w] = "process" /\ wmsg'[w] = x
  BY <1>2 DEF ExactlyOnePlace, TypeInv, TypeOK
<1> QED
  BY <1>4, <1>5, <1>6, <1>7 DEF ExactlyOnePlace

LEMMA PlaceReceive ==
  ASSUME TypeInv, ExactlyOnePlace, NEW w \in Worker, Receive(w)
  PROVE  ExactlyOnePlace'
<1> DEFINE h == Head(buffer)
<1>1. /\ h = buffer[1] /\ h \in Message
      /\ 1 \in DOMAIN buffer
      /\ Len(buffer) \in Nat /\ DOMAIN buffer = 1 .. Len(buffer)
      /\ DOMAIN buffer' = 1 .. Len(buffer) - 1
      /\ \A i \in DOMAIN buffer' : i + 1 \in DOMAIN buffer /\ buffer'[i] = buffer[i + 1]
      /\ \A i \in DOMAIN buffer \ {1} : i - 1 \in DOMAIN buffer'
      /\ \A i \in DOMAIN buffer : buffer[i] \in Message
  BY DEF Receive, TypeInv, TypeOK
<1>2. /\ stage[h] = "queued"
      /\ stage' = [stage EXCEPT ![h] = "processing"]
      /\ wpc[w] = "recv"
      /\ wpc' = [wpc EXCEPT ![w] = "process"]
      /\ wmsg' = [wmsg EXCEPT ![w] = h]
  BY <1>1 DEF Receive, ExactlyOnePlace
<1> HIDE DEF h
<1>3. \A i \in DOMAIN buffer' : buffer'[i] # h
  <2> SUFFICES ASSUME NEW i \in DOMAIN buffer', buffer'[i] = h PROVE FALSE
    OBVIOUS
  <2>1. i + 1 \in DOMAIN buffer /\ buffer[i + 1] = buffer[1] /\ i \in Nat /\ i >= 1
    BY <1>1
  <2>2. i + 1 = 1
    BY <2>1, <1>1 DEF ExactlyOnePlace
  <2> QED
    BY <2>1, <2>2
<1>4. \A i \in DOMAIN buffer' : stage'[buffer'[i]] = "queued"
  BY <1>1, <1>2, <1>3 DEF ExactlyOnePlace, TypeInv, TypeOK
<1>5. \A i, j \in DOMAIN buffer' : buffer'[i] = buffer'[j] => i = j
  <2> SUFFICES ASSUME NEW i \in DOMAIN buffer', NEW j \in DOMAIN buffer', buffer'[i] = buffer'[j]
               PROVE  i = j
    OBVIOUS
  <2>1. i + 1 = j + 1
    BY <1>1 DEF ExactlyOnePlace
  <2> QED
    BY <2>1, <1>1
<1>6. \A x \in Message : stage'[x] = "queued" => \E i \in DOMAIN buffer' : buffer'[i] = x
  <2> SUFFICES ASSUME NEW x \in Message, stage'[x] = "queued"
               PROVE  \E i \in DOMAIN buffer' : buffer'[i] = x
    OBVIOUS
  <2>1. x # h /\ stage[x] = "queued"
    BY <1>1, <1>2 DEF TypeInv, TypeOK
  <2>2. PICK i \in DOMAIN buffer : buffer[i] = x
    BY <2>1 DEF ExactlyOnePlace
  <2>3. i # 1 /\ i - 1 \in DOMAIN buffer' /\ buffer'[i - 1] = buffer[(i - 1) + 1] /\ (i - 1) + 1 = i
    BY <2>1, <2>2, <1>1
  <2> QED
    BY <2>2, <2>3
<1>7. \A v \in Worker : wpc[v] = "process" => wmsg[v] # h
  BY <1>2 DEF ExactlyOnePlace
<1>8. \A v \in Worker : wpc'[v] = "process" =>
        wmsg'[v] \in Message /\ stage'[wmsg'[v]] = "processing"
  BY <1>1, <1>2, <1>7 DEF ExactlyOnePlace, TypeInv, TypeOK
<1>9. \A u, v \in Worker : wpc'[u] = "process" /\ wpc'[v] = "process" /\ wmsg'[u] = wmsg'[v]
        => u = v
  BY <1>1, <1>2, <1>7 DEF ExactlyOnePlace, TypeInv, TypeOK
<1>10. \A x \in Message : stage'[x] = "processing" =>
         \E v \in Worker : wpc'[v] = "process" /\ wmsg'[v] = x
  <2>1. wpc'[w] = "process" /\ wmsg'[w] = h
    BY <1>2 DEF TypeInv, TypeOK
  <2>2. ASSUME NEW x \in Message, stage'[x] = "processing", x # h
        PROVE  \E v \in Worker : wpc'[v] = "process" /\ wmsg'[v] = x
    <3>1. PICK v \in Worker : wpc[v] = "process" /\ wmsg[v] = x
      BY <2>2, <1>2 DEF ExactlyOnePlace, TypeInv, TypeOK
    <3>2. v # w
      BY <3>1, <1>2
    <3> QED
      BY <3>1, <3>2, <1>2 DEF TypeInv, TypeOK
  <2> QED
    BY <2>1, <2>2
<1> QED
  BY <1>4, <1>5, <1>6, <1>8, <1>9, <1>10 DEF ExactlyOnePlace

(* The facts of a processMessage step that later proofs use as well. *)
LEMMA ProcessSettles ==
  ASSUME TypeInv, ExactlyOnePlace, NEW w \in Worker, Process(w)
  PROVE  \E x \in Message, to \in Stage, n \in {0, 1}, pc \in {"recv", "fail", "ok"} :
           /\ wmsg[w] = x /\ stage[x] = "processing" /\ wpc[w] = "process"
           /\ to \in {"published", "failed", "unmarshalled"}
           /\ (to = "published" => n = 1) /\ (to = "unmarshalled" => n = 0)
           /\ stage' = [stage EXCEPT ![x] = to]
           /\ attempts' = [attempts EXCEPT ![x] = @ + n]
           /\ wpc' = [wpc EXCEPT ![w] = pc]
           /\ wmsg' = [wmsg EXCEPT ![w] = None]
           /\ UNCHANGED <<buffer, chanVars, wfailures, wg, breakerVars, stopVars>>
<1>1. wpc[w] = "process" /\ wmsg[w] \in Message /\ stage[wmsg[w]] = "processing"
  BY DEF Process, ClientNotReady, MarshalFails, PushFails, PushSucceeds, Settle, ExactlyOnePlace
<1>2. CASE ClientNotReady(w)
  BY <1>1, <1>2 DEF ClientNotReady, Settle, Stage
<1>3. CASE MarshalFails(w)
  BY <1>1, <1>3 DEF MarshalFails, Settle, Stage
<1>4. CASE PushFails(w)
  BY <1>1, <1>4 DEF PushFails, Settle, Stage
<1>5. CASE PushSucceeds(w)
  BY <1>1, <1>5 DEF PushSucceeds, Settle, Stage
<1> QED
  BY <1>2, <1>3, <1>4, <1>5 DEF Process

LEMMA PlaceProcess ==
  ASSUME TypeInv, ExactlyOnePlace, NEW w \in Worker, Process(w)
  PROVE  ExactlyOnePlace'
<1>1. PICK x \in Message, to \in {"published", "failed", "unmarshalled"},
           pc \in {"recv", "fail", "ok"} :
        /\ wmsg[w] = x /\ stage[x] = "processing" /\ wpc[w] = "process"
        /\ stage' = [stage EXCEPT ![x] = to]
        /\ wpc' = [wpc EXCEPT ![w] = pc]
        /\ wmsg' = [wmsg EXCEPT ![w] = None]
        /\ buffer' = buffer
  BY ProcessSettles
<1>2. \A i \in DOMAIN buffer : buffer[i] # x /\ buffer[i] \in Message
  BY <1>1 DEF ExactlyOnePlace, TypeInv, TypeOK
<1>3. /\ \A i \in DOMAIN buffer' : stage'[buffer'[i]] = "queued"
      /\ \A i, j \in DOMAIN buffer' : buffer'[i] = buffer'[j] => i = j
      /\ \A y \in Message : stage'[y] = "queued" => \E i \in DOMAIN buffer' : buffer'[i] = y
  BY <1>1, <1>2 DEF ExactlyOnePlace, TypeInv, TypeOK
<1>4. \A v \in Worker : wpc'[v] = "process" <=> (wpc[v] = "process" /\ v # w)
  BY <1>1 DEF TypeInv, TypeOK
<1>5. \A v \in Worker : wpc'[v] = "process" => wmsg'[v] = wmsg[v] /\ wmsg[v] # x
  BY <1>1, <1>4 DEF ExactlyOnePlace, TypeInv, TypeOK
<1>6. \A v \in Worker : wpc'[v] = "process" =>
        wmsg'[v] \in Message /\ stage'[wmsg'[v]] = "processing"
  BY <1>1, <1>4, <1>5 DEF ExactlyOnePlace, TypeInv, TypeOK
<1>7. \A u, v \in Worker : wpc'[u] = "process" /\ wpc'[v] = "process" /\ wmsg'[u] = wmsg'[v]
        => u = v
  BY <1>4, <1>5 DEF ExactlyOnePlace
<1>8. \A y \in Message : stage'[y] = "processing" =>
        \E v \in Worker : wpc'[v] = "process" /\ wmsg'[v] = y
  <2> SUFFICES ASSUME NEW y \in Message, stage'[y] = "processing"
               PROVE  \E v \in Worker : wpc'[v] = "process" /\ wmsg'[v] = y
    OBVIOUS
  <2>1. y # x /\ stage[y] = "processing"
    BY <1>1 DEF TypeInv, TypeOK
  <2>2. PICK v \in Worker : wpc[v] = "process" /\ wmsg[v] = y
    BY <2>1 DEF ExactlyOnePlace
  <2>3. v # w
    BY <2>1, <2>2, <1>1
  <2> QED
    BY <2>2, <2>3, <1>4, <1>5
<1> QED
  BY <1>3, <1>6, <1>7, <1>8 DEF ExactlyOnePlace

LEMMA PlaceStep == TypeInv /\ ExactlyOnePlace /\ [Next]_vars => ExactlyOnePlace'
<1> SUFFICES ASSUME TypeInv, ExactlyOnePlace, [Next]_vars PROVE ExactlyOnePlace'
  OBVIOUS
<1>1. ASSUME NEW m \in Message, CheckCircuit(m) \/ SendDropped(m) \/ SendPanics(m)
      PROVE  ExactlyOnePlace'
  <2>1. PICK to \in {"checked", "dropped", "panicked"} : stage' = [stage EXCEPT ![m] = to]
    BY <1>1 DEF CheckCircuit, SendDropped, SendPanics
  <2>2. stage[m] \notin {"queued", "processing"} /\ UNCHANGED <<buffer, wmsg, wpc>>
    BY <1>1 DEF CheckCircuit, SendDropped, SendPanics
  <2>3. to \in Stage \ {"queued", "processing"}
    BY DEF Stage
  <2> QED
    BY <2>1, <2>2, <2>3, PlaceOutside
<1>2. ASSUME NEW m \in Message, SendAccepted(m) PROVE ExactlyOnePlace'
  BY <1>2, PlaceSend
<1>3. ASSUME NEW w \in Worker, Receive(w) PROVE ExactlyOnePlace'
  BY <1>3, PlaceReceive
<1>4. ASSUME NEW w \in Worker, Process(w) PROVE ExactlyOnePlace'
  BY <1>4, PlaceProcess
<1>5. ASSUME NEW w \in Worker,
             StartWorker(w) \/ Exit(w) \/ ClearFailures(w) \/ AddFailure(w) \/ TripCircuit(w)
      PROVE  ExactlyOnePlace'
  <2>1. UNCHANGED <<stage, buffer, wmsg>>
    BY <1>5 DEF StartWorker, Exit, ClearFailures, AddFailure, TripCircuit, Trip
  <2>2. \A v \in Worker : wpc'[v] = "process" <=> wpc[v] = "process"
    BY <1>5 DEF StartWorker, Exit, ClearFailures, AddFailure, TripCircuit, Trip, TypeInv, TypeOK
  <2> QED
    BY <2>1, <2>2, PlaceFrame
<1>6. ASSUME Cooldown \/ (\E s \in Stopper : CallStop(s) \/ StopStep(s)) \/ UNCHANGED vars
      PROVE  ExactlyOnePlace'
  <2>1. UNCHANGED <<stage, buffer, wmsg, wpc>>
    BY <1>6 DEF Cooldown, CooldownElapses, CloseCircuit, CooldownAbandoned, CallStop, StopFirst,
       StopStep,
                StopAgain, CloseDone, CloseMsgChan, WaitWorkers, vars
  <2> QED
    BY <2>1, PlaceFrame
<1> QED
  BY <1>1, <1>2, <1>3, <1>4, <1>5, <1>6 DEF Next, Submit, WorkerStep

(* No hand-over between a caller, the channel and a worker loses or doubles  *)
(* a message, for any size of the pool.                                       *)
THEOREM MessagesInOnePlace == Spec => []ExactlyOnePlace
<1>1. Init => TypeInv /\ ExactlyOnePlace
  BY TypeInit, PlaceInit
<1>2. TypeInv /\ ExactlyOnePlace /\ [Next]_vars => (TypeInv /\ ExactlyOnePlace)'
  BY TypeStep, PlaceStep
<1> QED
  BY <1>1, <1>2, PTL DEF Spec

-----------------------------------------------------------------------------
(* Shutdown. *)

LEMMA WaitGroupStep == TypeInv /\ WaitGroupInv /\ [Next]_vars => WaitGroupInv'
<1> SUFFICES ASSUME TypeInv, WaitGroupInv, [Next]_vars PROVE WaitGroupInv'
  OBVIOUS
<1> USE DEF WaitGroupInv, TypeInv, TypeOK
<1>1. ASSUME NEW w \in Worker, StartWorker(w) PROVE WaitGroupInv'
  BY <1>1 DEF StartWorker
<1>2. ASSUME NEW w \in Worker, Exit(w) PROVE WaitGroupInv'
  BY <1>2 DEF Exit
<1>3. ASSUME NEW w \in Worker,
             Receive(w) \/ Process(w) \/ ClearFailures(w) \/ AddFailure(w) \/ TripCircuit(w)
      PROVE  WaitGroupInv'
  <2>1. PICK pc \in {"process", "recv", "fail", "ok", "trip"} :
          wpc' = [wpc EXCEPT ![w] = pc] /\ wpc[w] \notin {"unborn", "exited"} /\ wg' = wg
    BY <1>3 DEF Receive, Process, ClientNotReady, MarshalFails, PushFails, PushSucceeds, Settle,
                ClearFailures, AddFailure, TripCircuit, Trip
  <2> QED
    BY <2>1
<1>4. ASSUME \/ \E m \in Message : Submit(m)
             \/ Cooldown
             \/ \E s \in Stopper : CallStop(s) \/ StopStep(s)
             \/ UNCHANGED vars
      PROVE  WaitGroupInv'
  <2>1. UNCHANGED <<wpc, wg>>
    BY <1>4 DEF Submit, CheckCircuit, SendAccepted, SendDropped, SendPanics, Cooldown,
                CooldownElapses, CloseCircuit, CooldownAbandoned, CallStop, StopFirst, StopStep,
                StopAgain,
                CloseDone, CloseMsgChan, WaitWorkers, vars
  <2> QED
    BY <2>1
<1> QED
  BY <1>1, <1>2, <1>3, <1>4 DEF Next, WorkerStep

LEMMA ShutdownStep == TypeInv /\ WaitGroupInv /\ ShutdownInv /\ [Next]_vars => ShutdownInv'
<1> SUFFICES ASSUME TypeInv, WaitGroupInv, ShutdownInv, [Next]_vars PROVE ShutdownInv'
  OBVIOUS
<1> USE DEF ShutdownInv, TypeInv, TypeOK
<1>1. ASSUME NEW m \in Message, Submit(m) PROVE ShutdownInv'
  BY <1>1 DEF Submit, CheckCircuit, SendAccepted, SendDropped, SendPanics
<1>2. ASSUME NEW w \in Worker, StartWorker(w) PROVE ShutdownInv'
  BY <1>2 DEF StartWorker
<1>3. ASSUME NEW w \in Worker, Exit(w) PROVE ShutdownInv'
  BY <1>3 DEF Exit
<1>4. ASSUME NEW w \in Worker, Receive(w) PROVE ShutdownInv'
  BY <1>4 DEF Receive
<1>5. ASSUME NEW w \in Worker, Process(w) \/ ClearFailures(w) \/ AddFailure(w) \/ TripCircuit(w)
      PROVE  ShutdownInv'
  <2>1. PICK pc \in {"recv", "fail", "ok", "trip"} :
          wpc' = [wpc EXCEPT ![w] = pc] /\ UNCHANGED <<wg, buffer, chanVars, stopVars>>
    BY <1>5 DEF Process, ClientNotReady, MarshalFails, PushFails, PushSucceeds, Settle,
                ClearFailures, AddFailure, TripCircuit, Trip
  <2> QED
    BY <2>1
<1>6. ASSUME Cooldown \/ UNCHANGED vars PROVE ShutdownInv'
  BY <1>6 DEF Cooldown, CooldownElapses, CloseCircuit, CooldownAbandoned, vars
<1>7. ASSUME NEW s \in Stopper, CallStop(s) \/ StopStep(s) PROVE ShutdownInv'
  <2>1. CASE CallStop(s)
    BY <2>1 DEF CallStop
  <2>2. CASE StopFirst(s)
    BY <2>2 DEF StopFirst
  <2>3. CASE StopAgain(s)
    BY <2>3 DEF StopAgain
  <2>4. CASE CloseDone(s) \/ CloseMsgChan(s) \/ WaitWorkers(s)
    BY <2>4 DEF CloseDone, CloseMsgChan, WaitWorkers
  <2> QED
    BY <1>7, <2>1, <2>2, <2>3, <2>4 DEF StopStep
<1> QED
  BY <1>1, <1>2, <1>3, <1>4, <1>5, <1>6, <1>7 DEF Next, WorkerStep

LEMMA IInvInit == Init => IInv
  BY TypeInit, PlaceInit DEF Init, IInv, WaitGroupInv, ShutdownInv

LEMMA IInvStep == IInv /\ [Next]_vars => IInv'
  BY TypeStep, PlaceStep, WaitGroupStep, ShutdownStep DEF IInv

LEMMA InductiveInvariant == Spec => []IInv
<1>1. Init => IInv
  BY IInvInit
<1>2. IInv /\ [Next]_vars => IInv'
  BY IInvStep
<1> QED
  BY <1>1, <1>2, PTL DEF Spec

(* When the workers are gone nothing is pending. *)
LEMMA NothingPending ==
  ASSUME IInv, wg = {}, once # "new"
  PROVE  /\ buffer = <<>> /\ chanClosed
         /\ \A w \in Worker : wpc[w] = "exited"
         /\ \A m \in Message : stage[m] \notin {"queued", "processing"}
<1>1. \A w \in Worker : wpc[w] = "exited"
  BY DEF IInv, WaitGroupInv, ShutdownInv
<1>2. buffer = <<>> /\ chanClosed
  BY <1>1, ConstAssumption DEF ConstAssumption, IInv, ShutdownInv
<1>3. \A m \in Message : stage[m] # "queued" /\ stage[m] # "processing"
  BY <1>1, <1>2 DEF IInv, ExactlyOnePlace
<1> QED
  BY <1>1, <1>2, <1>3

(* Stop drains: when any call of Stop has returned, no accepted message is   *)
(* left behind.                                                               *)
THEOREM DrainOnStop == Spec => []StopDrains
<1>1. IInv => StopDrains
  BY NothingPending DEF IInv, ShutdownInv, StopDrains
<1> QED
  BY <1>1, InductiveInvariant, PTL

-----------------------------------------------------------------------------
(* The circuit breaker. *)

LEMMA CooldownStep == TypeInv /\ OneCooldownPerTrip /\ [Next]_vars => OneCooldownPerTrip'
<1> SUFFICES ASSUME TypeInv, OneCooldownPerTrip, [Next]_vars PROVE OneCooldownPerTrip'
  OBVIOUS
<1> USE DEF OneCooldownPerTrip, TypeInv, TypeOK
<1>1. ASSUME NEW w \in Worker, TripCircuit(w) PROVE OneCooldownPerTrip'
  BY <1>1 DEF TripCircuit, Trip
<1>2. ASSUME Cooldown PROVE OneCooldownPerTrip'
  BY <1>2 DEF Cooldown, CooldownElapses, CloseCircuit, CooldownAbandoned
<1>3. ASSUME NEW s \in Stopper, CallStop(s) \/ StopStep(s) PROVE OneCooldownPerTrip'
  BY <1>3 DEF CallStop, StopFirst, StopStep, StopAgain, CloseDone, CloseMsgChan, WaitWorkers
<1>4. ASSUME UNCHANGED <<circuitOpen, cooling, closing, doneClosed>> PROVE OneCooldownPerTrip'
  BY <1>4
<1>5. ASSUME NEW w \in Worker,
             \/ StartWorker(w) \/ Receive(w) \/ Exit(w) \/ Process(w)
             \/ ClearFailures(w) \/ AddFailure(w)
      PROVE  OneCooldownPerTrip'
  BY <1>4, <1>5 DEF StartWorker, Receive, Exit, Process, ClientNotReady, MarshalFails, PushFails,
                    PushSucceeds, Settle, ClearFailures, AddFailure
<1>6. ASSUME (\E m \in Message : Submit(m)) \/ UNCHANGED vars PROVE OneCooldownPerTrip'
  BY <1>4, <1>6 DEF Submit, CheckCircuit, SendAccepted, SendDropped, SendPanics, vars
<1> QED
  BY <1>1, <1>2, <1>3, <1>5, <1>6 DEF Next, WorkerStep

(* Whatever the number of workers that fail at once, an open breaker has one *)
(* goroutine that will close it, and a closed breaker has none.               *)
THEOREM OneCooldown == Spec => []OneCooldownPerTrip
<1>1. Init => TypeInv /\ OneCooldownPerTrip
  BY TypeInit DEF Init, OneCooldownPerTrip
<1>2. TypeInv /\ OneCooldownPerTrip /\ [Next]_vars => (TypeInv /\ OneCooldownPerTrip)'
  BY TypeStep, CooldownStep
<1> QED
  BY <1>1, <1>2, PTL DEF Spec

-----------------------------------------------------------------------------
(* The failures behind a trip.  A failed message is counted when the worker   *)
(* that failed to push it has left recordFailure's addition behind.            *)

Uncounted == {w \in Worker : wpc[w] = "fail"}
Counted   == Cardinality(Failed) - Cardinality(Uncounted)

FiniteInv == IsFiniteSet(Failed) /\ IsFiniteSet(Uncounted)

(* Counters never run ahead of the counted failures, an open breaker had enough *)
(* of them, and a cooldown that has cleared the counter has left those behind:  *)
(* what the counter holds by then are further ones.                              *)
CountInv ==
  /\ consecutiveFailures <= Counted
  /\ \A w \in Worker : wfailures[w] <= Counted
  /\ circuitOpen = 1 => Counted >= MaxConsecFailures
  /\ closing > 0 => circuitOpen = 1 /\ consecutiveFailures + MaxConsecFailures <= Counted
  /\ consecutiveFailures >= MaxConsecFailures /\ circuitOpen = 0 =>
       \/ \E w \in Worker : wpc[w] = "trip" /\ wfailures[w] >= MaxConsecFailures
       \/ consecutiveFailures + MaxConsecFailures <= Counted

LEMMA ProcessFails ==
  ASSUME TypeInv, ExactlyOnePlace, FiniteInv, NEW w \in Worker, Process(w)
  PROVE  FiniteInv' /\ Counted' = Counted
<1>1. wpc[w] = "process" /\ wmsg[w] \in Message /\ stage[wmsg[w]] = "processing"
  BY DEF Process, ClientNotReady, MarshalFails, PushFails, PushSucceeds, Settle, ExactlyOnePlace
<1>2. CASE MarshalFails(w) \/ PushSucceeds(w)
  <2>1. Failed' = Failed /\ Uncounted' = Uncounted
    BY <1>1, <1>2 DEF MarshalFails, PushSucceeds, Settle, Failed, Uncounted, TypeInv, TypeOK
  <2> QED
    BY <2>1 DEF FiniteInv, Counted
<1>3. CASE ClientNotReady(w) \/ PushFails(w)
  <2>1. /\ Failed' = Failed \cup {wmsg[w]} /\ wmsg[w] \notin Failed
        /\ Uncounted' = Uncounted \cup {w} /\ w \notin Uncounted
    BY <1>1, <1>3 DEF ClientNotReady, PushFails, Settle, Failed, Uncounted, TypeInv, TypeOK
  <2>2. /\ IsFiniteSet(Failed') /\ Cardinality(Failed') = Cardinality(Failed) + 1
        /\ IsFiniteSet(Uncounted') /\ Cardinality(Uncounted') = Cardinality(Uncounted) + 1
    BY <2>1, FS_AddElement DEF FiniteInv
  <2>3. Cardinality(Failed) \in Nat /\ Cardinality(Uncounted) \in Nat
    BY FS_CardinalityType DEF FiniteInv
  <2> QED
    BY <2>2, <2>3 DEF FiniteInv, Counted
<1> QED
  BY <1>2, <1>3 DEF Process

LEMMA AddFailureCounts ==
  ASSUME TypeInv, FiniteInv, NEW w \in Worker, AddFailure(w)
  PROVE  FiniteInv' /\ Counted' = Counted + 1
<1>1. Failed' = Failed /\ Uncounted' = Uncounted \ {w} /\ w \in Uncounted
  BY DEF AddFailure, Failed, Uncounted, TypeInv, TypeOK
<1>2. IsFiniteSet(Uncounted') /\ Cardinality(Uncounted') = Cardinality(Uncounted) - 1
  BY <1>1, FS_RemoveElement DEF FiniteInv
<1>3. Cardinality(Failed) \in Nat /\ Cardinality(Uncounted) \in Nat
  BY FS_CardinalityType DEF FiniteInv
<1> QED
  BY <1>1, <1>2, <1>3 DEF FiniteInv, Counted

(* No other step fails a message or counts a failure. *)
LEMMA OthersCountNothing ==
  ASSUME TypeInv, ExactlyOnePlace, FiniteInv, [Next]_vars,
         \A w \in Worker : ~Process(w) /\ ~AddFailure(w)
  PROVE  FiniteInv' /\ Counted' = Counted
<1>1. Failed' = Failed /\ Uncounted' = Uncounted
  <2> USE DEF Failed, Uncounted, TypeInv, TypeOK
  <2>1. ASSUME NEW m \in Message, Submit(m) PROVE Failed' = Failed /\ Uncounted' = Uncounted
    BY <2>1 DEF Submit, CheckCircuit, SendAccepted, SendDropped, SendPanics
  <2>2. ASSUME NEW w \in Worker, Receive(w) PROVE Failed' = Failed /\ Uncounted' = Uncounted
    <3>1. Head(buffer) \in Message /\ stage[Head(buffer)] = "queued"
      BY <2>2 DEF Receive, ExactlyOnePlace
    <3> QED
      BY <2>2, <3>1 DEF Receive
  <2>3. ASSUME NEW w \in Worker,
               StartWorker(w) \/ Exit(w) \/ ClearFailures(w) \/ TripCircuit(w)
        PROVE  Failed' = Failed /\ Uncounted' = Uncounted
    BY <2>3 DEF StartWorker, Exit, ClearFailures, TripCircuit, Trip
  <2>4. ASSUME Cooldown \/ (\E s \in Stopper : CallStop(s) \/ StopStep(s)) \/ UNCHANGED vars
        PROVE  Failed' = Failed /\ Uncounted' = Uncounted
    BY <2>4 DEF Cooldown, CooldownElapses, CloseCircuit, CooldownAbandoned, CallStop, StopFirst,
       StopStep,
                StopAgain, CloseDone, CloseMsgChan, WaitWorkers, vars
  <2> QED
    BY <2>1, <2>2, <2>3, <2>4 DEF Next, WorkerStep
<1> QED
  BY <1>1 DEF FiniteInv, Counted

LEMMA CountedStep ==
  ASSUME TypeInv, ExactlyOnePlace, FiniteInv, [Next]_vars
  PROVE  /\ FiniteInv'
         /\ Counted \in Int
         /\ \/ Counted' = Counted /\ \A w \in Worker : ~AddFailure(w)
            \/ Counted' = Counted + 1 /\ \E w \in Worker : AddFailure(w)
<1>1. Counted \in Int
  BY FS_CardinalityType DEF FiniteInv, Counted
<1>2. CASE \E w \in Worker : AddFailure(w)
  BY <1>1, <1>2, AddFailureCounts
<1>3. CASE \E w \in Worker : Process(w)
  <2>1. PICK w \in Worker : Process(w)
    BY <1>3
  <2>2. \A v \in Worker : ~AddFailure(v)
    BY <2>1 DEF Process, ClientNotReady, MarshalFails, PushFails, PushSucceeds, Settle,
                AddFailure, TypeInv, TypeOK
  <2> QED
    BY <1>1, <2>1, <2>2, ProcessFails
<1>4. CASE \A w \in Worker : ~Process(w) /\ ~AddFailure(w)
  BY <1>1, <1>4, OthersCountNothing
<1> QED
  BY <1>2, <1>3, <1>4

LEMMA CountStep ==
  TypeInv /\ ExactlyOnePlace /\ OneCooldownPerTrip /\ FiniteInv /\ CountInv /\ [Next]_vars
    => CountInv'
<1> SUFFICES ASSUME TypeInv, ExactlyOnePlace, OneCooldownPerTrip, FiniteInv, CountInv, [Next]_vars
             PROVE  CountInv'
  OBVIOUS
<1>1. /\ Counted \in Int
      /\ \/ Counted' = Counted /\ \A w \in Worker : ~AddFailure(w)
         \/ Counted' = Counted + 1 /\ \E w \in Worker : AddFailure(w)
  BY CountedStep
<1> USE ConstAssumption DEF CountInv, TypeInv, TypeOK, ConstAssumption
<1>2. ASSUME NEW w \in Worker, AddFailure(w) PROVE CountInv'
  <2>1. Counted' = Counted + 1
    BY <1>1, <1>2
  <2>2. /\ consecutiveFailures' = consecutiveFailures + 1
        /\ wpc'[w] = "trip" /\ wfailures'[w] = consecutiveFailures + 1
        /\ \A v \in Worker : v # w => wfailures'[v] = wfailures[v]
        /\ UNCHANGED <<circuitOpen, closing>>
    BY <1>2 DEF AddFailure
  <2>3. /\ Counted \in Int
        /\ consecutiveFailures \in Nat /\ consecutiveFailures <= Counted
        /\ MaxConsecFailures \in Nat
    BY <1>1
  <2>4. \A v \in Worker : wfailures'[v] <= Counted'
    <3> TAKE v \in Worker
    <3>1. wfailures[v] \in Nat /\ wfailures[v] <= Counted
      OBVIOUS
    <3>2. v = w \/ wfailures'[v] = wfailures[v]
      BY <2>2
    <3> QED
      BY <2>1, <2>2, <2>3, <3>1, <3>2
  <2>5. /\ consecutiveFailures' <= Counted'
        /\ circuitOpen' = 1 => Counted' >= MaxConsecFailures
        /\ closing' > 0 => /\ circuitOpen' = 1
                           /\ consecutiveFailures' + MaxConsecFailures <= Counted'
    BY <2>1, <2>2, <2>3
  <2>6. consecutiveFailures' >= MaxConsecFailures =>
          wpc'[w] = "trip" /\ wfailures'[w] >= MaxConsecFailures
    BY <2>2
  <2> QED
    BY <2>4, <2>5, <2>6
<1>3. ASSUME NEW w \in Worker, TripCircuit(w) PROVE CountInv'
  <2>1. Counted' = Counted
    BY <1>1, <1>3 DEF TripCircuit, Trip, AddFailure
  <2> QED
    BY <1>1, <1>3, <2>1 DEF TripCircuit, Trip
<1>4. ASSUME NEW w \in Worker, ClearFailures(w), Counted' = Counted PROVE CountInv'
  BY <1>1, <1>4 DEF ClearFailures
<1>5. ASSUME CooldownElapses, Counted' = Counted PROVE CountInv'
  BY <1>1, <1>5 DEF CooldownElapses, OneCooldownPerTrip
<1>6. ASSUME CloseCircuit, Counted' = Counted PROVE CountInv'
  BY <1>1, <1>6 DEF CloseCircuit, OneCooldownPerTrip
<1>7. ASSUME Counted' = Counted,
             UNCHANGED <<consecutiveFailures, circuitOpen, closing, wfailures>>,
             \A w \in Worker : wpc[w] = "trip" => wpc'[w] = "trip"
      PROVE  CountInv'
  BY <1>1, <1>7
<1>8. ASSUME NEW w \in Worker, StartWorker(w) \/ Receive(w) \/ Exit(w) \/ Process(w),
             Counted' = Counted
      PROVE  CountInv'
  <2>1. /\ UNCHANGED <<consecutiveFailures, circuitOpen, closing, wfailures>>
        /\ \A v \in Worker : wpc[v] = "trip" => wpc'[v] = "trip"
    BY <1>8 DEF StartWorker, Receive, Exit, Process, ClientNotReady, MarshalFails, PushFails,
                PushSucceeds, Settle
  <2> QED
    BY <1>7, <1>8, <2>1
<1>9. ASSUME \/ \E m \in Message : Submit(m)
             \/ CooldownAbandoned
             \/ \E s \in Stopper : CallStop(s) \/ StopStep(s)
             \/ UNCHANGED vars,
             Counted' = Counted
      PROVE  CountInv'
  <2>1. UNCHANGED <<consecutiveFailures, circuitOpen, closing, wfailures, wpc>>
    BY <1>9 DEF Submit, CheckCircuit, SendAccepted, SendDropped, SendPanics, CooldownAbandoned,
                CallStop, StopFirst, StopStep, StopAgain, CloseDone, CloseMsgChan, WaitWorkers, vars
  <2> QED
    BY <1>7, <1>9, <2>1
<1> QED
  BY <1>1, <1>2, <1>3, <1>4, <1>5, <1>6, <1>8, <1>9 DEF Next, WorkerStep, Cooldown

LEMMA CountInvariant ==
  Spec => [](TypeInv /\ FiniteInv /\ CountInv)
<1> DEFINE Inv == TypeInv /\ ExactlyOnePlace /\ OneCooldownPerTrip /\ FiniteInv /\ CountInv
<1>1. Init => Inv
  <2> SUFFICES ASSUME Init PROVE Inv
    OBVIOUS
  <2>1. Failed = {} /\ Uncounted = {}
    BY DEF Init, Failed, Uncounted
  <2>2. FiniteInv /\ Counted = 0
    BY <2>1, FS_EmptySet DEF FiniteInv, Counted
  <2>3. CountInv
    BY <2>2, ConstAssumption DEF Init, CountInv, ConstAssumption
  <2> QED
    BY <2>2, <2>3, TypeInit, PlaceInit DEF Init, OneCooldownPerTrip
<1>2. Inv /\ [Next]_vars => Inv'
  BY TypeStep, PlaceStep, CooldownStep, CountedStep, CountStep
<1> QED
  BY <1>1, <1>2, PTL DEF Spec

LEMMA CountedFailed == FiniteInv => Counted <= Cardinality(Failed) /\ Cardinality(Failed) \in Nat
  BY FS_CardinalityType DEF FiniteInv, Counted

(* A breaker opens only over as many failed messages as the threshold says, for any *)
(* number of workers that count at once.                                               *)
THEOREM OnlyFailuresTrip == Spec => []OpenBreakerHadFailures
<1>1. TypeInv /\ FiniteInv /\ CountInv => OpenBreakerHadFailures
  <2> SUFFICES ASSUME FiniteInv, CountInv, circuitOpen = 1
               PROVE  Cardinality(Failed) >= MaxConsecFailures
    BY DEF OpenBreakerHadFailures
  <2>1. Counted >= MaxConsecFailures /\ Counted \in Int
    BY FS_CardinalityType DEF CountInv, FiniteInv, Counted
  <2> QED
    BY <2>1, CountedFailed, ConstAssumption DEF ConstAssumption
<1> QED
  BY <1>1, CountInvariant, PTL

(* An outage trips the breaker, but for the window between the two stores of a *)
(* cooldown, which as many further failures have to fill.                          *)
THEOREM OutagesTrip == Spec => []OutageTripsBreaker
<1>1. TypeInv /\ FiniteInv /\ CountInv => OutageTripsBreaker
  <2> SUFFICES ASSUME TypeInv, FiniteInv, CountInv,
                      consecutiveFailures >= MaxConsecFailures, circuitOpen = 0,
                      \A w \in Worker : wpc[w] # "trip"
               PROVE  Cardinality(Failed) >= 2 * MaxConsecFailures
    BY DEF OutageTripsBreaker
  <2>1. consecutiveFailures + MaxConsecFailures <= Counted /\ Counted \in Int
    BY FS_CardinalityType DEF CountInv, FiniteInv, Counted
  <2> QED
    BY <2>1, CountedFailed, ConstAssumption DEF ConstAssumption, TypeInv, TypeOK
<1> QED
  BY <1>1, CountInvariant, PTL

-----------------------------------------------------------------------------
(* The pool implements AuditRelay. *)

LEMMA RelayInit == Init => Relay!Init
  BY DEF Init, Relay!Init, RelayStatus, AbstractStatus

(* A change of one message's stage is a change of its abstract status. *)
LEMMA RelayMove ==
  ASSUME TypeInv, NEW m \in Message, NEW to \in Stage, stage' = [stage EXCEPT ![m] = to]
  PROVE  RelayStatus' = [RelayStatus EXCEPT ![m] = AbstractStatus(to)]
<1>1. \A x \in Message : stage'[x] = IF x = m THEN to ELSE stage[x]
  BY DEF TypeInv, TypeOK
<1>2. \A x \in Message : AbstractStatus(stage'[x]) = IF x = m THEN AbstractStatus(to)
                                                        ELSE AbstractStatus(stage[x])
  BY <1>1
<1>3. RelayStatus' = [x \in Message |-> IF x = m THEN AbstractStatus(to)
                                                 ELSE AbstractStatus(stage[x])]
  BY <1>2 DEF RelayStatus
<1> QED
  BY <1>3 DEF RelayStatus

(* The abstract status of each stage. *)
LEMMA StatusValues ==
  /\ AbstractStatus("new") = "new" /\ AbstractStatus("checked") = "new"
  /\ AbstractStatus("queued") = "accepted" /\ AbstractStatus("processing") = "accepted"
  /\ AbstractStatus("dropped") = "refused" /\ AbstractStatus("panicked") = "refused"
  /\ AbstractStatus("published") = "delivered"
  /\ AbstractStatus("failed") = "lost" /\ AbstractStatus("unmarshalled") = "lost"
  BY DEF AbstractStatus

LEMMA RelayStep == IInv /\ [Next]_vars => [Relay!Next]_(Relay!vars)
<1> SUFFICES ASSUME IInv, [Next]_vars PROVE Relay!Next \/ UNCHANGED Relay!vars
  OBVIOUS
<1>1. TypeInv /\ ExactlyOnePlace
  BY DEF IInv
<1>2. ASSUME NEW m \in Message, NEW to \in Stage, stage' = [stage EXCEPT ![m] = to],
             AbstractStatus(to) = AbstractStatus(stage[m]), once' = once
      PROVE  UNCHANGED Relay!vars
  <2>1. RelayStatus' = [RelayStatus EXCEPT ![m] = RelayStatus[m]]
    BY <1>1, <1>2, RelayMove DEF RelayStatus
  <2>2. RelayStatus' = RelayStatus
    BY <2>1 DEF RelayStatus
  <2> QED
    BY <2>2, <1>2 DEF Relay!vars
<1>3. ASSUME NEW m \in Message, NEW to \in Stage, stage' = [stage EXCEPT ![m] = to], once' = once
      PROVE  Relay!Move(m, AbstractStatus(stage[m]), AbstractStatus(to))
  BY <1>1, <1>3, RelayMove DEF Relay!Move, RelayStatus
<1>4. ASSUME NEW m \in Message, CheckCircuit(m) PROVE Relay!Next \/ UNCHANGED Relay!vars
  <2>1. stage[m] = "new" /\ once' = once
    BY <1>4 DEF CheckCircuit
  <2>2. CASE stage' = [stage EXCEPT ![m] = "checked"]
    BY <2>1, <2>2, <1>2, StatusValues DEF Stage
  <2>3. CASE stage' = [stage EXCEPT ![m] = "dropped"]
    BY <2>1, <2>3, <1>3, StatusValues DEF Stage, Relay!Next, Relay!Refuse
  <2> QED
    BY <1>4, <2>2, <2>3 DEF CheckCircuit
<1>5. ASSUME NEW m \in Message, SendAccepted(m) PROVE Relay!Next
  <2>1. stage[m] = "checked" /\ once' = once /\ stage' = [stage EXCEPT ![m] = "queued"]
    BY <1>5 DEF SendAccepted
  <2>2. once # "done"
    <3>1. ~chanClosed
      BY <1>5 DEF SendAccepted
    <3> QED
      BY <3>1, NothingPending DEF IInv, ShutdownInv
  <2> QED
    BY <2>1, <2>2, <1>3, StatusValues DEF Stage, Relay!Next, Relay!Accept
<1>6. ASSUME NEW m \in Message, SendDropped(m) \/ SendPanics(m) PROVE Relay!Next
  <2>1. PICK to \in {"dropped", "panicked"} :
          stage[m] = "checked" /\ once' = once /\ stage' = [stage EXCEPT ![m] = to]
    BY <1>6 DEF SendDropped, SendPanics
  <2> QED
    BY <2>1, <1>3, StatusValues DEF Stage, Relay!Next, Relay!Refuse
<1>7. ASSUME NEW w \in Worker, Receive(w) PROVE UNCHANGED Relay!vars
  <2>1. Head(buffer) \in Message /\ stage[Head(buffer)] = "queued"
    <3>1. Head(buffer) = buffer[1] /\ 1 \in DOMAIN buffer /\ buffer[1] \in Message
      BY <1>7, <1>1 DEF Receive, TypeInv, TypeOK
    <3> QED
      BY <3>1, <1>1 DEF ExactlyOnePlace
  <2>2. stage' = [stage EXCEPT ![Head(buffer)] = "processing"] /\ once' = once
    BY <1>7 DEF Receive
  <2> QED
    BY <2>1, <2>2, <1>2, StatusValues DEF Stage
<1>8. ASSUME NEW w \in Worker, Process(w) PROVE Relay!Next
  <2>1. PICK x \in Message, to \in {"published", "failed", "unmarshalled"} :
          stage[x] = "processing" /\ stage' = [stage EXCEPT ![x] = to] /\ once' = once
    BY <1>1, <1>8, ProcessSettles
  <2>2. Relay!Move(x, "accepted", AbstractStatus(to))
    BY <2>1, <1>3, StatusValues DEF Stage
  <2> QED
    BY <2>1, <2>2, StatusValues DEF Relay!Next, Relay!Deliver, Relay!Lose
<1>9. ASSUME UNCHANGED <<stage, once>> PROVE UNCHANGED Relay!vars
  BY <1>9 DEF Relay!vars, RelayStatus
<1>10. ASSUME NEW w \in Worker,
              StartWorker(w) \/ Exit(w) \/ ClearFailures(w) \/ AddFailure(w) \/ TripCircuit(w)
       PROVE  UNCHANGED Relay!vars
  BY <1>9, <1>10 DEF StartWorker, Exit, ClearFailures, AddFailure, TripCircuit, Trip
<1>11. ASSUME Cooldown \/ UNCHANGED vars PROVE UNCHANGED Relay!vars
  BY <1>9, <1>11 DEF Cooldown, CooldownElapses, CloseCircuit, CooldownAbandoned, vars
<1>12. ASSUME NEW s \in Stopper, StopAgain(s) \/ CloseDone(s) \/ CloseMsgChan(s)
       PROVE  UNCHANGED Relay!vars
  BY <1>9, <1>12 DEF StopAgain, CloseDone, CloseMsgChan
<1>13. ASSUME NEW s \in Stopper, CallStop(s) \/ StopFirst(s) PROVE UNCHANGED Relay!vars
  BY <1>13 DEF CallStop, StopFirst, Relay!vars, RelayStatus
<1>14. ASSUME NEW s \in Stopper, WaitWorkers(s) PROVE Relay!Next
  <2>1. spc[s] = "wait" /\ wg = {} /\ once' = "done" /\ stage' = stage
    BY <1>14 DEF WaitWorkers
  <2>2. once # "new"
    BY <2>1 DEF IInv, ShutdownInv
  <2>3. \A m \in Message : stage[m] \in Stage /\ stage[m] \notin {"queued", "processing"}
    BY <2>1, <2>2, <1>1, NothingPending DEF TypeInv, TypeOK
  <2>4. \A m \in Message : RelayStatus[m] # "accepted"
    BY <2>3, StatusValues DEF RelayStatus, Stage
  <2> QED
    BY <2>1, <2>4 DEF Relay!Next, Relay!Finish, RelayStatus
<1> QED
  BY <1>4, <1>5, <1>6, <1>7, <1>8, <1>10, <1>11, <1>12, <1>13, <1>14
     DEF Next, Submit, WorkerStep, StopStep

(* The pool keeps the promise of AuditRelay: accept or refuse, deliver at     *)
(* most once, and nothing pending or accepted after Stop has returned.        *)
THEOREM PoolImplementsRelay == Spec => ImplementsRelay
<1>1. Init => Relay!Init
  BY RelayInit
<1>2. IInv /\ [Next]_vars => [Relay!Next]_(Relay!vars)
  BY RelayStep
<1> QED
  BY <1>1, <1>2, InductiveInvariant, PTL DEF Spec, ImplementsRelay, Relay!SafeSpec
=============================================================================
