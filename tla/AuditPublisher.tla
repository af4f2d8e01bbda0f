--------------------------- MODULE AuditPublisher ---------------------------
(***************************************************************************)
(* AuditPublisher of audittrail_publisher.go: a pool of worker goroutines   *)
(* that drain a buffered channel into RabbitMQ behind a lock-free circuit    *)
(* breaker.  Every atomic load, store, add and compare-and-swap of the code  *)
(* is a step of its own, as is every channel operation, so the goroutines    *)
(* interleave here where they interleave there.                              *)
(*                                                                         *)
(* One message stands for one call of Submit, made by a goroutine of its     *)
(* own: the callers of the library (LogAudittrailProcessV2, ...DataV2,       *)
(* LogAuditTrailTrx, LogTransactionTrace) call Submit from request handlers. *)
(***************************************************************************)
EXTENDS Naturals, Sequences, FiniteSets

CONSTANTS
  Message,             \* the calls of Submit
  Worker,              \* the goroutines Start launches (workerCount of them)
  Stopper,             \* the goroutines that call Stop
  None,                \* "no message"
  BufferSize,          \* capacity of msgChan
  MaxConsecFailures    \* threshold of the circuit breaker

(* The option setters ignore values that are not positive (lines 42-92). *)
ASSUME ConstAssumption ==
  /\ Worker # {}
  /\ None \notin Message
  /\ BufferSize \in Nat \ {0}
  /\ MaxConsecFailures \in Nat \ {0}

VARIABLES
  stage,                 \* how far each message has come
  attempts,              \* pushes made for each message
  buffer,                \* content of msgChan
  doneClosed,            \* close(p.done) has happened
  chanClosed,            \* close(p.msgChan) has happened
  wpc,                   \* where each worker is
  wmsg,                  \* the message a worker is processing
  wfailures,             \* the local "failures" of recordFailure
  wg,                    \* workers the WaitGroup still counts
  consecutiveFailures,   \* atomic counter
  circuitOpen,           \* atomic flag, 0 closed, 1 open
  cooling,               \* cooldownReset goroutines still in their select
  closing,               \* cooldownReset goroutines between their two stores
  once,                  \* state of stopOnce
  spc                    \* where each caller of Stop is

submitVars  == <<stage, attempts, buffer>>
chanVars    == <<doneClosed, chanClosed>>
workerVars  == <<wpc, wmsg, wfailures, wg>>
breakerVars == <<consecutiveFailures, circuitOpen, cooling, closing>>
stopVars    == <<once, spc>>
vars == <<submitVars, chanVars, workerVars, breakerVars, stopVars>>

Stage == {"new", "checked", "dropped", "panicked", "queued", "processing",
          "published", "failed", "unmarshalled"}

TypeOK ==
  /\ stage \in [Message -> Stage]
  /\ attempts \in [Message -> Nat]
  /\ buffer \in Seq(Message)
  /\ Len(buffer) <= BufferSize
  /\ doneClosed \in BOOLEAN
  /\ chanClosed \in BOOLEAN
  /\ wpc \in [Worker -> {"unborn", "recv", "process", "ok", "fail", "trip", "exited"}]
  /\ wmsg \in [Worker -> Message \cup {None}]
  /\ wfailures \in [Worker -> Nat]
  /\ wg \in SUBSET Worker
  /\ consecutiveFailures \in Nat
  /\ circuitOpen \in {0, 1}
  /\ cooling \in Nat
  /\ closing \in Nat
  /\ once \in {"new", "running", "done"}
  /\ spc \in [Stopper -> {"idle", "once", "done", "chan", "wait", "returned"}]

Init ==
  /\ stage = [m \in Message |-> "new"]
  /\ attempts = [m \in Message |-> 0]
  /\ buffer = <<>>
  /\ doneClosed = FALSE
  /\ chanClosed = FALSE
  /\ wpc = [w \in Worker |-> "unborn"]
  /\ wmsg = [w \in Worker |-> None]
  /\ wfailures = [w \in Worker |-> 0]
  /\ wg = {}
  /\ consecutiveFailures = 0
  /\ circuitOpen = 0
  /\ cooling = 0
  /\ closing = 0
  /\ once = "new"
  /\ spc = [s \in Stopper |-> "idle"]

-----------------------------------------------------------------------------
(* Submit: the load of the breaker flag, and later the non-blocking send.   *)

CheckCircuit(m) ==
  /\ stage[m] = "new"
  /\ stage' = [stage EXCEPT ![m] = IF circuitOpen = 1 THEN "dropped" ELSE "checked"]
  /\ UNCHANGED <<attempts, buffer, chanVars, workerVars, breakerVars, stopVars>>

(* Mutant: the send does not mind a full buffer. *)
SendUnbounded(m) ==
  /\ stage[m] = "checked"
  /\ ~chanClosed
  /\ buffer' = Append(buffer, m)
  /\ stage' = [stage EXCEPT ![m] = "queued"]
  /\ UNCHANGED <<attempts, chanVars, workerVars, breakerVars, stopVars>>

(* The select succeeds when the channel has room. *)
SendAccepted(m) ==
  /\ stage[m] = "checked"
  /\ ~chanClosed
  /\ Len(buffer) < BufferSize
  /\ buffer' = Append(buffer, m)
  /\ stage' = [stage EXCEPT ![m] = "queued"]
  /\ UNCHANGED <<attempts, chanVars, workerVars, breakerVars, stopVars>>

(* The default case: the buffer is full. *)
SendDropped(m) ==
  /\ stage[m] = "checked"
  /\ ~chanClosed
  /\ Len(buffer) = BufferSize
  /\ stage' = [stage EXCEPT ![m] = "dropped"]
  /\ UNCHANGED <<attempts, buffer, chanVars, workerVars, breakerVars, stopVars>>

(* A send on a closed channel panics whatever the other cases of the select *)
(* are.  The panic ends the calling goroutine; the model goes on, as a       *)
(* program whose HTTP framework recovers panics does.                        *)
SendPanics(m) ==
  /\ stage[m] = "checked"
  /\ chanClosed
  /\ stage' = [stage EXCEPT ![m] = "panicked"]
  /\ UNCHANGED <<attempts, buffer, chanVars, workerVars, breakerVars, stopVars>>

Submit(m) == CheckCircuit(m) \/ SendAccepted(m) \/ SendDropped(m) \/ SendPanics(m)

-----------------------------------------------------------------------------
(* Workers.                                                                 *)

(* One turn of Start's loop: wg.Add(1), go p.worker(i). *)
StartWorker(w) ==
  /\ wpc[w] = "unborn"
  /\ wpc' = [wpc EXCEPT ![w] = "recv"]
  /\ wg' = wg \cup {w}
  /\ UNCHANGED <<submitVars, chanVars, wmsg, wfailures, breakerVars, stopVars>>

(* Mutant: the worker looks at the message without taking it out. *)
Peek(w) ==
  /\ wpc[w] = "recv"
  /\ buffer # <<>>
  /\ wpc' = [wpc EXCEPT ![w] = "process"]
  /\ wmsg' = [wmsg EXCEPT ![w] = Head(buffer)]
  /\ stage' = [stage EXCEPT ![Head(buffer)] = "processing"]
  /\ UNCHANGED <<buffer, attempts, chanVars, wfailures, wg, breakerVars, stopVars>>

(* "range p.msgChan" yields buffered messages even after the channel closed. *)
Receive(w) ==
  /\ wpc[w] = "recv"
  /\ buffer # <<>>
  /\ wpc' = [wpc EXCEPT ![w] = "process"]
  /\ wmsg' = [wmsg EXCEPT ![w] = Head(buffer)]
  /\ stage' = [stage EXCEPT ![Head(buffer)] = "processing"]
  /\ buffer' = Tail(buffer)
  /\ UNCHANGED <<attempts, chanVars, wfailures, wg, breakerVars, stopVars>>

(* Mutant: the worker watches p.done instead of draining the channel. *)
ExitOnDone(w) ==
  /\ wpc[w] = "recv"
  /\ doneClosed
  /\ wpc' = [wpc EXCEPT ![w] = "exited"]
  /\ wg' = wg \ {w}
  /\ UNCHANGED <<submitVars, chanVars, wmsg, wfailures, breakerVars, stopVars>>

(* Mutant: wg.Done is forgotten. *)
ExitUncounted(w) ==
  /\ wpc[w] = "recv"
  /\ chanClosed
  /\ buffer = <<>>
  /\ wpc' = [wpc EXCEPT ![w] = "exited"]
  /\ UNCHANGED <<submitVars, chanVars, wmsg, wfailures, wg, breakerVars, stopVars>>

(* The range ends, and the deferred wg.Done runs. *)
Exit(w) ==
  /\ wpc[w] = "recv"
  /\ chanClosed
  /\ buffer = <<>>
  /\ wpc' = [wpc EXCEPT ![w] = "exited"]
  /\ wg' = wg \ {w}
  /\ UNCHANGED <<submitVars, chanVars, wmsg, wfailures, breakerVars, stopVars>>

(* processMessage settles the message: the new stage, the pushes it made and *)
(* where the worker goes from there.                                         *)
Settle(w, newStage, pushes, pc) ==
  /\ wpc[w] = "process"
  /\ stage' = [stage EXCEPT ![wmsg[w]] = newStage]
  /\ attempts' = [attempts EXCEPT ![wmsg[w]] = @ + pushes]
  /\ wpc' = [wpc EXCEPT ![w] = pc]
  /\ wmsg' = [wmsg EXCEPT ![w] = None]
  /\ UNCHANGED <<buffer, chanVars, wfailures, wg, breakerVars, stopVars>>

(* Mutant: a marshalling error counts as a failure of the broker. *)
MarshalFailureCounts(w) == Settle(w, "unmarshalled", 0, "fail")

(* Mutant: a message that cannot be marshalled is put back into the channel. *)
MarshalRetried(w) ==
  /\ wpc[w] = "process"
  /\ Len(buffer) < BufferSize
  /\ buffer' = Append(buffer, wmsg[w])
  /\ stage' = [stage EXCEPT ![wmsg[w]] = "queued"]
  /\ wpc' = [wpc EXCEPT ![w] = "recv"]
  /\ wmsg' = [wmsg EXCEPT ![w] = None]
  /\ UNCHANGED <<attempts, chanVars, wfailures, wg, breakerVars, stopVars>>

(* The client and the broker decide which of the four it is. *)
ClientNotReady(w) == Settle(w, "failed", 0, "fail")
MarshalFails(w)   == Settle(w, "unmarshalled", 0, "recv")
PushFails(w)      == Settle(w, "failed", 1, "fail")
PushSucceeds(w)   == Settle(w, "published", 1, "ok")

(* consecutiveFailures.Store(0) after a successful push. *)
ClearFailures(w) ==
  /\ wpc[w] = "ok"
  /\ consecutiveFailures' = 0
  /\ wpc' = [wpc EXCEPT ![w] = "recv"]
  /\ UNCHANGED <<submitVars, chanVars, wmsg, wfailures, wg, circuitOpen, cooling,
                 closing, stopVars>>

(* recordFailure: failures := consecutiveFailures.Add(1). *)
AddFailure(w) ==
  /\ wpc[w] = "fail"
  /\ consecutiveFailures' = consecutiveFailures + 1
  /\ wfailures' = [wfailures EXCEPT ![w] = consecutiveFailures + 1]
  /\ wpc' = [wpc EXCEPT ![w] = "trip"]
  /\ UNCHANGED <<submitVars, chanVars, wmsg, wg, circuitOpen, cooling, closing, stopVars>>

(* The end of recordFailure: the breaker opens when "opens" says so. *)
Trip(w, opens) ==
  /\ wpc[w] = "trip"
  /\ IF opens
     THEN circuitOpen' = 1 /\ cooling' = cooling + 1
     ELSE UNCHANGED <<circuitOpen, cooling>>
  /\ wpc' = [wpc EXCEPT ![w] = "recv"]
  /\ wfailures' = [wfailures EXCEPT ![w] = 0]
  /\ UNCHANGED <<submitVars, chanVars, wmsg, wg, consecutiveFailures, closing, stopVars>>

(* Mutant: a plain store instead of the compare-and-swap. *)
TripWithoutSwap(w) == Trip(w, wfailures[w] >= MaxConsecFailures)

(* Mutant: the threshold is off by one. *)
TripLate(w) == Trip(w, wfailures[w] > MaxConsecFailures /\ circuitOpen = 0)

(* recordFailure: the comparison of the local value, then the                *)
(* compare-and-swap that also starts the cooldown goroutine.                 *)
TripCircuit(w) == Trip(w, wfailures[w] >= MaxConsecFailures /\ circuitOpen = 0)

Process(w) == ClientNotReady(w) \/ MarshalFails(w) \/ PushFails(w) \/ PushSucceeds(w)

WorkerStep(w) ==
  \/ Receive(w) \/ Exit(w) \/ Process(w)
  \/ ClearFailures(w) \/ AddFailure(w) \/ TripCircuit(w)

-----------------------------------------------------------------------------
(* cooldownReset.                                                           *)

(* The timer case of the select, and the store that clears the counter. *)
CooldownElapses ==
  /\ cooling > 0
  /\ cooling' = cooling - 1
  /\ closing' = closing + 1
  /\ consecutiveFailures' = 0
  /\ UNCHANGED <<submitVars, chanVars, workerVars, circuitOpen, stopVars>>

(* Mutant: the goroutine ends without closing the breaker. *)
ForgetCircuit ==
  /\ closing > 0
  /\ closing' = closing - 1
  /\ UNCHANGED <<submitVars, chanVars, workerVars, circuitOpen, consecutiveFailures,
                 cooling, stopVars>>

(* The store that closes the breaker. *)
CloseCircuit ==
  /\ closing > 0
  /\ closing' = closing - 1
  /\ circuitOpen' = 0
  /\ UNCHANGED <<submitVars, chanVars, workerVars, consecutiveFailures, cooling, stopVars>>

(* The done case of the select: the breaker stays open. *)
CooldownAbandoned ==
  /\ cooling > 0
  /\ doneClosed
  /\ cooling' = cooling - 1
  /\ UNCHANGED <<submitVars, chanVars, workerVars, consecutiveFailures, circuitOpen,
                 closing, stopVars>>

Cooldown == CooldownElapses \/ CloseCircuit \/ CooldownAbandoned

-----------------------------------------------------------------------------
(* Stop.  SetUpAuditTrailPublisher returns the publisher only after Start    *)
(* has, so nobody stops a pool whose workers are still being launched.       *)

CallStop(s) ==
  /\ spc[s] = "idle"
  /\ \A w \in Worker : wpc[w] # "unborn"
  /\ spc' = [spc EXCEPT ![s] = "once"]
  /\ UNCHANGED <<submitVars, chanVars, workerVars, breakerVars, once>>

StopFirst(s) ==
  /\ spc[s] = "once"
  /\ once = "new"
  /\ once' = "running"
  /\ spc' = [spc EXCEPT ![s] = "done"]
  /\ UNCHANGED <<submitVars, chanVars, workerVars, breakerVars>>

(* sync.Once makes every other caller wait until the first has finished. *)
StopAgain(s) ==
  /\ spc[s] = "once"
  /\ once = "done"
  /\ spc' = [spc EXCEPT ![s] = "returned"]
  /\ UNCHANGED <<submitVars, chanVars, workerVars, breakerVars, once>>

CloseDone(s) ==
  /\ spc[s] = "done"
  /\ doneClosed' = TRUE
  /\ spc' = [spc EXCEPT ![s] = "chan"]
  /\ UNCHANGED <<submitVars, chanClosed, workerVars, breakerVars, once>>

CloseMsgChan(s) ==
  /\ spc[s] = "chan"
  /\ chanClosed' = TRUE
  /\ spc' = [spc EXCEPT ![s] = "wait"]
  /\ UNCHANGED <<submitVars, doneClosed, workerVars, breakerVars, once>>

(* Mutant: Stop does not wait for the workers. *)
StopWithoutWait(s) ==
  /\ spc[s] = "wait"
  /\ once' = "done"
  /\ spc' = [spc EXCEPT ![s] = "returned"]
  /\ UNCHANGED <<submitVars, chanVars, workerVars, breakerVars>>

(* wg.Wait returns, and with it Once.Do and Stop. *)
WaitWorkers(s) ==
  /\ spc[s] = "wait"
  /\ wg = {}
  /\ once' = "done"
  /\ spc' = [spc EXCEPT ![s] = "returned"]
  /\ UNCHANGED <<submitVars, chanVars, workerVars, breakerVars>>

StopStep(s) ==
  \/ StopFirst(s) \/ CloseDone(s) \/ CloseMsgChan(s) \/ WaitWorkers(s)
  \/ StopAgain(s)

-----------------------------------------------------------------------------

Next ==
  \/ \E m \in Message : Submit(m)
  \/ \E w \in Worker : StartWorker(w) \/ WorkerStep(w)
  \/ Cooldown
  \/ \E s \in Stopper : CallStop(s) \/ StopStep(s)

Spec == Init /\ [][Next]_vars

(* The Go scheduler runs every runnable goroutine again, a timer fires, and  *)
(* the push of a message returns.  Nothing forces a caller to submit or to   *)
(* stop the publisher.                                                       *)
FairSpec ==
  /\ Spec
  /\ \A w \in Worker : WF_vars(StartWorker(w)) /\ WF_vars(WorkerStep(w))
  /\ WF_vars(CooldownElapses \/ CooldownAbandoned)
  /\ WF_vars(CloseCircuit)
  /\ \A s \in Stopper : WF_vars(StopStep(s))

-----------------------------------------------------------------------------
(* Properties.                                                              *)

(* A message a caller handed over is in exactly one place: once in the       *)
(* channel, or with one worker, or settled.  Neither the hand-over between   *)
(* callers and workers nor the drain loses or doubles a message.             *)
ExactlyOnePlace ==
  /\ \A i \in DOMAIN buffer : stage[buffer[i]] = "queued"
  /\ \A i, j \in DOMAIN buffer : buffer[i] = buffer[j] => i = j
  /\ \A m \in Message : stage[m] = "queued" => \E i \in DOMAIN buffer : buffer[i] = m
  /\ \A w \in Worker : wpc[w] = "process" =>
       wmsg[w] \in Message /\ stage[wmsg[w]] = "processing"
  /\ \A v, w \in Worker : wpc[v] = "process" /\ wpc[w] = "process" /\ wmsg[v] = wmsg[w]
       => v = w
  /\ \A m \in Message : stage[m] = "processing" =>
       \E w \in Worker : wpc[w] = "process" /\ wmsg[w] = m

(* Whenever any call of Stop has returned, the first or a repeated one, no   *)
(* accepted message is left in the channel or with a worker, and every        *)
(* worker has gone ("waits for workers to drain remaining messages").         *)
StopDrains ==
  (\E s \in Stopper : spc[s] = "returned") =>
    /\ buffer = <<>>
    /\ \A w \in Worker : wpc[w] = "exited"
    /\ \A m \in Message : stage[m] \notin {"queued", "processing"}

(* An open breaker has exactly one goroutine that will close it, unless the  *)
(* publisher is stopping; a closed one has none.  Two would let the older    *)
(* close a breaker the younger should keep open; none would drop every        *)
(* message for ever.                                                          *)
OneCooldownPerTrip ==
  /\ cooling + closing <= circuitOpen
  /\ ~doneClosed => cooling + closing = circuitOpen

Failed == {m \in Message : stage[m] = "failed"}

(* A sustained outage trips the breaker: once nobody is between its count    *)
(* and its compare-and-swap, the counter can stand at the threshold with the  *)
(* breaker closed only after an earlier trip has run its course and as many   *)
(* messages have failed again (the window between the two stores of           *)
(* cooldownReset).                                                            *)
OutageTripsBreaker ==
  (/\ consecutiveFailures >= MaxConsecFailures
   /\ circuitOpen = 0
   /\ \A w \in Worker : wpc[w] # "trip")
  => Cardinality(Failed) >= 2 * MaxConsecFailures

(* Only failures trip it: marshalling errors and successes never add up to an *)
(* open breaker.  The failures are counted in all, not in a row: a success     *)
(* that clears the counter does not recall what a worker has counted already.  *)
OpenBreakerHadFailures == circuitOpen = 1 => Cardinality(Failed) >= MaxConsecFailures

(* An open breaker closes again, unless the publisher is stopped meanwhile.  *)
BreakerRecovers == (circuitOpen = 1) ~> (circuitOpen = 0 \/ doneClosed)

(* Every call of Stop returns, the one that runs the Once and those that wait *)
(* for it, however busy the workers are and whatever is in the channel.        *)
StopReturns == \A s \in Stopper : (spc[s] # "idle") ~> (spc[s] = "returned")

-----------------------------------------------------------------------------
(* What the source says and the code does not do (see the README).          *)

(* Submit "is dropped with a warning log" when it cannot be accepted; it      *)
(* never panics (audittrail_publisher.go:133-134).                            *)
SubmitNeverPanics == \A m \in Message : stage[m] # "panicked"

(* "WithMaxRetries sets the maximum push retry count per message (default 3)" *)
(* (audittrail_publisher.go:59): a message is given up for a failed push only  *)
(* after it was pushed again.                                                 *)
GivenUpAfterRetries ==
  \A m \in Message : stage[m] = "failed" => attempts[m] # 1

-----------------------------------------------------------------------------
(* The pool implements the abstract relay.                                   *)

AbstractStatus(st) ==
  CASE st \in {"new", "checked"}           -> "new"
    [] st \in {"queued", "processing"}     -> "accepted"
    [] st \in {"dropped", "panicked"}      -> "refused"
    [] st = "published"                    -> "delivered"
    [] st \in {"failed", "unmarshalled"}   -> "lost"

RelayStatus == [m \in Message |-> AbstractStatus(stage[m])]

Relay == INSTANCE AuditRelay WITH status <- RelayStatus, stopped <- (once = "done")

(* Every behaviour of the pool is one of the relay. *)
ImplementsRelay == Relay!SafeSpec
(* ... including its promise that every accepted message is settled. *)
ImplementsFairRelay == Relay!Spec
=============================================================================
