------------------------------ MODULE AmqpPush ------------------------------
(***************************************************************************)
(* Publishing through AmqpClient (amqp.go): the goroutines that call Push or *)
(* PushWithTTL while the client of module AmqpClient reconnects and closes.  *)
(* Every step is a step of that client or of a publisher, of the broker's    *)
(* confirmations, or the second half of changeChannel.                       *)
(*                                                                         *)
(* Each channel the client installs has a Go channel notifyConfirm with room *)
(* for one confirmation.  Of the client library only this is used: the       *)
(* connection's reader delivers the confirmations of a channel in order and  *)
(* waits, reading nothing else, while that room is taken; a confirmation     *)
(* that nobody listens for is dropped; when the channel closes so does       *)
(* notifyConfirm, after what it holds has been received.                     *)
(***************************************************************************)
EXTENDS AmqpClient, Sequences

CONSTANTS
  Pusher,      \* the calls of Push and PushWithTTL, one message each
  Quiet,       \* those that are PushWithTTL: they await no confirmation
  MaxAttempts  \* PushMaxRetries

ASSUME PushConstAssumption ==
  /\ Quiet \subseteq Pusher
  /\ MaxAttempts \in Nat \ {0}

VARIABLES
  gen,         \* the channel in c.channel, counted from 1
  confirms,    \* the channel that c.notifyConfirm belongs to
  pending,     \* published on c.channel and not yet confirmed, in order
  buffer,      \* by channel (0: none): what its notifyConfirm holds; a second entry is in
               \* the hands of the reader, which waits for room
  acks,        \* how many publishings the broker acknowledged
  ppc,         \* where each call is, at last its result
  attempt,     \* the loop variable of Push
  waitsOn      \* the channel whose notifyConfirm the call's select reads

chanVars == <<gen, confirms, pending, buffer, acks>>
pushVars == <<ppc, attempt, waitsOn>>
allVars  == <<vars, chanVars, pushVars>>

Results == {"ok", "error"}

PushTypeOK ==
  /\ TypeOK
  /\ gen \in Nat /\ confirms \in 0 .. gen
  /\ pending \in Seq(Pusher)
  /\ buffer \in [0 .. gen -> Seq(BOOLEAN)]
  /\ \A g \in 0 .. gen : Len(buffer[g]) <= 2
  /\ acks \in Nat
  /\ ppc \in [Pusher -> {"idle", "attempt", "publish", "published", "wait", "resend"}
                          \cup Results]
  /\ attempt \in [Pusher -> 0 .. MaxAttempts - 1]
  /\ waitsOn \in [Pusher -> 0 .. gen]

PushInit ==
  /\ Init
  /\ gen = 0 /\ confirms = 0
  /\ pending = <<>>
  /\ buffer = [g \in 0 .. 0 |-> <<>>]
  /\ acks = 0
  /\ ppc = [p \in Pusher |-> "idle"]
  /\ attempt = [p \in Pusher |-> 0]
  /\ waitsOn = [p \in Pusher |-> 0]

-----------------------------------------------------------------------------
(* The channels.                                                            *)

(* The reader of the connection waits for room in notifyConfirm. *)
ReaderWaits == Len(buffer[gen]) = 2

ConfirmsClosed(g) == g < gen \/ ~chanOpen

(* A step of the client.  While the reader waits, the answer to a request to  *)
(* close the channel is not read, nor is the broker's own request; only the   *)
(* loss of the connection gets through.                                      *)
ClientStep ==
  /\ Next
  /\ lpc = "installed" /\ lpc' = "serve" => confirms = gen
  /\ ReaderWaits /\ chanOpen /\ ~chanOpen' => connection \notin openConns'
  /\ gen' = IF lpc = "init" /\ lpc' = "installed" THEN gen + 1 ELSE gen
  /\ buffer' = [g \in 0 .. gen' |-> IF g <= gen THEN buffer[g] ELSE <<>>]
  /\ pending' = IF chanOpen' THEN pending ELSE <<>>
  /\ UNCHANGED <<confirms, acks, pushVars>>

(* The second half of changeChannel: a new notifyConfirm, registered. *)
ListenForConfirms ==
  /\ lpc = "installed" /\ confirms # gen
  /\ confirms' = gen
  /\ UNCHANGED <<vars, gen, pending, buffer, acks, pushVars>>

(* The broker answers the oldest publishing, and the reader delivers it. *)
Confirm(ack) ==
  /\ chanOpen /\ pending # <<>> /\ ~ReaderWaits
  /\ pending' = Tail(pending)
  /\ buffer' = IF confirms = gen
                 THEN [buffer EXCEPT ![gen] = Append(@, ack)]
                 ELSE buffer
  /\ UNCHANGED <<vars, gen, confirms, pushVars>>

BrokerAcks ==
  /\ Confirm(TRUE)
  /\ acks' = acks + 1

BrokerNacks ==
  /\ Confirm(FALSE)
  /\ UNCHANGED acks

-----------------------------------------------------------------------------
(* Push and PushWithTTL.                                                    *)

At(p, label) == ppc[p] = label
Goto(p, label) == ppc' = [ppc EXCEPT ![p] = label]

(* The call returns: its local variables are gone. *)
PushReturns(p, result) ==
  /\ Goto(p, result)
  /\ attempt' = [attempt EXCEPT ![p] = 0]
  /\ waitsOn' = [waitsOn EXCEPT ![p] = 0]

(* Mutant: attempt <= PushMaxRetries. *)
NextAttemptOneMore(p) ==
  IF attempt[p] < MaxAttempts
    THEN /\ Goto(p, "attempt")
         /\ attempt' = [attempt EXCEPT ![p] = @ + 1]
         /\ waitsOn' = [waitsOn EXCEPT ![p] = 0]
    ELSE PushReturns(p, "error")

(* The loop of Push goes round. *)
NextAttempt(p) ==
  IF attempt[p] + 1 < MaxAttempts
    THEN /\ Goto(p, "attempt")
         /\ attempt' = [attempt EXCEPT ![p] = @ + 1]
         /\ waitsOn' = [waitsOn EXCEPT ![p] = 0]
    ELSE PushReturns(p, "error")

(* The entry: Push looks at isReady under the mutex, PushWithTTL does so later. *)
Begin(p) ==
  /\ At(p, "idle")
  /\ p \notin Quiet => mutex = None
  /\ Goto(p, IF p \in Quiet \/ isReady THEN "attempt" ELSE "error")
  /\ UNCHANGED <<vars, chanVars, attempt, waitsOn>>

(* The publishing failed: PushWithTTL returns the error, Push waits a moment. *)
NotPublished(p) == Goto(p, IF p \in Quiet THEN "error" ELSE "resend")

(* The head of PushWithTTL: isReady, under the mutex. *)
CheckReady(p) ==
  /\ At(p, "attempt")
  /\ mutex = None
  /\ IF isReady THEN Goto(p, "publish") ELSE NotPublished(p)
  /\ UNCHANGED <<vars, chanVars, attempt, waitsOn>>

(* PublishWithContext on the channel c.channel is by now. *)
Publish(p) ==
  /\ At(p, "publish")
  /\ IF chanOpen
       THEN /\ pending' = Append(pending, p)
            /\ Goto(p, IF p \in Quiet THEN "ok" ELSE "published")
       ELSE /\ NotPublished(p)
            /\ UNCHANGED pending
  /\ UNCHANGED <<vars, gen, confirms, buffer, acks, attempt, waitsOn>>

(* The select of Push evaluates c.notifyConfirm, once. *)
ReadConfirms(p) ==
  /\ At(p, "published")
  /\ waitsOn' = [waitsOn EXCEPT ![p] = confirms]
  /\ Goto(p, "wait")
  /\ UNCHANGED <<vars, chanVars, attempt>>

(* Mutant: any confirmation counts as an acknowledgement. *)
ReceiveAnyConfirm(p) ==
  /\ At(p, "wait") /\ buffer[waitsOn[p]] # <<>>
  /\ buffer' = [buffer EXCEPT ![waitsOn[p]] = Tail(@)]
  /\ PushReturns(p, "ok")
  /\ UNCHANGED <<vars, gen, confirms, pending, acks>>

(* A confirmation, of whichever message. *)
ReceiveConfirm(p) ==
  /\ At(p, "wait") /\ buffer[waitsOn[p]] # <<>>
  /\ buffer' = [buffer EXCEPT ![waitsOn[p]] = Tail(@)]
  /\ IF Head(buffer[waitsOn[p]]) THEN PushReturns(p, "ok") ELSE NextAttempt(p)
  /\ UNCHANGED <<vars, gen, confirms, pending, acks>>

(* A closed channel gives the zero value, whose Ack is false. *)
ReceiveClosed(p) ==
  /\ At(p, "wait") /\ buffer[waitsOn[p]] = <<>>
  /\ ConfirmsClosed(waitsOn[p])
  /\ NextAttempt(p)
  /\ UNCHANGED <<vars, chanVars>>

ResendWakes(p) ==
  /\ At(p, "resend")
  /\ NextAttempt(p)
  /\ UNCHANGED <<vars, chanVars>>

(* Mutant: only the wait before a resend looks at the deadline. *)
DeadlineOnResendOnly(p) ==
  /\ At(p, "resend")
  /\ PushReturns(p, "error")
  /\ UNCHANGED <<vars, chanVars>>

(* Both selects of Push also end at the deadline and when done is closed. *)
Deadline(p) ==
  /\ ppc[p] \in {"wait", "resend"}
  /\ PushReturns(p, "error")
  /\ UNCHANGED <<vars, chanVars>>

Shutdown(p) ==
  /\ ppc[p] \in {"wait", "resend"}
  /\ doneClosed
  /\ PushReturns(p, "error")
  /\ UNCHANGED <<vars, chanVars>>

PushStep(p) ==
  \/ CheckReady(p) \/ Publish(p) \/ ReadConfirms(p)
  \/ ReceiveConfirm(p) \/ ReceiveClosed(p) \/ ResendWakes(p)
  \/ Deadline(p) \/ Shutdown(p)

-----------------------------------------------------------------------------

PushNext ==
  \/ ClientStep
  \/ ListenForConfirms
  \/ BrokerAcks \/ BrokerNacks
  \/ \E p \in Pusher : Begin(p) \/ PushStep(p)

PushSpec == PushInit /\ [][PushNext]_allVars

(* The goroutines run and timers fire; the broker owes nobody a confirmation. *)
FairPushSpec ==
  /\ PushSpec
  /\ WF_allVars(ListenForConfirms)
  /\ WF_allVars(ClientStep /\ Loop)
  /\ \A k \in Closer : WF_allVars(ClientStep /\ CloseStep(k))
  /\ \A p \in Pusher : WF_allVars(PushStep(p))

-----------------------------------------------------------------------------
(* Properties.                                                              *)

(* Concurrent Push calls never report more messages as delivered than the     *)
(* broker acknowledged, across reconnects and shutdown: no acknowledgement    *)
(* serves two calls and a closed channel serves none.                        *)
SuccessesBacked == Cardinality({p \in Pusher \ Quiet : At(p, "ok")}) <= acks

(* A call of Close waits, with the mutex, for an answer that the reader will  *)
(* not deliver before some Push takes a confirmation.                        *)
CloseHangs == ReaderWaits /\ chanOpen /\ \E k \in Closer : cpc[k] = "channel"

(* "Returns an error if all retries are exhausted or the timeout is reached"  *)
(* (amqp.go:421): every call in progress ends, lost confirmations, reconnects *)
(* and shutdown notwithstanding, unless a hanging Close keeps the mutex.      *)
PushEnds ==
  \A p \in Pusher :
    []<>~CloseHangs => (ppc[p] \notin Results \cup {"idle"} ~> ppc[p] \in Results)

-----------------------------------------------------------------------------
(* What the source says and the code does not do (see the README).          *)

(* "Push will push data onto the queue, and wait for a confirmation"          *)
(* (amqp.go:419): a Push that returns nil has the broker's answer, there is   *)
(* no publishing of its own still waiting for one.                           *)
OwnMessageConfirmed ==
  \A p \in Pusher \ Quiet : At(p, "ok") => \A i \in DOMAIN pending : pending[i] # p
=============================================================================
