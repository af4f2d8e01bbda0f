----------------------------- MODULE AmqpClient -----------------------------
(***************************************************************************)
(* The life cycle of AmqpClient (amqp.go): the goroutine handleReconnect     *)
(* that keeps one connection and one confirming channel to RabbitMQ, and the *)
(* callers of Close.  They share the flag isReady, guarded by the mutex m,   *)
(* and the channel done.                                                     *)
(*                                                                         *)
(* Of the client library only this is used: closing a connection closes its  *)
(* channel; a registered NotifyClose channel is ready from the moment its    *)
(* connection or channel is closed, by either side; closing a channel that   *)
(* is closed succeeds, and closing such a connection fails.  Go's select     *)
(* takes any ready case.                                                     *)
(***************************************************************************)
EXTENDS Naturals, FiniteSets

CONSTANTS
  Closer,      \* the goroutines that call Close
  None,        \* "nobody"
  MaxFaults    \* bound on the failures of the broker and the network

ASSUME ConstAssumption ==
  /\ None \notin Closer
  /\ MaxFaults \in Nat

VARIABLES
  lpc,         \* where handleReconnect / handleReInit is
  connection,  \* number of the connection in c.connection, 0 for none
  openConns,   \* the connections that are open
  chanOpen,    \* c.channel is open
  isReady,
  doneClosed,  \* close(c.done) has happened
  mutex,       \* who holds c.m across steps
  cpc,         \* where each caller of Close is, at last its result
  faults       \* failures so far

loopVars  == <<lpc>>
netVars   == <<connection, openConns, chanOpen>>
closeVars == <<doneClosed, mutex, cpc>>
vars == <<loopVars, netVars, isReady, closeVars, faults>>

TypeOK ==
  /\ lpc \in {"top", "dial", "redial", "reinit", "init", "installed", "initDelay",
              "serve", "exited"}
  /\ connection \in Nat
  /\ openConns \in SUBSET (1 .. connection)
  /\ chanOpen \in BOOLEAN
  /\ isReady \in BOOLEAN
  /\ doneClosed \in BOOLEAN
  /\ mutex \in Closer \cup {None}
  /\ cpc \in [Closer -> {"idle", "channel", "connection", "finish",
                         "ok", "error", "alreadyClosed", "panicked"}]
  /\ faults \in 0 .. MaxFaults

Init ==
  /\ lpc = "top"
  /\ connection = 0
  /\ openConns = {}
  /\ chanOpen = FALSE
  /\ isReady = FALSE
  /\ doneClosed = FALSE
  /\ mutex = None
  /\ cpc = [k \in Closer |-> "idle"]
  /\ faults = 0

Connected == connection \in openConns

Fault == faults < MaxFaults /\ faults' = faults + 1

LoopGoes(from, to) == lpc = from /\ lpc' = to

-----------------------------------------------------------------------------
(* handleReconnect.                                                         *)

(* The head of either loop: isReady = false under the mutex. *)
Unready(from, to) ==
  /\ LoopGoes(from, to)
  /\ mutex = None
  /\ isReady' = FALSE
  /\ UNCHANGED <<netVars, closeVars, faults>>

(* Mutant: the reconnect loop forgets the flag. *)
StayReady ==
  /\ LoopGoes("top", "dial")
  /\ UNCHANGED <<netVars, isReady, closeVars, faults>>

ReconnectTop == Unready("top", "dial")

DialFails ==
  /\ LoopGoes("dial", "redial")
  /\ Fault
  /\ UNCHANGED <<netVars, isReady, closeVars>>

(* Mutant: changeConnection is not called. *)
DialUnrecorded ==
  /\ LoopGoes("dial", "reinit")
  /\ openConns' = openConns \cup {connection + 1}
  /\ UNCHANGED <<connection, chanOpen, isReady, closeVars, faults>>

(* The dial succeeds, and changeConnection installs the connection. *)
DialSucceeds ==
  /\ LoopGoes("dial", "reinit")
  /\ connection' = connection + 1
  /\ openConns' = openConns \cup {connection + 1}
  /\ UNCHANGED <<chanOpen, isReady, closeVars, faults>>

(* A select that waits for a delay or for done: after a failed dial. *)
RedialWakes ==
  /\ LoopGoes("redial", "top")
  /\ UNCHANGED <<netVars, isReady, closeVars, faults>>

RedialDone ==
  /\ LoopGoes("redial", "exited")
  /\ doneClosed
  /\ UNCHANGED <<netVars, isReady, closeVars, faults>>

-----------------------------------------------------------------------------
(* handleReInit and init.                                                   *)

ReInitTop == Unready("reinit", "init")

(* Any call of init fails, with the connection open or because it is closed. *)
InitFails ==
  /\ LoopGoes("init", "initDelay")
  /\ IF Connected THEN Fault ELSE UNCHANGED faults
  /\ UNCHANGED <<netVars, isReady, closeVars>>

(* The channel is open and confirming, the queue is declared, and            *)
(* changeChannel installs the channel.                                       *)
InitSucceeds ==
  /\ LoopGoes("init", "installed")
  /\ Connected
  /\ chanOpen' = TRUE
  /\ UNCHANGED <<connection, openConns, isReady, closeVars, faults>>

(* The end of init: isReady = true under the mutex. *)
BecomeReady ==
  /\ LoopGoes("installed", "serve")
  /\ mutex = None
  /\ isReady' = TRUE
  /\ UNCHANGED <<netVars, closeVars, faults>>

InitDelayWakes ==
  /\ LoopGoes("initDelay", "reinit")
  /\ UNCHANGED <<netVars, isReady, closeVars, faults>>

(* The two selects of handleReInit have these cases in common. *)
SelectDone ==
  /\ lpc \in {"initDelay", "serve"}
  /\ lpc' = "exited"
  /\ doneClosed
  /\ UNCHANGED <<netVars, isReady, closeVars, faults>>

SelectConnClosed ==
  /\ lpc \in {"initDelay", "serve"}
  /\ lpc' = "top"
  /\ ~Connected
  /\ UNCHANGED <<netVars, isReady, closeVars, faults>>

(* Mutant: a closed channel makes the client dial again. *)
RedialOnChanClosed ==
  /\ LoopGoes("serve", "top")
  /\ ~chanOpen
  /\ UNCHANGED <<netVars, isReady, closeVars, faults>>

(* Mutant: the close of the channel is not noticed. *)
IgnoreChanClosed ==
  /\ LoopGoes("serve", "serve")
  /\ ~chanOpen
  /\ UNCHANGED <<netVars, isReady, closeVars, faults>>

SelectChanClosed ==
  /\ LoopGoes("serve", "reinit")
  /\ ~chanOpen
  /\ UNCHANGED <<netVars, isReady, closeVars, faults>>

Loop ==
  \/ ReconnectTop \/ DialFails \/ DialSucceeds \/ RedialWakes \/ RedialDone
  \/ ReInitTop \/ InitFails \/ InitSucceeds \/ BecomeReady \/ InitDelayWakes
  \/ SelectDone \/ SelectConnClosed \/ SelectChanClosed

-----------------------------------------------------------------------------
(* The broker or the network closes the connection or the channel; the debug *)
(* helper Cc does the same from inside the process.                          *)

DropConnection ==
  /\ Connected
  /\ Fault
  /\ openConns' = openConns \ {connection}
  /\ chanOpen' = FALSE
  /\ UNCHANGED <<loopVars, connection, isReady, closeVars>>

DropChannel ==
  /\ chanOpen
  /\ Fault
  /\ chanOpen' = FALSE
  /\ UNCHANGED <<loopVars, connection, openConns, isReady, closeVars>>

-----------------------------------------------------------------------------
(* Close holds the mutex from its first line to its return.                 *)

Return(k, result) ==
  /\ cpc' = [cpc EXCEPT ![k] = result]
  /\ mutex' = None

CloseNotReady(k) ==
  /\ cpc[k] = "idle" /\ mutex = None
  /\ ~isReady
  /\ Return(k, "alreadyClosed")
  /\ UNCHANGED <<loopVars, netVars, isReady, doneClosed, faults>>

(* close(c.done) *)
CloseBegins(k) ==
  /\ cpc[k] = "idle" /\ mutex = None
  /\ isReady /\ ~doneClosed
  /\ doneClosed' = TRUE
  /\ mutex' = k
  /\ cpc' = [cpc EXCEPT ![k] = "channel"]
  /\ UNCHANGED <<loopVars, netVars, isReady, faults>>

(* close of a closed channel panics; the deferred unlock still runs. *)
ClosePanics(k) ==
  /\ cpc[k] = "idle" /\ mutex = None
  /\ isReady /\ doneClosed
  /\ Return(k, "panicked")
  /\ UNCHANGED <<loopVars, netVars, isReady, doneClosed, faults>>

(* c.channel.Close(): the channel is closed in any case. *)
CloseChannel(k) ==
  /\ cpc[k] = "channel"
  /\ chanOpen' = FALSE
  /\ \/ /\ cpc' = [cpc EXCEPT ![k] = "connection"]
        /\ UNCHANGED <<mutex, faults>>
     \/ /\ chanOpen
        /\ Fault
        /\ Return(k, "error")
  /\ UNCHANGED <<loopVars, connection, openConns, isReady, doneClosed>>

(* c.connection.Close(): the connection is closed in any case. *)
CloseConnection(k) ==
  /\ cpc[k] = "connection"
  /\ openConns' = openConns \ {connection}
  /\ chanOpen' = FALSE
  /\ \/ /\ Connected
        /\ cpc' = [cpc EXCEPT ![k] = "finish"]
        /\ UNCHANGED <<mutex, faults>>
     \/ /\ IF Connected THEN Fault ELSE UNCHANGED faults
        /\ Return(k, "error")
  /\ UNCHANGED <<loopVars, connection, isReady, doneClosed>>

(* Mutant: the result is returned with the mutex still locked. *)
CloseFinishesLocked(k) ==
  /\ cpc[k] = "finish"
  /\ isReady' = FALSE
  /\ cpc' = [cpc EXCEPT ![k] = "ok"]
  /\ UNCHANGED <<loopVars, netVars, mutex, doneClosed, faults>>

CloseFinishes(k) ==
  /\ cpc[k] = "finish"
  /\ isReady' = FALSE
  /\ Return(k, "ok")
  /\ UNCHANGED <<loopVars, netVars, doneClosed, faults>>

CloseCall(k) == CloseNotReady(k) \/ CloseBegins(k) \/ ClosePanics(k)
CloseStep(k) == CloseChannel(k) \/ CloseConnection(k) \/ CloseFinishes(k)

-----------------------------------------------------------------------------

Next ==
  \/ Loop
  \/ DropConnection \/ DropChannel
  \/ \E k \in Closer : CloseCall(k) \/ CloseStep(k)

Spec == Init /\ [][Next]_vars

(* The goroutines run, timers fire and I/O calls return.  Faults are bounded, *)
(* so the broker accepts the client in the end; nobody need call Close.  A     *)
(* select whose other case is a timer just set takes the case that is ready   *)
(* when it starts, so the timer does not win for ever against done or against *)
(* a closed connection: strong fairness of those cases.                       *)
FairSpec ==
  /\ Spec
  /\ WF_vars(Loop)
  /\ SF_vars(SelectDone \/ SelectConnClosed)
  /\ \A k \in Closer : WF_vars(CloseStep(k))

-----------------------------------------------------------------------------
(* Properties.                                                              *)

(* The client never has two connections open: every redial follows the end   *)
(* of the connection before it.                                              *)
OneConnection == Cardinality(openConns) <= 1 /\ openConns \subseteq {connection}

(* isReady is not left standing while the client dials or re-creates its     *)
(* channel: callers of Push and Consume are turned away meanwhile.           *)
NotReadyWhileConnecting == isReady => lpc \notin {"dial", "redial", "init", "initDelay"}

(* The client gets ready, again and again, whatever the broker does first,    *)
(* as long as nobody closes it.                                              *)
Recovers == (~isReady \/ ~chanOpen) ~> ((isReady /\ chanOpen) \/ doneClosed)

(* Once close(c.done) has happened the reconnect goroutine ends, also when    *)
(* it was in the middle of a redial.                                         *)
LoopEnds == doneClosed ~> lpc = "exited"

-----------------------------------------------------------------------------
(* What the source says and the code does not do (see the README).          *)

(* "Close will cleanly shut down the channel and connection" (amqp.go:562):   *)
(* when Close succeeded and the goroutine has ended, the client is not ready  *)
(* and no connection is open.                                                *)
ClosedForGood ==
  ((\E k \in Closer : cpc[k] = "ok") /\ lpc = "exited") => ~isReady /\ openConns = {}
=============================================================================
