--------------------------- MODULE RmqAutoConnect ---------------------------
(***************************************************************************)
(* rMqAutoConnect (rmq-autoconnect.go): a connection to RabbitMQ that a       *)
(* listener goroutine dials again when it is lost.  Every call of             *)
(* startConnection has a number, which is also that of the listener it leaves *)
(* behind and of the listener's context; nothing in the code keeps a service  *)
(* from starting again while a listener runs.  One goroutine calls stop, and  *)
(* queues may be declared at any time.                                        *)
(*                                                                         *)
(* Connections and notify channels are numbered as they are made; an AMQP     *)
(* channel has the number of its connection.  Of the client library this is    *)
(* used: NotifyClose registers a Go channel, which the library closes when    *)
(* the connection closes (at once when it is closed already), closing a Go    *)
(* channel twice panics, and a declaration that the broker refuses closes the *)
(* AMQP channel and leaves the connection open.  A failed dial changes        *)
(* nothing: connect sleeps and dials again, for ever and whatever stop says.  *)
(***************************************************************************)
EXTENDS Naturals, FiniteSets

CONSTANTS
  Queue,      \* the names that are declared
  Lists,      \* the sets of them that the service declares
  MaxStarts,  \* bound on calls of startConnection
  MaxFaults,  \* bound on outages, refused channels and refused declarations
  MaxDials    \* bound on connections: two listeners may dial against each other for ever

ASSUME ConstAssumption ==
  Lists \subseteq SUBSET Queue /\ MaxStarts \in Nat /\ MaxFaults \in Nat /\ MaxDials \in Nat

Start == 1 .. MaxStarts

VARIABLES
  pc,         \* where each call of startConnection is, and then its listener
  own,        \* newConn of the connect that is under way, or 0
  ctxOf,      \* the context the listener waits for, or 0
  chanOf,     \* the notify channel it waits for, or 0
  arguments,  \* what it read of declaredQueues before it took the mutex
  stopping,   \* stop waits for the listeners
  conn, ch,   \* r.conn and r.ch, 0 for nil
  usable,     \* r.ch was not closed by a refused declaration
  declared,   \* r.declaredQueues
  ctx,        \* r.ctxReconnect, whose cancel function is r.stopReconnect, 0 for nil
  notify,     \* r.notifCloseCh, 0 for nil
  made,       \* number of the last notify channel
  closed,     \* the notify channels that are closed
  watch,      \* what is registered, as <<listener, connection, notify channel>>
  cancelled,  \* the contexts that are cancelled
  dialled,    \* number of the last connection
  openConns,  \* the connections that are open
  queues,     \* the queues the broker has
  up,         \* the broker runs
  starts, faults,
  crashed,    \* a goroutine panicked, and with it the process
  \* History.
  channelFailed,  \* a channel was refused
  wanted,         \* what the service asked for with its last DeclareQueues
  failed,         \* the queues whose last declaration ended in an error
  raced,          \* that DeclareQueues came while a listener was about to declare
  settled,        \* no start was under way when stop was called
  quiet,          \* stop has returned from such a call, nothing started since
  overlapped      \* a start began while another, a listener or a stop was at work

localVars  == <<own, ctxOf, chanOf, arguments>>
clientVars == <<conn, ch, ctx>>
notifyVars == <<notify, made, closed, watch>>
queueVars  == <<declared, usable, queues, wanted, failed, raced>>
netVars    == <<dialled, openConns, up, faults>>
histVars   == <<channelFailed, settled, quiet, overlapped>>
vars == <<pc, localVars, stopping, clientVars, notifyVars, queueVars, netVars, histVars,
          cancelled, starts, crashed>>

GoroutinesOK ==
  /\ pc \in [Start -> {"none", "dial", "channel", "reconnect", "top", "wait", "redial",
                       "rechannel", "read", "declare", "renew", "done"}]
  /\ own \in [Start -> 0 .. dialled]
  /\ ctxOf \in [Start -> 0 .. MaxStarts] /\ chanOf \in [Start -> 0 .. made]
  /\ arguments \in [Start -> SUBSET Queue]
  /\ stopping \in BOOLEAN

ClientOK ==
  /\ dialled \in Nat /\ conn \in 0 .. dialled /\ ch \in 0 .. dialled
  /\ ctx \in 0 .. MaxStarts /\ cancelled \subseteq Start /\ starts \in 0 .. MaxStarts
  /\ made \in Nat /\ notify \in 0 .. made /\ usable \in BOOLEAN /\ declared \subseteq Queue

BrokerOK ==
  /\ openConns \subseteq 1 .. dialled /\ closed \subseteq 0 .. made
  /\ watch \subseteq Start \X (1 .. dialled) \X (0 .. made)
  /\ queues \subseteq Queue /\ faults \in 0 .. MaxFaults
  /\ up \in BOOLEAN /\ crashed \in BOOLEAN

HistoryOK ==
  /\ wanted \subseteq Queue /\ failed \subseteq Queue /\ raced \in BOOLEAN
  /\ channelFailed \in BOOLEAN /\ settled \in BOOLEAN /\ quiet \in BOOLEAN
  /\ overlapped \in BOOLEAN

TypeOK == GoroutinesOK /\ ClientOK /\ BrokerOK /\ HistoryOK

Init ==
  /\ pc = [s \in Start |-> "none"]
  /\ own = [s \in Start |-> 0] /\ ctxOf = [s \in Start |-> 0] /\ chanOf = [s \in Start |-> 0]
  /\ arguments = [s \in Start |-> {}]
  /\ stopping = FALSE
  /\ conn = 0 /\ ch = 0 /\ usable = TRUE /\ ctx = 0 /\ cancelled = {}
  /\ notify = 0 /\ made = 0 /\ closed = {} /\ watch = {}
  /\ declared = {} /\ queues = {} /\ wanted = {} /\ failed = {} /\ raced = FALSE
  /\ dialled = 0 /\ openConns = {} /\ up = TRUE /\ faults = 0
  /\ channelFailed = FALSE /\ settled = FALSE /\ quiet = FALSE /\ overlapped = FALSE
  /\ starts = 0 /\ crashed = FALSE

Running == ~crashed
Starting(s)  == pc[s] \in {"dial", "channel", "reconnect"}
Listening(s) == pc[s] \in {"top", "wait", "redial", "rechannel", "read", "declare", "renew"}

Goes(s, from, to) == Running /\ pc[s] = from /\ pc' = [pc EXCEPT ![s] = to]
Fault == faults < MaxFaults /\ faults' = faults + 1

(* The library closes the connections cs: every registration closes its notify     *)
(* channel, and a second time is a panic.                                          *)
CloseConns(cs) ==
  LET hit == {w \in watch : w[2] \in cs \cap openConns}
  IN /\ openConns' = openConns \ cs
     /\ watch' = watch \ hit
     /\ closed' = closed \cup {w[3] : w \in hit}
     /\ crashed' = \E w \in hit : w[3] \in closed \/ \E v \in hit \ {w} : v[3] = w[3]

-----------------------------------------------------------------------------
(* startConnection, and connect there and in the listener. *)

StartConnection(s) ==
  /\ Goes(s, "none", "dial")
  /\ s = starts + 1 /\ starts' = s
  /\ quiet' = FALSE
  /\ overlapped' = (overlapped \/ stopping \/ \E t \in Start : Starting(t) \/ Listening(t))
  /\ UNCHANGED <<localVars, stopping, clientVars, notifyVars, queueVars, netVars,
                 channelFailed, settled, cancelled, crashed>>

Dial(s) ==
  /\ Goes(s, "dial", "channel") \/ Goes(s, "redial", "rechannel")
  /\ up /\ dialled < MaxDials
  /\ dialled' = dialled + 1
  /\ openConns' = openConns \cup {dialled'}
  /\ own' = [own EXCEPT ![s] = dialled']
  /\ conn' = dialled'
  /\ UNCHANGED <<ctxOf, chanOf, arguments, stopping, ch, ctx, notifyVars, queueVars, up, faults,
                 histVars, cancelled, starts, crashed>>

OpenChannel(s) ==
  /\ Goes(s, "channel", "reconnect") \/ Goes(s, "rechannel", "read")
  /\ own[s] \in openConns
  /\ ch' = own[s] /\ usable' = TRUE
  /\ own' = [own EXCEPT ![s] = 0]
  /\ UNCHANGED <<ctxOf, chanOf, arguments, stopping, conn, ctx, notifyVars, declared, queues,
                 wanted, failed, raced, netVars, histVars, cancelled, starts, crashed>>

(* The connection is closed again and forgotten; connect returns the error. *)
ChannelFails(s) ==
  /\ Goes(s, "channel", "done") \/ Goes(s, "rechannel", "top")
  /\ IF own[s] \in openConns THEN Fault ELSE UNCHANGED faults
  /\ CloseConns({own[s]})
  /\ conn' = 0
  /\ own' = [own EXCEPT ![s] = 0]
  /\ channelFailed' = TRUE
  /\ UNCHANGED <<ctxOf, chanOf, arguments, stopping, ch, ctx, notify, made, queueVars, dialled,
                 up, settled, quiet, overlapped, cancelled, starts>>

-----------------------------------------------------------------------------
(* reconnect: the listener goroutine. *)

StartListener(s) ==
  /\ Goes(s, "reconnect", "top")
  /\ ctx' = s
  /\ IF notify = 0 THEN notify' = made + 1 /\ made' = made + 1 ELSE UNCHANGED <<notify, made>>
  /\ UNCHANGED <<localVars, stopping, conn, ch, closed, watch, queueVars, netVars, histVars,
                 cancelled, starts, crashed>>

(* With no connection the listener only polls, every 50 ms, until it is stopped. *)
Listen(s) ==
  /\ Goes(s, "top", "wait")
  /\ conn # 0
  /\ ctxOf' = [ctxOf EXCEPT ![s] = ctx] /\ chanOf' = [chanOf EXCEPT ![s] = notify]
  /\ IF conn \in openConns
       THEN watch' = watch \cup {<<s, conn, notify>>} /\ UNCHANGED <<closed, crashed>>
       ELSE closed' = closed \cup {notify} /\ crashed' = (notify \in closed) /\ UNCHANGED watch
  /\ UNCHANGED <<own, arguments, stopping, clientVars, notify, made, queueVars, netVars, histVars,
                 cancelled, starts>>

(* Leaving the select, the listener forgets what it waited for. *)
Awakes(s) ==
  /\ ctxOf' = [ctxOf EXCEPT ![s] = 0] /\ chanOf' = [chanOf EXCEPT ![s] = 0]
  /\ UNCHANGED <<own, arguments>>

(* Mutant: the listener looks at its context only while it polls. *)
StopsOnlyPolling(s) ==
  /\ conn = 0 /\ ctx \in cancelled /\ Goes(s, "top", "done")
  /\ Awakes(s)
  /\ UNCHANGED <<stopping, clientVars, notifyVars, queueVars, netVars, histVars,
                 cancelled, starts, crashed>>

ListenerStops(s) ==
  /\ \/ ctxOf[s] \in cancelled /\ Goes(s, "wait", "done")
     \/ conn = 0 /\ ctx \in cancelled /\ Goes(s, "top", "done")
  /\ Awakes(s)
  /\ UNCHANGED <<stopping, clientVars, notifyVars, queueVars, netVars, histVars,
                 cancelled, starts, crashed>>

(* resetLocked. *)
Reset ==
  /\ CloseConns({conn})
  /\ conn' = 0 /\ ch' = 0

(* Mutant: the pointers are cleared and the connection is left open. *)
ForgetConnection(s) ==
  /\ Goes(s, "wait", "redial")
  /\ chanOf[s] \in closed
  /\ conn' = 0 /\ ch' = 0
  /\ Awakes(s)
  /\ UNCHANGED <<stopping, ctx, notifyVars, queueVars, netVars, histVars, cancelled, starts, crashed>>

ConnectionLost(s) ==
  /\ Goes(s, "wait", "redial")
  /\ chanOf[s] \in closed
  /\ Reset
  /\ Awakes(s)
  /\ UNCHANGED <<stopping, ctx, notify, made, queueVars, dialled, up, faults, histVars,
                 cancelled, starts>>

(* r.declaredQueues is read without the mutex, as an argument. *)
ReadDeclared(s) ==
  /\ Goes(s, "read", "declare")
  /\ arguments' = [arguments EXCEPT ![s] = declared]
  /\ UNCHANGED <<own, ctxOf, chanOf, stopping, clientVars, notifyVars, queueVars, netVars,
                 histVars, cancelled, starts, crashed>>

ChannelWorks == usable /\ ch \in openConns

(* The body of DeclareQueues, under the mutex: the queues are recorded, then declared *)
(* one after the other up to the first error, which closes the channel.              *)
Declare(qs) ==
  /\ declared' = qs
  /\ \E done \in SUBSET qs :
       /\ done # {} => ChannelWorks
       /\ queues' = queues \cup done
       /\ failed' = qs \ done
       /\ IF ChannelWorks /\ done # qs THEN Fault /\ usable' = FALSE ELSE UNCHANGED <<faults, usable>>

(* Mutant: the listener forgets to declare the queues again. *)
SkipRedeclare(s) ==
  /\ Goes(s, "declare", "renew")
  /\ arguments' = [arguments EXCEPT ![s] = {}]
  /\ UNCHANGED <<own, ctxOf, chanOf, stopping, clientVars, notifyVars, queueVars, netVars,
                 histVars, cancelled, starts, crashed>>

(* An error is logged, and the listener goes on. *)
Redeclare(s) ==
  /\ Goes(s, "declare", "renew")
  /\ Declare(arguments[s])
  /\ arguments' = [arguments EXCEPT ![s] = {}]
  /\ UNCHANGED <<own, ctxOf, chanOf, stopping, clientVars, notifyVars, wanted, raced, dialled,
                 openConns, up, histVars, cancelled, starts, crashed>>

(* Mutant: the closed notify channel is used again. *)
KeepNotify(s) ==
  /\ Goes(s, "renew", "top")
  /\ UNCHANGED <<localVars, stopping, clientVars, notifyVars, queueVars, netVars, histVars,
                 cancelled, starts, crashed>>

RenewNotify(s) ==
  /\ Goes(s, "renew", "top")
  /\ notify' = made + 1 /\ made' = made + 1
  /\ UNCHANGED <<localVars, stopping, clientVars, closed, watch, queueVars, netVars, histVars,
                 cancelled, starts, crashed>>

-----------------------------------------------------------------------------
(* DeclareQueues and stop, called by others. *)

DeclareQueues(qs) ==
  /\ Running
  /\ Declare(qs)
  /\ wanted' = qs
  /\ raced' = \E s \in Start : pc[s] = "declare"
  /\ UNCHANGED <<pc, localVars, stopping, clientVars, notifyVars, dialled, openConns, up,
                 histVars, cancelled, starts, crashed>>

Stop ==
  /\ Running /\ ~stopping
  /\ stopping' = TRUE
  /\ cancelled' = cancelled \cup ({ctx} \ {0})
  /\ settled' = \A s \in Start : ~Starting(s)
  /\ UNCHANGED <<pc, localVars, clientVars, notifyVars, queueVars, netVars, channelFailed, quiet,
                 overlapped, starts, crashed>>

(* Mutant: stop does not wait for the listeners. *)
StopAtOnce ==
  /\ Running /\ stopping
  /\ stopping' = FALSE
  /\ Reset
  /\ quiet' = settled
  /\ UNCHANGED <<pc, localVars, ctx, notify, made, queueVars, dialled, up, faults, channelFailed,
                 settled, overlapped, cancelled, starts>>

StopReturns ==
  /\ Running /\ stopping
  /\ \A s \in Start : ~Listening(s)
  /\ stopping' = FALSE
  /\ Reset
  /\ quiet' = settled
  /\ UNCHANGED <<pc, localVars, ctx, notify, made, queueVars, dialled, up, faults, channelFailed,
                 settled, overlapped, cancelled, starts>>

(* The second close of the notify channel may happen in stop, which recovers and *)
(* leaves the pointers as they are, instead of the library's reader.               *)
StopRecovers ==
  /\ Running /\ stopping
  /\ \A s \in Start : ~Listening(s)
  /\ \E w \in watch : w[2] = conn /\ w[3] \in closed
  /\ stopping' = FALSE
  /\ openConns' = openConns \ {conn}
  /\ watch' = {w \in watch : w[2] # conn}
  /\ UNCHANGED <<pc, localVars, clientVars, notify, made, closed, queueVars, dialled, up, faults,
                 histVars, cancelled, starts, crashed>>

-----------------------------------------------------------------------------
(* The broker and the network.  Its queues are not durable. *)

ConnectionBreaks ==
  /\ Running /\ openConns # {} /\ Fault
  /\ CloseConns(openConns)
  /\ UNCHANGED <<pc, localVars, stopping, clientVars, notify, made, queueVars, dialled, up,
                 histVars, cancelled, starts>>

BrokerStops ==
  /\ Running /\ up /\ Fault
  /\ up' = FALSE
  /\ queues' = {}
  /\ CloseConns(openConns)
  /\ UNCHANGED <<pc, localVars, stopping, clientVars, notify, made, declared, usable, wanted,
                 failed, raced, dialled, histVars, cancelled, starts>>

BrokerStarts ==
  /\ Running /\ ~up
  /\ up' = TRUE
  /\ UNCHANGED <<pc, localVars, stopping, clientVars, notifyVars, queueVars, dialled, openConns,
                 faults, histVars, cancelled, starts, crashed>>

Connect(s) == Dial(s) \/ OpenChannel(s) \/ ChannelFails(s)

(* What a goroutine does once startConnection was called. *)
Runs(s) ==
  \/ Connect(s) \/ StartListener(s)
  \/ Listen(s) \/ ListenerStops(s) \/ ConnectionLost(s)
  \/ ReadDeclared(s) \/ Redeclare(s) \/ RenewNotify(s)

Stopper == Stop \/ StopReturns \/ StopRecovers
Network == ConnectionBreaks \/ BrokerStops \/ BrokerStarts

Next ==
  \/ \E s \in Start : StartConnection(s) \/ Runs(s)
  \/ Stopper \/ Network
  \/ \E qs \in Lists : DeclareQueues(qs)

Spec == Init /\ [][Next]_vars

(* Goroutines run on, dials succeed while the broker runs, and it comes back. *)
FairSpec ==
  /\ Spec
  /\ \A s \in Start : WF_vars(Runs(s))
  /\ WF_vars(StopReturns \/ StopRecovers) /\ WF_vars(BrokerStarts)

-----------------------------------------------------------------------------
(* Properties.  Those that say ~overlapped speak of a service that starts again  *)
(* only when stop has returned or the last start has failed.                     *)

(* However starts, stops, losses and reconnects interleave, no second connection   *)
(* is open beside the one in use: resetLocked and the error path of connect close   *)
(* what they forget.                                                              *)
OneConnectionOpen == ~overlapped => Cardinality(openConns) <= 1

(* When a stop that overlapped no start has returned, the listener is gone and     *)
(* nothing is open, until the next start: stop waits for the listener, which may   *)
(* be dialling, before it closes.                                                  *)
NothingOpenAfterStop ==
  ~overlapped /\ quiet => conn = 0 /\ openConns = {} /\ \A s \in Start : ~Listening(s)

(* In a service that starts once, a listener that waits on an open connection has   *)
(* declared again every queue that the service asked for last, also after the       *)
(* broker lost them all; unless the declaration ended in an error, or the listener   *)
(* read the recorded queues before the service's call and declared them after it.    *)
QueuesFollow ==
  \A s \in Start :
    starts = 1 /\ pc[s] = "wait" /\ conn \in openConns /\ ~raced => wanted \ failed \subseteq queues

(* A notify channel is closed twice only in a client that is started again, also in  *)
(* order: reconnect keeps the channel that the library closed with the last          *)
(* connection.                                                                      *)
PanicsOnlyAfterRestart == crashed => starts > 1

(* A lost connection is replaced, unless a stop intervenes or a channel was refused *)
(* (then r.conn is nil and the listener polls for ever).                            *)
Recovers ==
  (starts = 1 /\ conn \notin openConns /\ \E s \in Start : pc[s] = "wait")
    ~> (ch \in openConns \/ cancelled # {} \/ channelFailed)

(* A stop that overlaps no start returns. *)
StopEnds == (stopping /\ settled) ~> (~stopping \/ crashed \/ overlapped)

-----------------------------------------------------------------------------
(* What fails (see the README). *)

(* The first property without its premise: a second start overwrites r.conn, and   *)
(* nobody closes the connection it held (rmq-autoconnect.go:115-117).              *)
NeverTwoConnections == Cardinality(openConns) <= 1

(* A stop returns whoever has started (182): the second start overwrites the cancel *)
(* function of the first listener, which then waits on for its connection.          *)
StopAlwaysEnds == (stopping /\ settled) ~> (~stopping \/ crashed)

(* Every queue the service asked for last is there again (rmq-autoconnect.go:269). *)
QueuesKept ==
  \A s \in Start :
    starts = 1 /\ pc[s] = "wait" /\ conn \in openConns => wanted \ failed \subseteq queues
=============================================================================
