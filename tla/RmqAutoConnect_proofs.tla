------------------------ MODULE RmqAutoConnect_proofs ------------------------
(***************************************************************************)
(* Theorems about RmqAutoConnect, for any queues and any bounds on starts,    *)
(* faults and connections.                                                    *)
(***************************************************************************)
EXTENDS RmqAutoConnect, FiniteSetTheorems, TLAPS

Busy(s) == Starting(s) \/ Listening(s)

(* What the first three invariants need: starts that follow one another, or only one. *)
Orderly == ~overlapped \/ starts <= 1

(* Who is at work: one start or listener at a time, whose context is the one in use   *)
(* and was cancelled only if somebody waits for it.                                     *)
WorkInv ==
  /\ \A s \in Start : pc[s] = "none" <=> s > starts
  /\ \A s \in Start : ~Listening(s) /\ pc[s] # "done" => s # ctx /\ s \notin cancelled
  /\ Orderly =>
       /\ \A s, t \in Start : Busy(s) /\ Busy(t) => s = t
       /\ \A s \in Start : Listening(s) => ctx = s
       /\ \A s \in Start : pc[s] = "wait" => ctxOf[s] = s
  /\ ~overlapped =>
       /\ \A s \in Start : Listening(s) /\ s \in cancelled => stopping
       /\ stopping /\ settled => \A s \in Start : ~Starting(s)

(* Only the connection in r.conn can be open, and none is when the next is dialled. *)
ConnectionInv ==
  /\ Orderly =>
       /\ openConns \subseteq {conn}
       /\ \A s \in Start : pc[s] \in {"dial", "redial"} => openConns = {}
       /\ \A s \in Start : pc[s] \in {"channel", "rechannel"} => own[s] # 0 /\ conn \in {0, own[s]}
       /\ starts = 0 => openConns = {}
  /\ ~overlapped =>
       /\ ~stopping /\ (\A s \in Start : ~Busy(s)) => openConns = {}
       /\ quiet => conn = 0 /\ openConns = {} /\ \A s \in Start : ~Busy(s)

(* Up to the first restart, a registered notify channel is open, and no other one is *)
(* registered when the listener begins to listen.                                       *)
NotifyInv ==
  starts <= 1 =>
    /\ ~crashed
    /\ \A w \in watch : w[2] \in openConns /\ w[3] \notin closed
    /\ \A v, w \in watch : v = w
    /\ \A s \in Start : pc[s] = "top" /\ conn # 0 => watch = {} /\ notify # 0 /\ notify \notin closed
    /\ \A s \in Start : pc[s] \in {"redial", "rechannel", "read", "declare", "renew"} => watch = {}
    /\ starts = 0 \/ (\E s \in Start : Starting(s)) => notify = 0 /\ watch = {}

(* Up to the first restart, a connection whose queues the listener is not about to   *)
(* declare has all that the service asked for last.                                     *)
QueueInv ==
  starts <= 1 =>
    /\ ~raced => declared = wanted
    /\ \A s \in Start : pc[s] = "declare" /\ ~raced => arguments[s] = wanted
    /\ starts = 0 \/ (\E s \in Start : pc[s] \in {"dial", "channel"}) => ch = 0 /\ wanted \subseteq failed
    /\ conn \in openConns /\ ~raced /\ (\A s \in Start : pc[s] \notin {"rechannel", "read", "declare"})
         => wanted \ failed \subseteq queues

USE DEF clientVars, queueVars, netVars, histVars, localVars, notifyVars

-----------------------------------------------------------------------------
(* Type correctness. *)

LEMMA Moves ==
  ASSUME TypeOK, NEW s \in Start, NEW from, NEW to, Goes(s, from, to)
  PROVE  /\ ~crashed /\ pc[s] = from /\ pc'[s] = to
         /\ \A t \in Start \ {s} : pc'[t] = pc[t]
  BY DEF Goes, Running, TypeOK, GoroutinesOK

LEMMA Bounds == MaxStarts \in Nat /\ MaxFaults \in Nat /\ Lists \subseteq SUBSET Queue
  BY ConstAssumption DEF ConstAssumption

(* Closing connections closes notify channels. *)
LEMMA CloseTypes ==
  ASSUME TypeOK, NEW cs, CloseConns(cs)
  PROVE  /\ openConns' \subseteq openConns /\ watch' \subseteq watch
         /\ closed' \subseteq 0 .. made /\ crashed' \in BOOLEAN
  BY DEF TypeOK, BrokerOK, CloseConns

LEMMA TypeInit == Init => TypeOK
<1> SUFFICES ASSUME Init PROVE TypeOK
  OBVIOUS
<1>1. 0 \in 0 .. MaxStarts /\ 0 \in 0 .. MaxFaults
  BY Bounds
<1>2. dialled \in Nat /\ conn \in 0 .. dialled /\ ch \in 0 .. dialled
  BY DEF Init
<1> QED
  BY <1>1, <1>2 DEF Init, TypeOK, GoroutinesOK, ClientOK, BrokerOK, HistoryOK, Start

LEMMA TypeStep == TypeOK /\ [Next]_vars => TypeOK'
<1> SUFFICES ASSUME TypeOK, [Next]_vars PROVE TypeOK'
  OBVIOUS
<1> USE Bounds DEF TypeOK
<1>1. ASSUME NEW s \in Start, StartConnection(s) PROVE TypeOK'
  <2>1. GoroutinesOK'
    BY <1>1 DEF Goes, StartConnection, GoroutinesOK, ClientOK, BrokerOK
  <2>2. ClientOK'
    BY <1>1 DEF Goes, StartConnection, Start, ClientOK
  <2>3. BrokerOK'
    BY <1>1 DEF Goes, StartConnection, GoroutinesOK, ClientOK, BrokerOK
  <2>4. HistoryOK'
    BY <1>1 DEF Goes, StartConnection, GoroutinesOK, ClientOK, HistoryOK
  <2> QED
    BY <2>1, <2>2, <2>3, <2>4
<1>2. ASSUME NEW s \in Start, Dial(s) PROVE TypeOK'
  <2>1. GoroutinesOK'
    BY <1>2 DEF Goes, Dial, GoroutinesOK, ClientOK, BrokerOK
  <2>2. ClientOK'
    BY <1>2 DEF Goes, Dial, GoroutinesOK, ClientOK, BrokerOK
  <2>3. BrokerOK'
    BY <1>2 DEF Goes, Dial, GoroutinesOK, ClientOK, BrokerOK
  <2>4. HistoryOK'
    BY <1>2 DEF Goes, Dial, GoroutinesOK, ClientOK, HistoryOK
  <2> QED
    BY <2>1, <2>2, <2>3, <2>4
<1>3. ASSUME NEW s \in Start, OpenChannel(s) PROVE TypeOK'
  <2>1. GoroutinesOK'
    BY <1>3 DEF Goes, OpenChannel, GoroutinesOK, ClientOK, BrokerOK
  <2>2. ClientOK'
    BY <1>3 DEF Goes, OpenChannel, GoroutinesOK, ClientOK, BrokerOK
  <2>3. BrokerOK'
    BY <1>3 DEF Goes, OpenChannel, GoroutinesOK, ClientOK, BrokerOK
  <2>4. HistoryOK'
    BY <1>3 DEF Goes, OpenChannel, GoroutinesOK, ClientOK, HistoryOK
  <2> QED
    BY <2>1, <2>2, <2>3, <2>4
<1>4. ASSUME NEW s \in Start, ChannelFails(s) PROVE TypeOK'
  <2>1. GoroutinesOK'
    BY <1>4 DEF Goes, ChannelFails, CloseConns, Fault, GoroutinesOK, ClientOK, BrokerOK
  <2>2. ClientOK'
    BY <1>4 DEF Goes, ChannelFails, CloseConns, Fault, GoroutinesOK, ClientOK, BrokerOK
  <2>3. BrokerOK'
    <3>1. faults' \in 0 .. MaxFaults
      BY <1>4 DEF ChannelFails, Fault, BrokerOK
    <3>2. /\ openConns' \subseteq openConns /\ watch' \subseteq watch
          /\ closed' \subseteq 0 .. made /\ crashed' \in BOOLEAN
      BY <1>4, CloseTypes DEF ChannelFails
    <3> QED
      BY <1>4, <3>1, <3>2 DEF ChannelFails, ClientOK, BrokerOK
  <2>4. HistoryOK'
    BY <1>4 DEF Goes, ChannelFails, CloseConns, Fault, GoroutinesOK, ClientOK, HistoryOK
  <2> QED
    BY <2>1, <2>2, <2>3, <2>4
<1>5. ASSUME NEW s \in Start, StartListener(s) PROVE TypeOK'
  <2>1. GoroutinesOK'
    BY <1>5 DEF Goes, StartListener, GoroutinesOK, ClientOK, BrokerOK
  <2>2. ClientOK'
    BY <1>5 DEF Goes, StartListener, Start, ClientOK
  <2>3. BrokerOK'
    BY <1>5 DEF Goes, StartListener, GoroutinesOK, ClientOK, BrokerOK
  <2>4. HistoryOK'
    BY <1>5 DEF Goes, StartListener, GoroutinesOK, ClientOK, HistoryOK
  <2> QED
    BY <2>1, <2>2, <2>3, <2>4
<1>6. ASSUME NEW s \in Start, Listen(s) PROVE TypeOK'
  <2>1. GoroutinesOK'
    BY <1>6 DEF Goes, Listen, GoroutinesOK, ClientOK, BrokerOK
  <2>2. ClientOK'
    BY <1>6 DEF Goes, Listen, GoroutinesOK, ClientOK, BrokerOK
  <2>3. BrokerOK'
    <3>1. Goes(s, "top", "wait") /\ conn # 0
      BY <1>6 DEF Listen
    <3>2. watch' \subseteq Start \X (1 .. dialled) \X (0 .. made)
      BY <1>6, <3>1 DEF Listen, ClientOK, BrokerOK
    <3>3. closed' \subseteq 0 .. made
      BY <1>6 DEF Listen, ClientOK, BrokerOK
    <3>4. crashed' \in BOOLEAN
      <4>1. CASE conn \in openConns
        BY <1>6, <4>1 DEF Listen, BrokerOK
      <4>2. CASE conn \notin openConns
        BY <1>6, <4>2 DEF Listen
      <4> QED
        BY <4>1, <4>2
    <3> QED
      BY <1>6, <3>2, <3>3, <3>4 DEF Listen, ClientOK, BrokerOK
  <2>4. HistoryOK'
    BY <1>6 DEF Goes, Listen, GoroutinesOK, ClientOK, HistoryOK
  <2> QED
    BY <2>1, <2>2, <2>3, <2>4
<1>7. ASSUME NEW s \in Start, ListenerStops(s) PROVE TypeOK'
  <2>1. GoroutinesOK'
    BY <1>7 DEF Goes, ListenerStops, Awakes, GoroutinesOK, ClientOK, BrokerOK
  <2>2. ClientOK'
    BY <1>7 DEF Goes, ListenerStops, Awakes, GoroutinesOK, ClientOK, BrokerOK
  <2>3. BrokerOK'
    BY <1>7 DEF Goes, ListenerStops, Awakes, GoroutinesOK, ClientOK, BrokerOK
  <2>4. HistoryOK'
    BY <1>7 DEF Goes, ListenerStops, Awakes, GoroutinesOK, ClientOK, HistoryOK
  <2> QED
    BY <2>1, <2>2, <2>3, <2>4
<1>8. ASSUME NEW s \in Start, ConnectionLost(s) PROVE TypeOK'
  <2>1. GoroutinesOK'
    BY <1>8 DEF Goes, ConnectionLost, Awakes, Reset, CloseConns, GoroutinesOK, ClientOK, BrokerOK
  <2>2. ClientOK'
    BY <1>8 DEF Goes, ConnectionLost, Awakes, Reset, CloseConns, GoroutinesOK, ClientOK, BrokerOK
  <2>3. BrokerOK'
    BY <1>8 DEF Goes, ConnectionLost, Awakes, Reset, CloseConns, GoroutinesOK, ClientOK, BrokerOK
  <2>4. HistoryOK'
    BY <1>8 DEF Goes, ConnectionLost, Awakes, Reset, CloseConns, GoroutinesOK, ClientOK, HistoryOK
  <2> QED
    BY <2>1, <2>2, <2>3, <2>4
<1>9. ASSUME NEW s \in Start, ReadDeclared(s) PROVE TypeOK'
  <2>1. GoroutinesOK'
    BY <1>9 DEF Goes, ReadDeclared, GoroutinesOK, ClientOK, BrokerOK
  <2>2. ClientOK'
    BY <1>9 DEF Goes, ReadDeclared, GoroutinesOK, ClientOK, BrokerOK
  <2>3. BrokerOK'
    BY <1>9 DEF Goes, ReadDeclared, GoroutinesOK, ClientOK, BrokerOK
  <2>4. HistoryOK'
    BY <1>9 DEF Goes, ReadDeclared, GoroutinesOK, ClientOK, HistoryOK
  <2> QED
    BY <2>1, <2>2, <2>3, <2>4
<1>10. ASSUME NEW s \in Start, Redeclare(s) PROVE TypeOK'
  <2>1. GoroutinesOK'
    BY <1>10 DEF Goes, Redeclare, Declare, Fault, GoroutinesOK, ClientOK, BrokerOK
  <2>2. ClientOK'
    BY <1>10 DEF Goes, Redeclare, Declare, Fault, GoroutinesOK, ClientOK, BrokerOK
  <2>3. BrokerOK'
    BY <1>10 DEF Goes, Redeclare, Declare, Fault, GoroutinesOK, ClientOK, BrokerOK
  <2>4. HistoryOK'
    BY <1>10 DEF Goes, Redeclare, Declare, Fault, GoroutinesOK, ClientOK, HistoryOK
  <2> QED
    BY <2>1, <2>2, <2>3, <2>4
<1>11. ASSUME NEW s \in Start, RenewNotify(s) PROVE TypeOK'
  <2>1. GoroutinesOK'
    BY <1>11 DEF Goes, RenewNotify, GoroutinesOK, ClientOK, BrokerOK
  <2>2. ClientOK'
    BY <1>11 DEF Goes, RenewNotify, GoroutinesOK, ClientOK, BrokerOK
  <2>3. BrokerOK'
    BY <1>11 DEF Goes, RenewNotify, GoroutinesOK, ClientOK, BrokerOK
  <2>4. HistoryOK'
    BY <1>11 DEF Goes, RenewNotify, GoroutinesOK, ClientOK, HistoryOK
  <2> QED
    BY <2>1, <2>2, <2>3, <2>4
<1>12. ASSUME NEW qs \in Lists, DeclareQueues(qs) PROVE TypeOK'
  <2>1. GoroutinesOK'
    BY <1>12 DEF Goes, DeclareQueues, Declare, Fault, Running, GoroutinesOK, ClientOK, BrokerOK
  <2>2. ClientOK'
    BY <1>12 DEF Goes, DeclareQueues, Declare, Fault, Running, GoroutinesOK, ClientOK, BrokerOK
  <2>3. BrokerOK'
    BY <1>12 DEF Goes, DeclareQueues, Declare, Fault, Running, GoroutinesOK, ClientOK, BrokerOK
  <2>4. HistoryOK'
    BY <1>12 DEF Goes, DeclareQueues, Declare, Fault, Running, GoroutinesOK, ClientOK, HistoryOK
  <2> QED
    BY <2>1, <2>2, <2>3, <2>4
<1>13. ASSUME Stop PROVE TypeOK'
  <2>1. GoroutinesOK'
    BY <1>13 DEF Goes, Stop, Running, GoroutinesOK, ClientOK, BrokerOK
  <2>2. ClientOK'
    BY <1>13 DEF Stop, Start, ClientOK
  <2>3. BrokerOK'
    BY <1>13 DEF Goes, Stop, Running, GoroutinesOK, ClientOK, BrokerOK
  <2>4. HistoryOK'
    BY <1>13 DEF Goes, Stop, Running, GoroutinesOK, ClientOK, HistoryOK
  <2> QED
    BY <2>1, <2>2, <2>3, <2>4
<1>14. ASSUME StopReturns PROVE TypeOK'
  <2>1. GoroutinesOK'
    BY <1>14 DEF Goes, StopReturns, Reset, CloseConns, Running, GoroutinesOK, ClientOK, BrokerOK
  <2>2. ClientOK'
    BY <1>14 DEF Goes, StopReturns, Reset, CloseConns, Running, GoroutinesOK, ClientOK, BrokerOK
  <2>3. BrokerOK'
    BY <1>14 DEF Goes, StopReturns, Reset, CloseConns, Running, GoroutinesOK, ClientOK, BrokerOK
  <2>4. HistoryOK'
    BY <1>14 DEF Goes, StopReturns, Reset, CloseConns, Running, GoroutinesOK, ClientOK, HistoryOK
  <2> QED
    BY <2>1, <2>2, <2>3, <2>4
<1>15. ASSUME StopRecovers PROVE TypeOK'
  <2>1. GoroutinesOK'
    BY <1>15 DEF Goes, StopRecovers, Running, GoroutinesOK, ClientOK, BrokerOK
  <2>2. ClientOK'
    BY <1>15 DEF Goes, StopRecovers, Running, GoroutinesOK, ClientOK, BrokerOK
  <2>3. BrokerOK'
    BY <1>15 DEF Goes, StopRecovers, Running, GoroutinesOK, ClientOK, BrokerOK
  <2>4. HistoryOK'
    BY <1>15 DEF Goes, StopRecovers, Running, GoroutinesOK, ClientOK, HistoryOK
  <2> QED
    BY <2>1, <2>2, <2>3, <2>4
<1>16. ASSUME ConnectionBreaks PROVE TypeOK'
  <2>1. GoroutinesOK'
    BY <1>16 DEF Goes, ConnectionBreaks, Fault, CloseConns, Running, GoroutinesOK, ClientOK,
       BrokerOK
  <2>2. ClientOK'
    BY <1>16 DEF Goes, ConnectionBreaks, Fault, CloseConns, Running, GoroutinesOK, ClientOK,
       BrokerOK
  <2>3. BrokerOK'
    <3>1. faults' \in 0 .. MaxFaults
      BY <1>16 DEF ConnectionBreaks, Fault, BrokerOK
    <3>2. /\ openConns' \subseteq openConns /\ watch' \subseteq watch
          /\ closed' \subseteq 0 .. made /\ crashed' \in BOOLEAN
      BY <1>16, CloseTypes DEF ConnectionBreaks
    <3> QED
      BY <1>16, <3>1, <3>2 DEF ConnectionBreaks, ClientOK, BrokerOK
  <2>4. HistoryOK'
    BY <1>16 DEF Goes, ConnectionBreaks, Fault, CloseConns, Running, GoroutinesOK, ClientOK,
       HistoryOK
  <2> QED
    BY <2>1, <2>2, <2>3, <2>4
<1>17. ASSUME BrokerStops PROVE TypeOK'
  <2>1. GoroutinesOK'
    BY <1>17 DEF Goes, BrokerStops, Fault, CloseConns, Running, GoroutinesOK, ClientOK, BrokerOK
  <2>2. ClientOK'
    BY <1>17 DEF Goes, BrokerStops, Fault, CloseConns, Running, GoroutinesOK, ClientOK, BrokerOK
  <2>3. BrokerOK'
    <3>1. faults' \in 0 .. MaxFaults
      BY <1>17 DEF BrokerStops, Fault, BrokerOK
    <3>2. /\ openConns' \subseteq openConns /\ watch' \subseteq watch
          /\ closed' \subseteq 0 .. made /\ crashed' \in BOOLEAN
      BY <1>17, CloseTypes DEF BrokerStops
    <3> QED
      BY <1>17, <3>1, <3>2 DEF BrokerStops, ClientOK, BrokerOK
  <2>4. HistoryOK'
    BY <1>17 DEF Goes, BrokerStops, Fault, CloseConns, Running, GoroutinesOK, ClientOK, HistoryOK
  <2> QED
    BY <2>1, <2>2, <2>3, <2>4
<1>18. ASSUME BrokerStarts PROVE TypeOK'
  <2>1. GoroutinesOK'
    BY <1>18 DEF Goes, BrokerStarts, Running, GoroutinesOK, ClientOK, BrokerOK
  <2>2. ClientOK'
    BY <1>18 DEF Goes, BrokerStarts, Running, GoroutinesOK, ClientOK, BrokerOK
  <2>3. BrokerOK'
    BY <1>18 DEF Goes, BrokerStarts, Running, GoroutinesOK, ClientOK, BrokerOK
  <2>4. HistoryOK'
    BY <1>18 DEF Goes, BrokerStarts, Running, GoroutinesOK, ClientOK, HistoryOK
  <2> QED
    BY <2>1, <2>2, <2>3, <2>4
<1>19. CASE UNCHANGED vars
  BY <1>19 DEF vars, GoroutinesOK, ClientOK, BrokerOK, HistoryOK
<1> QED
  BY <1>1, <1>2, <1>3, <1>4, <1>5, <1>6, <1>7, <1>8, <1>9, <1>10,
     <1>11, <1>12, <1>13, <1>14, <1>15, <1>16, <1>17, <1>18, <1>19
     DEF Next, Runs, Connect, Stopper, Network

(* The client keeps its types over starts, stops, losses and declarations. *)
THEOREM AutoConnectTypes == Spec => []TypeOK
  BY TypeInit, TypeStep, PTL DEF Spec

-----------------------------------------------------------------------------
(* One connection at a time, none after stop. *)

(* Most steps leave it open who is at work. *)
LEMMA WorkFrame ==
  ASSUME WorkInv, UNCHANGED <<starts, ctx, cancelled, overlapped, stopping, settled>>,
         \A t \in Start :
           /\ pc'[t] = "none" <=> pc[t] = "none"
           /\ Starting(t)' => Starting(t)
           /\ Listening(t)' => Listening(t)
           /\ pc[t] = "done" \/ Listening(t) => pc'[t] = "done" \/ Listening(t)'
           /\ pc'[t] = "wait" => ctxOf'[t] = ctx \/ (pc[t] = "wait" /\ ctxOf'[t] = ctxOf[t])
  PROVE  WorkInv'
<1>1. \A t \in Start : Busy(t)' => Busy(t)
  BY DEF Busy
<1>2. Orderly' => Orderly
  BY DEF Orderly
<1>3. /\ \A s \in Start : pc'[s] = "none" <=> s > starts'
      /\ \A s \in Start : ~Listening(s)' /\ pc'[s] # "done" => s # ctx' /\ s \notin cancelled'
  BY DEF WorkInv
<1>4. Orderly' =>
        /\ \A s, t \in Start : Busy(s)' /\ Busy(t)' => s = t
        /\ \A s \in Start : Listening(s)' => ctx' = s
  BY <1>1, <1>2 DEF WorkInv
<1>5. Orderly' => \A s \in Start : pc'[s] = "wait" => ctxOf'[s] = s
  BY <1>2 DEF WorkInv, Listening
<1>6. ~overlapped' =>
        /\ \A s \in Start : Listening(s)' /\ s \in cancelled' => stopping'
        /\ stopping' /\ settled' => \A s \in Start : ~Starting(s)'
  BY DEF WorkInv
<1> QED
  BY <1>3, <1>4, <1>5, <1>6 DEF WorkInv

LEMMA WorkStep == TypeOK /\ WorkInv /\ [Next]_vars => WorkInv'
<1> SUFFICES ASSUME TypeOK, WorkInv, [Next]_vars PROVE WorkInv'
  OBVIOUS
<1>1. ASSUME NEW s \in Start, StartConnection(s) PROVE WorkInv'
  <2>0. starts \in Nat /\ MaxStarts \in Nat
    BY Bounds DEF TypeOK, ClientOK
  <2>1. /\ pc[s] = "none" /\ pc'[s] = "dial" /\ \A t \in Start \ {s} : pc'[t] = pc[t]
        /\ s = starts + 1 /\ starts' = s
        /\ UNCHANGED <<ctx, cancelled, ctxOf, stopping, settled>>
    BY <1>1, Moves DEF StartConnection
  <2>2. overlapped' \/ (~overlapped /\ ~stopping /\ \A t \in Start : ~Busy(t))
    BY <1>1 DEF StartConnection, Busy
  <2>3. Orderly' => \A t \in Start \ {s} : ~Busy(t)'
    <3>1. CASE ~overlapped'
      BY <2>1, <2>2, <3>1 DEF Busy, Starting, Listening
    <3>2. CASE starts' <= 1
      <4>1. \A t \in Start \ {s} : t > starts
        BY <2>0, <2>1, <3>2 DEF Start
      <4> QED
        BY <2>1, <4>1 DEF WorkInv, Busy, Starting, Listening
    <3> QED
      BY <3>1, <3>2 DEF Orderly
  <2>4. /\ \A t \in Start : pc'[t] = "none" <=> t > starts'
        /\ \A t \in Start : ~Listening(t)' /\ pc'[t] # "done" => t # ctx' /\ t \notin cancelled'
    BY <2>0, <2>1 DEF WorkInv, Listening, Start
  <2>5. Orderly' =>
          /\ \A t, u \in Start : Busy(t)' /\ Busy(u)' => t = u
          /\ \A t \in Start : Listening(t)' => ctx' = t
          /\ \A t \in Start : pc'[t] = "wait" => ctxOf'[t] = t
    BY <2>1, <2>3 DEF Busy, Listening
  <2>6. ~overlapped' =>
          /\ \A t \in Start : Listening(t)' /\ t \in cancelled' => stopping'
          /\ stopping' /\ settled' => \A t \in Start : ~Starting(t)'
    BY <2>1, <2>2 DEF WorkInv, Busy, Listening
  <2> QED
    BY <2>4, <2>5, <2>6 DEF WorkInv
<1>2. ASSUME NEW s \in Start, Dial(s) PROVE WorkInv'
  BY <1>2, WorkFrame, Moves DEF Dial, Starting, Listening
<1>3. ASSUME NEW s \in Start, OpenChannel(s) PROVE WorkInv'
  BY <1>3, WorkFrame, Moves DEF OpenChannel, Starting, Listening
<1>4. ASSUME NEW s \in Start, ChannelFails(s) PROVE WorkInv'
  BY <1>4, WorkFrame, Moves DEF ChannelFails, CloseConns, Fault, Starting, Listening
<1>5. ASSUME NEW s \in Start, StartListener(s) PROVE WorkInv'
  <2>1. /\ pc[s] = "reconnect" /\ pc'[s] = "top" /\ \A t \in Start \ {s} : pc'[t] = pc[t]
        /\ ctx' = s /\ UNCHANGED <<starts, cancelled, ctxOf, stopping, settled, overlapped>>
    BY <1>5, Moves DEF StartListener
  <2>2. s \notin cancelled
    BY <2>1 DEF WorkInv, Listening
  <2>3. Orderly' <=> Orderly
    BY <2>1 DEF Orderly
  <2>4. Orderly => \A t \in Start \ {s} : ~Busy(t)
    BY <2>1 DEF WorkInv, Busy, Starting
  <2>5. /\ \A t \in Start : pc'[t] = "none" <=> t > starts'
        /\ \A t \in Start : ~Listening(t)' /\ pc'[t] # "done" => t # ctx' /\ t \notin cancelled'
    BY <2>1 DEF WorkInv, Listening
  <2>6. Orderly' =>
          /\ \A t, u \in Start : Busy(t)' /\ Busy(u)' => t = u
          /\ \A t \in Start : Listening(t)' => ctx' = t
          /\ \A t \in Start : pc'[t] = "wait" => ctxOf'[t] = t
    BY <2>1, <2>3, <2>4 DEF Busy, Starting, Listening
  <2>7. ~overlapped' =>
          /\ \A t \in Start : Listening(t)' /\ t \in cancelled' => stopping'
          /\ stopping' /\ settled' => \A t \in Start : ~Starting(t)'
    BY <2>1, <2>2 DEF WorkInv, Starting, Listening
  <2> QED
    BY <2>5, <2>6, <2>7 DEF WorkInv
<1>6. ASSUME NEW s \in Start, Listen(s) PROVE WorkInv'
  BY <1>6, WorkFrame, Moves DEF Listen, Starting, Listening, TypeOK, GoroutinesOK
<1>7. ASSUME NEW s \in Start, ListenerStops(s) PROVE WorkInv'
  BY <1>7, WorkFrame, Moves DEF ListenerStops, Awakes, Starting, Listening
<1>8. ASSUME NEW s \in Start, ConnectionLost(s) PROVE WorkInv'
  BY <1>8, WorkFrame, Moves DEF ConnectionLost, Awakes, Reset, CloseConns, Starting, Listening
<1>9. ASSUME NEW s \in Start, ReadDeclared(s) PROVE WorkInv'
  BY <1>9, WorkFrame, Moves DEF ReadDeclared, Starting, Listening
<1>10. ASSUME NEW s \in Start, Redeclare(s) PROVE WorkInv'
  BY <1>10, WorkFrame, Moves DEF Redeclare, Declare, Fault, Starting, Listening
<1>11. ASSUME NEW s \in Start, RenewNotify(s) PROVE WorkInv'
  BY <1>11, WorkFrame, Moves DEF RenewNotify, Starting, Listening
<1>12. ASSUME NEW qs \in Lists, DeclareQueues(qs) PROVE WorkInv'
  BY <1>12, WorkFrame, Moves DEF DeclareQueues, Declare, Fault, Running, Starting, Listening
<1>13. ASSUME Stop PROVE WorkInv'
  <2>1. /\ stopping' /\ cancelled' = cancelled \cup ({ctx} \ {0})
        /\ settled' = (\A t \in Start : ~Starting(t))
        /\ UNCHANGED <<pc, starts, ctx, ctxOf, overlapped>>
    BY <1>13 DEF Stop
  <2> QED
    BY <2>1 DEF WorkInv, Orderly, Busy, Starting, Listening
<1>14. ASSUME StopReturns PROVE WorkInv'
  <2>1. /\ ~stopping' /\ \A t \in Start : ~Listening(t)
        /\ UNCHANGED <<pc, starts, ctx, cancelled, ctxOf, settled, overlapped>>
    BY <1>14 DEF StopReturns
  <2> QED
    BY <2>1 DEF WorkInv, Orderly, Busy, Starting, Listening
<1>15. ASSUME StopRecovers PROVE WorkInv'
  <2>1. /\ ~stopping' /\ \A t \in Start : ~Listening(t)
        /\ UNCHANGED <<pc, starts, ctx, cancelled, ctxOf, settled, overlapped>>
    BY <1>15 DEF StopRecovers
  <2> QED
    BY <2>1 DEF WorkInv, Orderly, Busy, Starting, Listening
<1>16. ASSUME ConnectionBreaks PROVE WorkInv'
  BY <1>16, WorkFrame, Moves DEF ConnectionBreaks, Fault, CloseConns, Running, Starting, Listening
<1>17. ASSUME BrokerStops PROVE WorkInv'
  BY <1>17, WorkFrame, Moves DEF BrokerStops, Fault, CloseConns, Running, Starting, Listening
<1>18. ASSUME BrokerStarts PROVE WorkInv'
  BY <1>18, WorkFrame, Moves DEF BrokerStarts, Running, Starting, Listening
<1>19. CASE UNCHANGED vars
  BY <1>19, WorkFrame DEF vars, Starting, Listening
<1> QED
  BY <1>1, <1>2, <1>3, <1>4, <1>5, <1>6, <1>7, <1>8, <1>9, <1>10,
     <1>11, <1>12, <1>13, <1>14, <1>15, <1>16, <1>17, <1>18, <1>19
     DEF Next, Runs, Connect, Stopper, Network

LEMMA ConnectionStep == TypeOK /\ WorkInv /\ ConnectionInv /\ [Next]_vars => ConnectionInv'
<1> SUFFICES ASSUME TypeOK, WorkInv, ConnectionInv, [Next]_vars PROVE ConnectionInv'
  OBVIOUS
<1>1. ASSUME NEW s \in Start, StartConnection(s) PROVE ConnectionInv'
  <2>1. /\ pc[s] = "none" /\ pc'[s] = "dial" /\ \A t \in Start \ {s} : pc'[t] = pc[t]
        /\ s = starts + 1 /\ starts' = s /\ ~quiet'
        /\ UNCHANGED <<own, conn, openConns, stopping>>
    BY <1>1, Moves DEF StartConnection
  <2>2. overlapped' \/ (~overlapped /\ ~stopping /\ \A t \in Start : ~Busy(t))
    BY <1>1 DEF StartConnection, Busy
  <2>3. starts \in Nat
    BY DEF TypeOK, ClientOK
  <2>4. Orderly' => Orderly /\ openConns = {}
    <3>1. CASE ~overlapped'
      BY <2>2, <3>1 DEF ConnectionInv, Orderly
    <3>2. CASE starts' <= 1
      <4>1. starts = 0
        BY <2>1, <2>3, <3>2
      <4> QED
        BY <4>1 DEF ConnectionInv, Orderly
    <3> QED
      BY <3>1, <3>2 DEF Orderly
  <2>5. Orderly' =>
          /\ openConns' \subseteq {conn'}
          /\ \A t \in Start : pc'[t] \in {"dial", "redial"} => openConns' = {}
          /\ \A t \in Start : pc'[t] \in {"channel", "rechannel"} => own'[t] # 0 /\ conn' \in {0, own'[t]}
          /\ starts' = 0 => openConns' = {}
    BY <2>1, <2>4 DEF ConnectionInv
  <2>6. Busy(s)'
    BY <2>1 DEF Busy, Starting
  <2> QED
    BY <2>1, <2>5, <2>6 DEF ConnectionInv
<1>2. ASSUME NEW s \in Start, Dial(s) PROVE ConnectionInv'
  <2>1. /\ pc[s] \in {"dial", "redial"} /\ pc'[s] \in {"channel", "rechannel"}
        /\ \A t \in Start \ {s} : pc'[t] = pc[t]
    BY <1>2, Moves DEF Dial
  <2>2. /\ openConns' = openConns \cup {dialled + 1} /\ conn' = dialled + 1
        /\ own'[s] = dialled + 1 /\ \A t \in Start \ {s} : own'[t] = own[t]
        /\ UNCHANGED <<starts, stopping, quiet, overlapped>>
    BY <1>2 DEF Dial, TypeOK, GoroutinesOK
  <2>3. dialled + 1 # 0
    BY DEF TypeOK, ClientOK
  <2>4. Busy(s) /\ Busy(s)'
    BY <2>1 DEF Busy, Starting, Listening
  <2>5. Orderly => openConns = {} /\ starts # 0 /\ \A t \in Start \ {s} : ~Busy(t)
    <3>1. starts \in Nat /\ ~(s > starts)
      BY <2>1 DEF TypeOK, ClientOK, WorkInv
    <3>2. starts # 0
      BY <3>1 DEF Start
    <3> QED
      BY <2>1, <2>4, <3>2 DEF ConnectionInv, WorkInv
  <2>6. Orderly' =>
          /\ openConns' \subseteq {conn'}
          /\ \A t \in Start : pc'[t] \in {"dial", "redial"} => openConns' = {}
          /\ \A t \in Start : pc'[t] \in {"channel", "rechannel"} => own'[t] # 0 /\ conn' \in {0, own'[t]}
          /\ starts' = 0 => openConns' = {}
    BY <2>1, <2>2, <2>3, <2>5 DEF Orderly, Busy, Starting, Listening
  <2>7. quiet' => overlapped'
    BY <2>2, <2>4 DEF ConnectionInv
  <2> QED
    BY <2>4, <2>6, <2>7 DEF ConnectionInv
<1>3. ASSUME NEW s \in Start, OpenChannel(s) PROVE ConnectionInv'
  BY <1>3, Moves DEF OpenChannel, WorkInv, ConnectionInv, Starting, Listening, Busy, Orderly
<1>4. ASSUME NEW s \in Start, ChannelFails(s) PROVE ConnectionInv'
  <2>1. /\ pc[s] \in {"channel", "rechannel"} /\ pc'[s] \in {"done", "top"}
        /\ \A t \in Start \ {s} : pc'[t] = pc[t]
    BY <1>4, Moves DEF ChannelFails
  <2>2. /\ openConns' = openConns \ {own[s]} /\ conn' = 0
        /\ own'[s] = 0 /\ \A t \in Start \ {s} : own'[t] = own[t]
        /\ UNCHANGED <<starts, stopping, quiet, overlapped>>
    BY <1>4 DEF ChannelFails, CloseConns, TypeOK, GoroutinesOK
  <2>3. Busy(s)
    BY <2>1 DEF Busy, Starting, Listening
  <2>4. 0 \notin openConns
    BY DEF TypeOK, ClientOK, BrokerOK
  <2>5. Orderly => openConns' = {} /\ \A t \in Start \ {s} : ~Busy(t)
    BY <2>1, <2>2, <2>3, <2>4 DEF ConnectionInv, WorkInv
  <2>6. Orderly' =>
          /\ openConns' \subseteq {conn'}
          /\ \A t \in Start : pc'[t] \in {"dial", "redial"} => openConns' = {}
          /\ \A t \in Start : pc'[t] \in {"channel", "rechannel"} => own'[t] # 0 /\ conn' \in {0, own'[t]}
          /\ starts' = 0 => openConns' = {}
    BY <2>1, <2>2, <2>5 DEF Orderly, Busy, Starting, Listening
  <2>7. ~overlapped' => ~quiet' /\ openConns' = {}
    BY <2>2, <2>3, <2>5 DEF ConnectionInv, Orderly
  <2> QED
    BY <2>6, <2>7 DEF ConnectionInv
<1>5. ASSUME NEW s \in Start, StartListener(s) PROVE ConnectionInv'
  BY <1>5, Moves DEF StartListener, WorkInv, ConnectionInv, Starting, Listening, Busy, Orderly
<1>6. ASSUME NEW s \in Start, Listen(s) PROVE ConnectionInv'
  BY <1>6, Moves DEF Listen, WorkInv, ConnectionInv, Starting, Listening, Busy, Orderly
<1>7. ASSUME NEW s \in Start, ListenerStops(s) PROVE ConnectionInv'
  BY <1>7, Moves DEF ListenerStops, Awakes, WorkInv, ConnectionInv, Starting, Listening, Busy,
     Orderly
<1>8. ASSUME NEW s \in Start, ConnectionLost(s) PROVE ConnectionInv'
  BY <1>8, Moves DEF ConnectionLost, Awakes, Reset, CloseConns, WorkInv, ConnectionInv, Starting,
     Listening, Busy, Orderly
<1>9. ASSUME NEW s \in Start, ReadDeclared(s) PROVE ConnectionInv'
  BY <1>9, Moves DEF ReadDeclared, WorkInv, ConnectionInv, Starting, Listening, Busy, Orderly
<1>10. ASSUME NEW s \in Start, Redeclare(s) PROVE ConnectionInv'
  BY <1>10, Moves DEF Redeclare, Declare, Fault, WorkInv, ConnectionInv, Starting, Listening,
     Busy, Orderly
<1>11. ASSUME NEW s \in Start, RenewNotify(s) PROVE ConnectionInv'
  BY <1>11, Moves DEF RenewNotify, WorkInv, ConnectionInv, Starting, Listening, Busy, Orderly
<1>12. ASSUME NEW qs \in Lists, DeclareQueues(qs) PROVE ConnectionInv'
  BY <1>12, Moves DEF DeclareQueues, Declare, Fault, Running, WorkInv, ConnectionInv, Starting,
     Listening, Busy, Orderly
<1>13. ASSUME Stop PROVE ConnectionInv'
  BY <1>13, Moves DEF Stop, Running, WorkInv, ConnectionInv, Starting, Listening, Busy, Orderly
<1>14. ASSUME StopReturns PROVE ConnectionInv'
  BY <1>14, Moves DEF StopReturns, Reset, CloseConns, Running, WorkInv, ConnectionInv, Starting,
     Listening, Busy, Orderly
<1>15. ASSUME StopRecovers PROVE ConnectionInv'
  BY <1>15, Moves DEF StopRecovers, Running, WorkInv, ConnectionInv, Starting, Listening, Busy,
     Orderly
<1>16. ASSUME ConnectionBreaks PROVE ConnectionInv'
  BY <1>16, Moves DEF ConnectionBreaks, Fault, CloseConns, Running, WorkInv, ConnectionInv,
     Starting, Listening, Busy, Orderly
<1>17. ASSUME BrokerStops PROVE ConnectionInv'
  BY <1>17, Moves DEF BrokerStops, Fault, CloseConns, Running, WorkInv, ConnectionInv, Starting,
     Listening, Busy, Orderly
<1>18. ASSUME BrokerStarts PROVE ConnectionInv'
  BY <1>18, Moves DEF BrokerStarts, Running, WorkInv, ConnectionInv, Starting, Listening, Busy,
     Orderly
<1>19. CASE UNCHANGED vars
  BY <1>19 DEF vars, ConnectionInv, Starting, Listening, Busy, Orderly
<1> QED
  BY <1>1, <1>2, <1>3, <1>4, <1>5, <1>6, <1>7, <1>8, <1>9, <1>10,
     <1>11, <1>12, <1>13, <1>14, <1>15, <1>16, <1>17, <1>18, <1>19
     DEF Next, Runs, Connect, Stopper, Network

LEMMA ConnectionInvariant == Spec => [](TypeOK /\ WorkInv /\ ConnectionInv)
<1>1. Init => WorkInv /\ ConnectionInv
  BY Bounds DEF Init, WorkInv, ConnectionInv, Start, Starting, Listening, Busy, Orderly
<1>2. TypeOK /\ WorkInv /\ ConnectionInv /\ [Next]_vars => (TypeOK /\ WorkInv /\ ConnectionInv)'
  BY TypeStep, WorkStep, ConnectionStep
<1> QED
  BY <1>1, <1>2, TypeInit, PTL DEF Spec

(* However starts that follow one another, stops and reconnects interleave, no second *)
(* connection is open beside the one in use.                                             *)
THEOREM NeverTwoOpen == Spec => []OneConnectionOpen
<1>1. ConnectionInv => OneConnectionOpen
  <2> SUFFICES ASSUME ConnectionInv, ~overlapped PROVE Cardinality(openConns) <= 1
    BY DEF OneConnectionOpen
  <2>1. CASE openConns = {}
    BY <2>1, FS_EmptySet
  <2>2. CASE openConns = {conn}
    BY <2>2, FS_Singleton
  <2> QED
    BY <2>1, <2>2 DEF ConnectionInv, Orderly
<1> QED
  BY <1>1, ConnectionInvariant, PTL

(* A stop that overlapped no start leaves neither a connection nor a listener. *)
THEOREM StopCloses == Spec => []NothingOpenAfterStop
<1>1. ConnectionInv => NothingOpenAfterStop
  BY DEF ConnectionInv, NothingOpenAfterStop, Busy
<1> QED
  BY <1>1, ConnectionInvariant, PTL

-----------------------------------------------------------------------------
(* A service that starts once. *)

LEMMA NotifyStep == TypeOK /\ WorkInv /\ ConnectionInv /\ NotifyInv /\ [Next]_vars => NotifyInv'
<1> SUFFICES ASSUME TypeOK, WorkInv, ConnectionInv, NotifyInv, [Next]_vars PROVE NotifyInv'
  OBVIOUS
<1>1. ASSUME NEW s \in Start, StartConnection(s) PROVE NotifyInv'
  <2>1. /\ pc[s] = "none" /\ pc'[s] = "dial" /\ \A t \in Start \ {s} : pc'[t] = pc[t]
        /\ starts' = starts + 1
        /\ UNCHANGED <<crashed, watch, closed, notify, openConns, conn>>
    BY <1>1, Moves DEF StartConnection
  <2> SUFFICES ASSUME starts' <= 1 PROVE NotifyInv'
    BY DEF NotifyInv
  <2>2. starts = 0
    BY <2>1 DEF TypeOK, ClientOK
  <2>3. \A t \in Start : pc[t] = "none"
    BY <2>2 DEF WorkInv, Start
  <2> QED
    BY <2>1, <2>2, <2>3 DEF NotifyInv, Starting
<1>2. ASSUME NEW s \in Start, Dial(s) PROVE NotifyInv'
  BY <1>2, Moves DEF Dial, WorkInv, ConnectionInv, NotifyInv, Starting, Listening, Busy, Orderly
<1>3. ASSUME NEW s \in Start, OpenChannel(s) PROVE NotifyInv'
  BY <1>3, Moves DEF OpenChannel, WorkInv, ConnectionInv, NotifyInv, Starting, Listening, Busy,
     Orderly
<1>4. ASSUME NEW s \in Start, ChannelFails(s) PROVE NotifyInv'
  BY <1>4, Moves DEF ChannelFails, CloseConns, Fault, WorkInv, ConnectionInv, NotifyInv,
     Starting, Listening, Busy, Orderly
<1>5. ASSUME NEW s \in Start, StartListener(s) PROVE NotifyInv'
  <2>1. /\ pc[s] = "reconnect" /\ pc'[s] = "top" /\ \A t \in Start \ {s} : pc'[t] = pc[t]
        /\ IF notify = 0 THEN notify' = made + 1 ELSE notify' = notify
        /\ UNCHANGED <<crashed, watch, closed, openConns, conn, starts>>
    BY <1>5, Moves DEF StartListener
  <2> SUFFICES ASSUME starts <= 1 PROVE NotifyInv'
    BY <2>1 DEF NotifyInv
  <2>2. notify = 0 /\ watch = {}
    BY <2>1 DEF NotifyInv, Starting
  <2>3. made + 1 # 0 /\ made + 1 \notin closed
    BY DEF TypeOK, ClientOK, BrokerOK
  <2>4. \A t \in Start \ {s} : ~Busy(t)
    BY <2>1 DEF WorkInv, Busy, Starting, Orderly
  <2>5. starts # 0
    BY <2>1 DEF WorkInv, Start
  <2>6. \A t \in Start : ~Starting(t)'
    BY <2>1, <2>4 DEF Busy, Starting
  <2> QED
    BY <2>1, <2>2, <2>3, <2>4, <2>5, <2>6 DEF NotifyInv, Busy, Listening
<1>6. ASSUME NEW s \in Start, Listen(s) PROVE NotifyInv'
  <2>1. /\ pc[s] = "top" /\ pc'[s] = "wait" /\ \A t \in Start \ {s} : pc'[t] = pc[t]
        /\ conn # 0 /\ ~crashed /\ UNCHANGED <<conn, notify, openConns, starts>>
    BY <1>6, Moves DEF Listen
  <2>2. \/ /\ conn \in openConns /\ watch' = watch \cup {<<s, conn, notify>>}
           /\ UNCHANGED <<closed, crashed>>
        \/ /\ closed' = closed \cup {notify} /\ crashed' = (notify \in closed)
           /\ UNCHANGED watch
    BY <1>6 DEF Listen
  <2> SUFFICES ASSUME starts <= 1 PROVE NotifyInv'
    BY <2>1 DEF NotifyInv
  <2>3. watch = {} /\ notify \notin closed
    BY <2>1 DEF NotifyInv
  <2>4. \A t \in Start \ {s} : ~Busy(t)
    BY <2>1 DEF WorkInv, Busy, Listening, Orderly
  <2>5. /\ \A t \in Start : ~Starting(t)'
        /\ \A t \in Start : pc'[t] \notin {"top", "redial", "rechannel", "read", "declare", "renew"}
    BY <2>1, <2>4 DEF Busy, Starting, Listening
  <2>6. starts # 0
    BY <2>1 DEF WorkInv, Start
  <2>7. /\ ~crashed'
        /\ \A w \in watch' : w[2] \in openConns' /\ w[3] \notin closed'
        /\ \A v, w \in watch' : v = w
    <3>1. CASE conn \in openConns /\ watch' = watch \cup {<<s, conn, notify>>} /\ UNCHANGED <<closed, crashed>>
      <4>1. watch' = {<<s, conn, notify>>}
        BY <2>3, <3>1
      <4>2. <<s, conn, notify>>[2] = conn /\ <<s, conn, notify>>[3] = notify
        OBVIOUS
      <4>3. \A w \in watch' : w[2] = conn /\ w[3] = notify
        BY <4>1, <4>2
      <4> QED
        BY <2>1, <2>3, <3>1, <4>1, <4>3
    <3>2. CASE crashed' = (notify \in closed) /\ UNCHANGED watch
      BY <2>3, <3>2
    <3> QED
      BY <2>2, <3>1, <3>2
  <2> QED
    BY <2>1, <2>5, <2>6, <2>7 DEF NotifyInv
<1>7. ASSUME NEW s \in Start, ListenerStops(s) PROVE NotifyInv'
  BY <1>7, Moves DEF ListenerStops, Awakes, WorkInv, ConnectionInv, NotifyInv, Starting,
     Listening, Busy, Orderly
<1>8. ASSUME NEW s \in Start, ConnectionLost(s) PROVE NotifyInv'
  BY <1>8, Moves DEF ConnectionLost, Awakes, Reset, CloseConns, WorkInv, ConnectionInv,
     NotifyInv, Starting, Listening, Busy, Orderly
<1>9. ASSUME NEW s \in Start, ReadDeclared(s) PROVE NotifyInv'
  BY <1>9, Moves DEF ReadDeclared, WorkInv, ConnectionInv, NotifyInv, Starting, Listening, Busy,
     Orderly
<1>10. ASSUME NEW s \in Start, Redeclare(s) PROVE NotifyInv'
  BY <1>10, Moves DEF Redeclare, Declare, Fault, WorkInv, ConnectionInv, NotifyInv, Starting,
     Listening, Busy, Orderly
<1>11. ASSUME NEW s \in Start, RenewNotify(s) PROVE NotifyInv'
  <2>1. /\ pc[s] = "renew" /\ pc'[s] = "top" /\ \A t \in Start \ {s} : pc'[t] = pc[t]
        /\ notify' = made + 1
        /\ UNCHANGED <<crashed, watch, closed, openConns, conn, starts>>
    BY <1>11, Moves DEF RenewNotify
  <2> SUFFICES ASSUME starts <= 1 PROVE NotifyInv'
    BY <2>1 DEF NotifyInv
  <2>2. made + 1 # 0 /\ made + 1 \notin closed
    BY DEF TypeOK, ClientOK, BrokerOK
  <2>3. \A t \in Start \ {s} : ~Busy(t)
    BY <2>1 DEF WorkInv, Busy, Listening, Orderly
  <2>4. starts # 0 /\ \A t \in Start : ~Starting(t)'
    BY <2>1, <2>3 DEF WorkInv, Busy, Starting, Start
  <2>5. ~crashed /\ watch = {}
    BY <2>1 DEF NotifyInv
  <2> QED
    BY <2>1, <2>2, <2>3, <2>4, <2>5 DEF NotifyInv, Busy, Listening
<1>12. ASSUME NEW qs \in Lists, DeclareQueues(qs) PROVE NotifyInv'
  BY <1>12, Moves DEF DeclareQueues, Declare, Fault, Running, WorkInv, ConnectionInv, NotifyInv,
     Starting, Listening, Busy, Orderly
<1>13. ASSUME Stop PROVE NotifyInv'
  BY <1>13, Moves DEF Stop, Running, WorkInv, ConnectionInv, NotifyInv, Starting, Listening,
     Busy, Orderly
<1>14. ASSUME StopReturns PROVE NotifyInv'
  BY <1>14, Moves DEF StopReturns, Reset, CloseConns, Running, WorkInv, ConnectionInv, NotifyInv,
     Starting, Listening, Busy, Orderly
<1>15. ASSUME StopRecovers PROVE NotifyInv'
  BY <1>15, Moves DEF StopRecovers, Running, WorkInv, ConnectionInv, NotifyInv, Starting,
     Listening, Busy, Orderly
<1>16. ASSUME ConnectionBreaks PROVE NotifyInv'
  BY <1>16, Moves DEF ConnectionBreaks, Fault, CloseConns, Running, WorkInv, ConnectionInv,
     NotifyInv, Starting, Listening, Busy, Orderly
<1>17. ASSUME BrokerStops PROVE NotifyInv'
  BY <1>17, Moves DEF BrokerStops, Fault, CloseConns, Running, WorkInv, ConnectionInv, NotifyInv,
     Starting, Listening, Busy, Orderly
<1>18. ASSUME BrokerStarts PROVE NotifyInv'
  BY <1>18, Moves DEF BrokerStarts, Running, WorkInv, ConnectionInv, NotifyInv, Starting,
     Listening, Busy, Orderly
<1>19. CASE UNCHANGED vars
  BY <1>19 DEF vars, NotifyInv, Starting
<1> QED
  BY <1>1, <1>2, <1>3, <1>4, <1>5, <1>6, <1>7, <1>8, <1>9, <1>10,
     <1>11, <1>12, <1>13, <1>14, <1>15, <1>16, <1>17, <1>18, <1>19
     DEF Next, Runs, Connect, Stopper, Network

LEMMA QueueStep == TypeOK /\ WorkInv /\ ConnectionInv /\ QueueInv /\ [Next]_vars => QueueInv'
<1> SUFFICES ASSUME TypeOK, WorkInv, ConnectionInv, QueueInv, [Next]_vars PROVE QueueInv'
  OBVIOUS
<1>1. ASSUME NEW s \in Start, StartConnection(s) PROVE QueueInv'
  <2>1. /\ pc[s] = "none" /\ pc'[s] = "dial" /\ \A t \in Start \ {s} : pc'[t] = pc[t]
        /\ starts' = starts + 1
        /\ UNCHANGED <<raced, declared, wanted, failed, arguments, ch, conn, openConns, queues>>
    BY <1>1, Moves DEF StartConnection
  <2> SUFFICES ASSUME starts' <= 1 PROVE QueueInv'
    BY DEF QueueInv
  <2>2. starts = 0
    BY <2>1 DEF TypeOK, ClientOK
  <2>3. \A t \in Start : pc[t] = "none"
    BY <2>2 DEF WorkInv, Start
  <2> QED
    BY <2>1, <2>2, <2>3 DEF QueueInv
<1>2. ASSUME NEW s \in Start, Dial(s) PROVE QueueInv'
  BY <1>2, Moves DEF Dial, WorkInv, ConnectionInv, QueueInv, Starting, Listening, Busy, Orderly
<1>3. ASSUME NEW s \in Start, OpenChannel(s) PROVE QueueInv'
  BY <1>3, Moves DEF OpenChannel, WorkInv, ConnectionInv, QueueInv, Starting, Listening, Busy,
     Orderly
<1>4. ASSUME NEW s \in Start, ChannelFails(s) PROVE QueueInv'
  <2>1. /\ pc[s] \in {"channel", "rechannel"} /\ pc'[s] \in {"done", "top"}
        /\ \A t \in Start \ {s} : pc'[t] = pc[t]
    BY <1>4, Moves DEF ChannelFails
  <2>2. /\ conn' = 0 /\ openConns' = openConns \ {own[s]}
        /\ UNCHANGED <<raced, declared, wanted, failed, arguments, ch, queues, starts>>
    BY <1>4 DEF ChannelFails, CloseConns
  <2>3. conn' \notin openConns'
    BY <2>2 DEF TypeOK, ClientOK, BrokerOK
  <2> SUFFICES ASSUME starts <= 1 PROVE QueueInv'
    BY <2>2 DEF QueueInv
  <2>4. starts # 0
    BY <2>1 DEF WorkInv, Start
  <2>5. \A t \in Start \ {s} : ~Busy(t)
    BY <2>1 DEF WorkInv, Busy, Starting, Listening, Orderly
  <2> QED
    BY <2>1, <2>2, <2>3, <2>4, <2>5 DEF QueueInv, Busy, Starting, Listening
<1>5. ASSUME NEW s \in Start, StartListener(s) PROVE QueueInv'
  BY <1>5, Moves DEF StartListener, WorkInv, ConnectionInv, QueueInv, Starting, Listening, Busy,
     Orderly
<1>6. ASSUME NEW s \in Start, Listen(s) PROVE QueueInv'
  BY <1>6, Moves DEF Listen, WorkInv, ConnectionInv, QueueInv, Starting, Listening, Busy, Orderly
<1>7. ASSUME NEW s \in Start, ListenerStops(s) PROVE QueueInv'
  BY <1>7, Moves DEF ListenerStops, Awakes, WorkInv, ConnectionInv, QueueInv, Starting,
     Listening, Busy, Orderly
<1>8. ASSUME NEW s \in Start, ConnectionLost(s) PROVE QueueInv'
  BY <1>8, Moves DEF ConnectionLost, Awakes, Reset, CloseConns, WorkInv, ConnectionInv, QueueInv,
     Starting, Listening, Busy, Orderly
<1>9. ASSUME NEW s \in Start, ReadDeclared(s) PROVE QueueInv'
  <2>1. /\ pc[s] = "read" /\ pc'[s] = "declare" /\ \A t \in Start \ {s} : pc'[t] = pc[t]
        /\ arguments'[s] = declared /\ \A t \in Start \ {s} : arguments'[t] = arguments[t]
        /\ UNCHANGED <<raced, declared, wanted, failed, ch, conn, openConns, queues, starts>>
    BY <1>9, Moves DEF ReadDeclared, TypeOK, GoroutinesOK
  <2> QED
    BY <2>1 DEF QueueInv
<1>10. ASSUME NEW s \in Start, Redeclare(s) PROVE QueueInv'
  <2>1. /\ pc[s] = "declare" /\ pc'[s] = "renew" /\ \A t \in Start \ {s} : pc'[t] = pc[t]
        /\ \A t \in Start \ {s} : arguments'[t] = arguments[t]
        /\ UNCHANGED <<raced, wanted, ch, conn, openConns, starts>>
    BY <1>10, Moves DEF Redeclare, TypeOK, GoroutinesOK
  <2>2. PICK done \in SUBSET arguments[s] :
          /\ queues' = queues \cup done /\ failed' = arguments[s] \ done
          /\ declared' = arguments[s]
    BY <1>10 DEF Redeclare, Declare
  <2> SUFFICES ASSUME starts <= 1 PROVE QueueInv'
    BY <2>1 DEF QueueInv
  <2>3. ~raced => arguments[s] = wanted
    BY <2>1 DEF QueueInv
  <2>4. \A t \in Start \ {s} : ~Busy(t)
    BY <2>1 DEF WorkInv, Busy, Listening, Orderly
  <2>5. starts # 0
    BY <2>1 DEF WorkInv, Start
  <2> QED
    BY <2>1, <2>2, <2>3, <2>4, <2>5 DEF QueueInv, Busy, Starting, Listening
<1>11. ASSUME NEW s \in Start, RenewNotify(s) PROVE QueueInv'
  BY <1>11, Moves DEF RenewNotify, WorkInv, ConnectionInv, QueueInv, Starting, Listening, Busy,
     Orderly
<1>12. ASSUME NEW qs \in Lists, DeclareQueues(qs) PROVE QueueInv'
  <2>1. /\ declared' = qs /\ wanted' = qs
        /\ raced' = (\E t \in Start : pc[t] = "declare")
        /\ UNCHANGED <<pc, arguments, ch, conn, openConns, starts>>
    BY <1>12 DEF DeclareQueues, Declare
  <2>2. PICK done \in SUBSET qs :
          /\ queues' = queues \cup done /\ failed' = qs \ done
          /\ done # {} => ch \in openConns
    BY <1>12 DEF DeclareQueues, Declare, ChannelWorks
  <2>3. 0 \notin openConns
    BY DEF TypeOK, ClientOK, BrokerOK
  <2> QED
    BY <2>1, <2>2, <2>3 DEF QueueInv
<1>13. ASSUME Stop PROVE QueueInv'
  BY <1>13, Moves DEF Stop, Running, WorkInv, ConnectionInv, QueueInv, Starting, Listening, Busy,
     Orderly
<1>14. ASSUME StopReturns PROVE QueueInv'
  BY <1>14, Moves DEF StopReturns, Reset, CloseConns, Running, WorkInv, ConnectionInv, QueueInv,
     Starting, Listening, Busy, Orderly
<1>15. ASSUME StopRecovers PROVE QueueInv'
  BY <1>15, Moves DEF StopRecovers, Running, WorkInv, ConnectionInv, QueueInv, Starting,
     Listening, Busy, Orderly
<1>16. ASSUME ConnectionBreaks PROVE QueueInv'
  BY <1>16, Moves DEF ConnectionBreaks, Fault, CloseConns, Running, WorkInv, ConnectionInv,
     QueueInv, Starting, Listening, Busy, Orderly
<1>17. ASSUME BrokerStops PROVE QueueInv'
  BY <1>17, Moves DEF BrokerStops, Fault, CloseConns, Running, WorkInv, ConnectionInv, QueueInv,
     Starting, Listening, Busy, Orderly
<1>18. ASSUME BrokerStarts PROVE QueueInv'
  BY <1>18, Moves DEF BrokerStarts, Running, WorkInv, ConnectionInv, QueueInv, Starting,
     Listening, Busy, Orderly
<1>19. CASE UNCHANGED vars
  BY <1>19 DEF vars, QueueInv
<1> QED
  BY <1>1, <1>2, <1>3, <1>4, <1>5, <1>6, <1>7, <1>8, <1>9, <1>10,
     <1>11, <1>12, <1>13, <1>14, <1>15, <1>16, <1>17, <1>18, <1>19
     DEF Next, Runs, Connect, Stopper, Network

LEMMA FirstStartInvariant == Spec => [](NotifyInv /\ QueueInv)
<1>1. Init => NotifyInv /\ QueueInv
  BY DEF Init, NotifyInv, QueueInv, Starting
<1>2. /\ TypeOK /\ WorkInv /\ ConnectionInv /\ NotifyInv /\ QueueInv /\ [Next]_vars
      => (NotifyInv /\ QueueInv)'
  BY NotifyStep, QueueStep
<1> QED
  BY <1>1, <1>2, ConnectionInvariant, PTL DEF Spec

(* The notify channel is closed twice only in a client that was started again. *)
THEOREM PanicNeedsRestart == Spec => []PanicsOnlyAfterRestart
<1>1. TypeOK /\ NotifyInv => PanicsOnlyAfterRestart
  BY DEF TypeOK, ClientOK, NotifyInv, PanicsOnlyAfterRestart
<1> QED
  BY <1>1, ConnectionInvariant, FirstStartInvariant, PTL

(* Whatever the broker lost, a listener that waits on an open connection has declared *)
(* again every queue the service asked for last, but for those whose declaration ended *)
(* in an error, and unless the service's call raced with the listener's.                 *)
THEOREM QueuesRedeclared == Spec => []QueuesFollow
<1>1. TypeOK /\ WorkInv /\ QueueInv => QueuesFollow
  BY Bounds DEF TypeOK, ClientOK, WorkInv, QueueInv, QueuesFollow, Start, Listening, Busy, Orderly
<1> QED
  BY <1>1, ConnectionInvariant, FirstStartInvariant, PTL
=============================================================================
