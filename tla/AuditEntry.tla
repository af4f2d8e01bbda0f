----------------------------- MODULE AuditEntry -----------------------------
(***************************************************************************)
(* The calls by which a service leaves an audit record: LogAudittrail... (V1,  *)
(* a goroutine per call on the client of SetUpRabbitMq), ...V2 (the worker     *)
(* pool of SetUpAuditTrailPublisher, with V1 to fall back on),                 *)
(* LogAuditTrailTrx and LogTransactionTrace (a pool of their own, which may be *)
(* switched off), and the set-up of all three, which may be repeated.          *)
(*                                                                         *)
(* A publisher is taken for what AuditRelay says of it: it accepts a record or *)
(* drops it, and what it accepted is pushed or fails.  A publisher that was     *)
(* replaced keeps its workers; one that was stopped has closed its channel, and *)
(* a send on that panics.  A restarted process has lost all of this.            *)
(***************************************************************************)
EXTENDS Naturals

CONSTANTS
  Caller,       \* goroutines of the service
  MaxAttempts,  \* PushMaxRetries
  MaxCalls,     \* bound on calls
  MaxSetups,    \* bound on set-ups
  MaxLives      \* bound on the starts of the process

ASSUME ConstAssumption ==
  /\ {MaxCalls, MaxSetups} \subseteq Nat
  /\ {MaxAttempts, MaxLives} \subseteq Nat \ {0}

(* A record, in the nth attempt at its push. *)
Kind   == {"v1", "v2", "trx"}
Record == [call : Nat, kind : Kind, id : Nat, life : Nat, nth : Nat]

VARIABLES
  mqClient,    \* auditTrailMqClient: nil, or there and ready or not
  publisher,   \* auditPublisher, by its number; 0 is nil
  trxEnabled,  \* auditTrxEnabled
  trx,         \* auditTrxPublisher, by its number; 0 is nil
  made,        \* publishers made so far
  stopped,     \* those that were stopped
  counter,     \* auditIDCounter
  pc, record,  \* where each caller is, with which record
  target,      \* the publisher whose Submit it calls
  setup,       \* how far SetUpAuditTrailTrxPublisher is
  spawned,     \* V1 goroutines that have no id yet, by their call
  pending,     \* records that goroutines and buffers hold
  queues,      \* what reached RabbitMQ
  life, calls, setups,
  \* History.
  during       \* callers that passed the check for a trx publisher before it was taken away

clientVars == <<mqClient, publisher, made, stopped>>
trxVars    == <<trxEnabled, trx, setup, during>>
recordVars == <<spawned, pending, queues, counter>>
callVars   == <<pc, record, target, calls>>
vars == <<clientVars, trxVars, recordVars, callVars, life, setups>>

NoRecord == [call |-> 0, kind |-> "v1", id |-> 0, life |-> 1, nth |-> 1]

TypeOK ==
  /\ mqClient \in {"nil", "down", "ready"}
  /\ pc \in [Caller -> {"idle", "build", "submit", "send", "nil", "closed"}]
  /\ record \in [Caller -> Record] /\ target \in [Caller -> Nat]
  /\ setup \in {"idle", "enabling", "disabling"}
  /\ spawned \subseteq 1 .. MaxCalls
  /\ pending \subseteq Record /\ queues \subseteq Record
  /\ {publisher, trx, made, counter} \subseteq Nat /\ stopped \subseteq Nat
  /\ life \in 1 .. MaxLives
  /\ calls \in 0 .. MaxCalls /\ setups \in 0 .. MaxSetups
  /\ during \subseteq Caller
  /\ trxEnabled \in BOOLEAN

Init ==
  /\ mqClient = "nil" /\ publisher = 0 /\ made = 0 /\ stopped = {}
  /\ trxEnabled = FALSE /\ trx = 0 /\ setup = "idle"
  /\ counter = 0 /\ life = 1 /\ calls = 0 /\ setups = 0
  /\ pc = [c \in Caller |-> "idle"] /\ record = [c \in Caller |-> NoRecord]
  /\ target = [c \in Caller |-> 0]
  /\ spawned = {} /\ pending = {} /\ queues = {}
  /\ during = {}

(* A goroutine that panicked has brought the process down. *)
Running == \A c \in Caller : pc[c] \notin {"nil", "closed"}
Goes(c, from, to) == Running /\ pc[c] = from /\ pc' = [pc EXCEPT ![c] = to]
NewCall == calls < MaxCalls /\ calls' = calls + 1

-----------------------------------------------------------------------------
(* Set-up. *)

Setup == Running /\ setups < MaxSetups /\ setups' = setups + 1

SetUpRabbitMq ==
  /\ Setup
  /\ mqClient' = "down"
  /\ UNCHANGED <<publisher, made, stopped, trxVars, recordVars, callVars, life>>

(* The client connects, and loses its connection. *)
ClientChanges ==
  /\ Running /\ mqClient # "nil"
  /\ mqClient' \in {"down", "ready"}
  /\ UNCHANGED <<publisher, made, stopped, trxVars, recordVars, callVars, life, setups>>

SetUpAuditTrailPublisher ==
  /\ Setup
  /\ made' = made + 1 /\ publisher' = made'
  /\ UNCHANGED <<mqClient, stopped, trxVars, recordVars, callVars, life>>

(* SetUpAuditTrailTrxPublisher: the flag first, the publisher afterwards. *)
SetTrxEnabled(on) ==
  /\ Setup /\ setup = "idle"
  /\ trxEnabled' = on
  /\ setup' = IF on THEN "enabling" ELSE "disabling"
  /\ UNCHANGED <<clientVars, trx, during, recordVars, callVars, life>>

SetTrxPublisher ==
  /\ Running /\ setup # "idle" /\ setup' = "idle"
  /\ \/ /\ setup = "enabling"
        /\ made' = made + 1 /\ trx' = made'
        /\ UNCHANGED during
     \/ /\ setup = "disabling"
        /\ trx' = 0
        /\ during' = during \cup {c \in Caller : pc[c] # "idle" /\ record[c].kind = "trx"}
        /\ UNCHANGED made
  /\ UNCHANGED <<mqClient, publisher, stopped, trxEnabled, recordVars, callVars, life, setups>>

(* Stop of a publisher, which stays where it is; one that is in no variable any more   *)
(* counts as long as a caller holds it.                                                  *)
Stop ==
  /\ Running
  /\ \E p \in ({publisher, trx} \cup {target[c] : c \in Caller}) \ ({0} \cup stopped) :
       stopped' = stopped \cup {p}
  /\ UNCHANGED <<mqClient, publisher, made, trxVars, recordVars, callVars, life, setups>>

-----------------------------------------------------------------------------
(* The calls.  One with missing fields returns at once and is left out.     *)

(* LogAudittrailProcess and LogAudittrailData leave the rest to a goroutine. *)
LogV1(c) ==
  /\ Goes(c, "idle", "idle")
  /\ NewCall
  /\ spawned' = spawned \cup {calls'}
  /\ UNCHANGED <<clientVars, trxVars, pending, queues, counter, record, target, life, setups>>

Begin(c, kind) ==
  /\ Goes(c, "idle", "build")
  /\ NewCall
  /\ record' = [record EXCEPT ![c] =
       [call |-> calls', kind |-> kind, id |-> 0, life |-> life, nth |-> 1]]
  /\ UNCHANGED <<clientVars, trxVars, recordVars, target, life, setups>>

(* LogAudittrailProcessV2 and LogAudittrailDataV2. *)
LogV2(c) == IF publisher # 0 THEN Begin(c, "v2") ELSE LogV1(c)

(* Mutant: either of the two is enough. *)
LogTrxEither(c) == (trxEnabled \/ trx # 0) /\ Begin(c, "trx")

(* LogAuditTrailTrx and LogTransactionTrace do nothing unless both are there. *)
LogTrx(c) == trxEnabled /\ trx # 0 /\ Begin(c, "trx")

(* Mutant: the counter is loaded in one step and stored in another. *)
TakeStaleId(c) ==
  /\ \/ /\ Goes(c, "build", "build") /\ record[c].id = 0
        /\ record' = [record EXCEPT ![c].id = counter + 1]
        /\ UNCHANGED counter
     \/ /\ Goes(c, "build", "submit") /\ record[c].id # 0
        /\ counter' = record[c].id
        /\ UNCHANGED record
  /\ UNCHANGED <<clientVars, trxVars, spawned, pending, queues, calls, target, life, setups>>

(* nextAuditID, one atomic addition. *)
NextId(c) ==
  /\ Goes(c, "build", "submit")
  /\ counter' = counter + 1
  /\ record' = [record EXCEPT ![c].id = counter']
  /\ UNCHANGED <<clientVars, trxVars, spawned, pending, queues, calls, target, life, setups>>

(* The publisher is the one that the variable holds by now.  Submit on nil panics. *)
TakePublisher(c) ==
  LET p == IF record[c].kind = "trx" THEN trx ELSE publisher IN
  /\ Goes(c, "submit", IF p = 0 THEN "nil" ELSE "send")
  /\ target' = [target EXCEPT ![c] = p]
  /\ UNCHANGED <<clientVars, trxVars, recordVars, record, calls, life, setups>>

(* Submit drops or accepts, or panics on the closed channel of a stopped publisher; only *)
(* an open circuit breaker spares it the send.                                             *)
Submit(c) ==
  /\ \/ /\ target[c] \in stopped /\ Goes(c, "send", "closed")
        /\ UNCHANGED <<pending, record, target, during>>
     \/ /\ Goes(c, "send", "idle")
        /\ pending' \in {pending} \cup
             (IF target[c] \in stopped THEN {} ELSE {pending \cup {record[c]}})
        /\ record' = [record EXCEPT ![c] = NoRecord] /\ target' = [target EXCEPT ![c] = 0]
        /\ during' = during \ {c}
  /\ UNCHANGED <<clientVars, trxEnabled, trx, setup, spawned, queues, counter, calls,
                 life, setups>>

-----------------------------------------------------------------------------
(* The goroutines. *)

(* A V1 goroutine gets its id and looks for a client that is ready; without one the *)
(* record is dropped.  It keeps the client it found, whatever takes its place.          *)
V1Goroutine(n) ==
  /\ Running /\ n \in spawned
  /\ spawned' = spawned \ {n}
  /\ counter' = counter + 1
  /\ pending' = IF mqClient # "ready" THEN pending
                ELSE pending \cup {[call |-> n, kind |-> "v1", id |-> counter',
                                    life |-> life, nth |-> 1]}
  /\ UNCHANGED <<clientVars, trxVars, queues, callVars, life, setups>>

(* The push of a V1 goroutine, or of a worker on its publisher's own client: a publish  *)
(* that reaches the queue or not.  A worker is content with that; Push, in a V1          *)
(* goroutine, publishes again unless a confirmation says that it need not.                 *)
PushMessage(r) ==
  /\ Running /\ r \in pending
  /\ queues' \in {queues, queues \cup {r}}
  /\ \/ pending' = pending \ {r}
     \/ /\ r.kind = "v1" /\ r.nth < MaxAttempts
        /\ pending' = (pending \ {r}) \cup {[r EXCEPT !.nth = @ + 1]}
  /\ UNCHANGED <<clientVars, trxVars, spawned, counter, callVars, life, setups>>

(* The process ends, by a panic or otherwise, and starts again. *)
Restart ==
  /\ life < MaxLives /\ life' = life + 1
  /\ mqClient' = "nil" /\ publisher' = 0 /\ made' = 0 /\ stopped' = {}
  /\ trxEnabled' = FALSE /\ trx' = 0 /\ setup' = "idle"
  /\ counter' = 0 /\ spawned' = {} /\ pending' = {}
  /\ pc' = [c \in Caller |-> "idle"] /\ record' = [c \in Caller |-> NoRecord]
  /\ target' = [c \in Caller |-> 0]
  /\ during' = {}
  /\ UNCHANGED <<queues, calls, setups>>

Service(c) == LogV1(c) \/ LogV2(c) \/ LogTrx(c) \/ NextId(c) \/ TakePublisher(c) \/ Submit(c)

Next ==
  \/ SetUpRabbitMq \/ ClientChanges \/ SetUpAuditTrailPublisher
  \/ \E on \in BOOLEAN : SetTrxEnabled(on)
  \/ SetTrxPublisher \/ Stop
  \/ \E c \in Caller : Service(c)
  \/ \E n \in spawned : V1Goroutine(n)
  \/ \E r \in pending : PushMessage(r)
  \/ Restart

Spec == Init /\ [][Next]_vars

-----------------------------------------------------------------------------
(* Properties. *)

(* Two copies of one record: Push published it more than once. *)
Copies(r, s) ==
  /\ r.kind = "v1" /\ s.kind = "v1"
  /\ r.call = s.call /\ r.id = s.id /\ r.life = s.life

(* A call leaves one record at most, whatever it falls back on, of which only a V1 push *)
(* leaves copies; and no two records of one life of the process have the same id, though *)
(* callers, V1 goroutines and both pools draw from one counter.  (Over a restart ids do    *)
(* repeat.)                                                                                  *)
RecordedOnce ==
  \A r, s \in queues \cup pending :
    r # s => \/ Copies(r, s)
             \/ r.call # s.call /\ (r.life = s.life => r.id # s.id)

(* A service that audits may panic in two ways only: its transaction publisher is taken  *)
(* away between a call's check and its Submit, or the publisher that it submits to has    *)
(* been stopped.                                                                             *)
PanicsNeedDisableOrStop ==
  \A c \in Caller : /\ pc[c] = "nil" => c \in during
                    /\ pc[c] = "closed" => target[c] \in stopped

(* What the comment on LogTransactionTrace says, best-effort and non-blocking: it never *)
(* brings the service down.                                                               *)
BestEffort == Running

(* RecordedOnce without copies: what reached RabbitMQ is there once. *)
PublishedOnce == \A r, s \in queues : r # s => r.call # s.call
=============================================================================
