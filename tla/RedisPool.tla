------------------------------ MODULE RedisPool ------------------------------
(***************************************************************************)
(* The connection set-up of redis.go: the pool client in an atomic pointer,  *)
(* the mutex redisReconnectMu of its lazy reconnect, and redsync behind a    *)
(* sync.Once.  The functions call each other,                                *)
(*                                                                         *)
(*   InitializeRedisWithRetry -> initRedisClient -> InitRedSyncOnce            *)
(*   AcquireLock -> InitRedSyncOnce -> GetRedisPoolClient -> initRedisClient   *)
(*                                                                         *)
(* so each goroutine has a stack of the points it will return to.  Redis is  *)
(* up or down, and a ping tells which.  Clients are numbered in the order in *)
(* which they answered their ping; no client that did is ever closed.        *)
(***************************************************************************)
EXTENDS Naturals, Sequences

CONSTANTS
  Routine,        \* the goroutines
  Main,           \* the one that runs main()
  Scenarios,      \* how the service may be used: which functions each goroutine
                  \* calls, and whether Redis is up until main has initialised it
  None,           \* nobody
  MaxRetries,     \* option of InitializeRedisWithRetry
  MaxCalls,       \* bound on the calls of each goroutine
  MaxOutages      \* bound on the times Redis goes down

ASSUME ConstAssumption ==
  /\ Main \in Routine
  /\ None \notin Routine
  /\ Routine \cap {"new", "done"} = {}
  /\ Scenarios \subseteq [calls : [Routine -> SUBSET {"options", "pool", "sync"}],
                          upAtStart : BOOLEAN]
  /\ MaxRetries \in Nat \ {0}
  /\ MaxCalls \in Nat /\ MaxOutages \in Nat

VARIABLES
  scenario,
  options,    \* redisOptions is set
  client,     \* redisPoolClient, 0 for nil
  opened,     \* clients so far
  mutex,      \* who holds redisReconnectMu
  once,       \* redisSyncInitOnce: "new", "done", or who runs its function
  redisSync,  \* the client redsync uses, 0 for none
  syncErr,    \* redisSyncInitErr is not nil
  stack,      \* per goroutine: where it is, and where it returns to
  attempt,    \* attempts of its InitializeRedisWithRetry
  failed,     \* per goroutine: the last function it returned from gave an error
  got,        \* ... and the client GetRedisPoolClient returned
  calls,      \* calls it has made
  up,         \* Redis is up
  outages

configVars == <<options, client, opened>>
syncVars   == <<once, redisSync, syncErr>>
envVars    == <<scenario, calls, up, outages>>
vars == <<configVars, mutex, syncVars, stack, attempt, failed, got, envVars>>

(* "options", "pool" and "sync" are where InitializeRedisWithRetry,           *)
(* GetRedisPoolClient and InitRedSyncOnce begin.                              *)
Label == {"options", "attempt", "attempted", "ping", "refused", "answered", "synced",
          "pool", "lock", "check", "rebuilt", "sync", "onceDone"}

TypeOK ==
  /\ scenario \in Scenarios
  /\ options \in BOOLEAN
  /\ opened \in Nat
  /\ client \in 0 .. opened
  /\ mutex \in Routine \cup {None}
  /\ once \in {"new", "done"} \cup Routine
  /\ redisSync \in 0 .. opened
  /\ syncErr \in BOOLEAN
  /\ stack \in [Routine -> Seq(Label)]
  /\ attempt \in [Routine -> 0 .. MaxRetries]
  /\ failed \in [Routine -> BOOLEAN]
  /\ got \in [Routine -> 0 .. opened]
  /\ calls \in [Routine -> 0 .. MaxCalls]
  /\ up \in BOOLEAN
  /\ outages \in 0 .. MaxOutages

Init ==
  /\ scenario \in Scenarios
  /\ options = FALSE
  /\ client = 0 /\ opened = 0
  /\ mutex = None
  /\ once = "new" /\ redisSync = 0 /\ syncErr = FALSE
  /\ stack = [g \in Routine |-> <<>>]
  /\ attempt = [g \in Routine |-> 0]
  /\ failed = [g \in Routine |-> FALSE]
  /\ got = [g \in Routine |-> 0]
  /\ calls = [g \in Routine |-> 0]
  /\ up = scenario.upAtStart
  /\ outages = 0

-----------------------------------------------------------------------------
(* Control flow.                                                            *)

At(g, label) == stack[g] # <<>> /\ Head(stack[g]) = label

Goto(g, label) == stack' = [stack EXCEPT ![g] = <<label>> \o Tail(@)]

(* Call a function at its first label, to come back at another. *)
Invoke(g, function, back) == stack' = [stack EXCEPT ![g] = <<function, back>> \o Tail(@)]

Return(g, err) ==
  /\ stack' = [stack EXCEPT ![g] = Tail(@)]
  /\ failed' = [failed EXCEPT ![g] = err]

(* main has made its one call: the service serves.  The quick set-up of       *)
(* docs/redis-integration.md initialises Redis before that.                    *)
Serving == calls[Main] > 0 /\ stack[Main] = <<>>

Begin(g, function) ==
  /\ stack[g] = <<>>
  /\ calls[g] < MaxCalls
  /\ function \in scenario.calls[g]
  /\ IF g = Main THEN calls[g] = 0 ELSE Serving
  /\ stack' = [stack EXCEPT ![g] = <<function>>]
  /\ calls' = [calls EXCEPT ![g] = @ + 1]
  /\ UNCHANGED <<configVars, mutex, syncVars, attempt, failed, got, scenario, up, outages>>

-----------------------------------------------------------------------------
(* InitializeRedisWithRetry; GetRedisClient is the same with one attempt.    *)
(* FailFast only decides whether the caller sees the error.                   *)

InitRedisOptions(g) ==
  /\ At(g, "options")
  /\ options' = TRUE
  /\ attempt' = [attempt EXCEPT ![g] = 0]
  /\ Goto(g, "attempt")
  /\ UNCHANGED <<client, opened, mutex, syncVars, failed, got, envVars>>

Attempt(g) ==
  /\ At(g, "attempt")
  /\ attempt' = [attempt EXCEPT ![g] = @ + 1]
  /\ Invoke(g, "ping", "attempted")
  /\ UNCHANGED <<configVars, mutex, syncVars, failed, got, envVars>>

(* Mutant: one attempt too many. *)
AttemptedOnceMore(g) ==
  /\ At(g, "attempted")
  /\ IF failed[g] /\ attempt[g] <= MaxRetries
     THEN Goto(g, "attempt") /\ UNCHANGED failed
     ELSE Return(g, failed[g])
  /\ UNCHANGED <<configVars, mutex, syncVars, attempt, got, envVars>>

Attempted(g) ==
  /\ At(g, "attempted")
  /\ IF failed[g] /\ attempt[g] < MaxRetries
     THEN Goto(g, "attempt") /\ UNCHANGED failed
     ELSE Return(g, failed[g])
  /\ UNCHANGED <<configVars, mutex, syncVars, attempt, got, envVars>>

-----------------------------------------------------------------------------
(* initRedisClient.                                                         *)

Ping(g) ==
  /\ At(g, "ping")
  /\ Goto(g, IF up THEN "answered" ELSE "refused")
  /\ UNCHANGED <<configVars, mutex, syncVars, attempt, failed, got, envVars>>

(* The failed client is closed, and the pointer cleared whoever set it. *)
StoreNil(g) ==
  /\ At(g, "refused")
  /\ client' = 0
  /\ Return(g, TRUE)
  /\ UNCHANGED <<options, opened, mutex, syncVars, attempt, got, envVars>>

(* The pointer is set, and InitRedSyncOnce called. *)
StoreClient(g) ==
  /\ At(g, "answered")
  /\ opened' = opened + 1
  /\ client' = opened + 1
  /\ Invoke(g, "sync", "synced")
  /\ UNCHANGED <<options, mutex, syncVars, attempt, failed, got, envVars>>

(* An error of InitRedSyncOnce is logged. *)
Synced(g) ==
  /\ At(g, "synced")
  /\ Return(g, FALSE)
  /\ UNCHANGED <<configVars, mutex, syncVars, attempt, got, envVars>>

-----------------------------------------------------------------------------
(* GetRedisPoolClient.                                                      *)

Load(g) == got' = [got EXCEPT ![g] = client]

(* No options, or the fast path, or on to the mutex. *)
GetRedisPoolClient(g) ==
  /\ At(g, "pool")
  /\ Load(g)
  /\ CASE ~options               -> Return(g, TRUE)
       [] options /\ client # 0  -> Return(g, FALSE)
       [] options /\ client = 0  -> Goto(g, "lock") /\ UNCHANGED failed
  /\ UNCHANGED <<configVars, mutex, syncVars, attempt, envVars>>

Lock(g) ==
  /\ At(g, "lock")
  /\ mutex = None
  /\ mutex' = g
  /\ Goto(g, "check")
  /\ UNCHANGED <<configVars, syncVars, attempt, failed, got, envVars>>

(* Mutant: no second look at the pointer under the mutex. *)
RebuildUnchecked(g) ==
  /\ At(g, "check")
  /\ Invoke(g, "ping", "rebuilt")
  /\ UNCHANGED <<configVars, mutex, syncVars, attempt, failed, got, envVars>>

DoubleCheck(g) ==
  /\ At(g, "check")
  /\ IF client # 0
     THEN Return(g, FALSE) /\ Load(g) /\ mutex' = None
     ELSE Invoke(g, "ping", "rebuilt") /\ UNCHANGED <<mutex, failed, got>>
  /\ UNCHANGED <<configVars, syncVars, attempt, envVars>>

(* Mutant: an error leaves the mutex locked. *)
RebuiltLocked(g) ==
  /\ At(g, "rebuilt")
  /\ mutex' = IF failed[g] THEN mutex ELSE None
  /\ Load(g)
  /\ Return(g, failed[g])
  /\ UNCHANGED <<configVars, syncVars, attempt, envVars>>

(* The pointer is loaded once more, and may be nil again. *)
Rebuilt(g) ==
  /\ At(g, "rebuilt")
  /\ mutex' = None
  /\ Load(g)
  /\ Return(g, failed[g])
  /\ UNCHANGED <<configVars, syncVars, attempt, envVars>>

-----------------------------------------------------------------------------
(* InitRedSyncOnce.  A Once makes its callers wait while the function runs,  *)
(* the goroutine that runs it included.                                      *)

(* Mutant: "initialised" is tested on redisSync, outside the Once. *)
SyncAnew(g) ==
  /\ At(g, "sync")
  /\ once \notin Routine
  /\ once' = g
  /\ Invoke(g, "pool", "onceDone")
  /\ UNCHANGED <<configVars, mutex, redisSync, syncErr, attempt, failed, got, envVars>>

InitRedSyncOnce(g) ==
  /\ At(g, "sync")
  /\ once \in {"new", "done"}
  /\ IF once = "done"
     THEN Return(g, syncErr) /\ UNCHANGED once
     ELSE Invoke(g, "pool", "onceDone") /\ once' = g /\ UNCHANGED failed
  /\ UNCHANGED <<configVars, mutex, redisSync, syncErr, attempt, got, envVars>>

OnceDone(g) ==
  /\ At(g, "onceDone")
  /\ syncErr' = failed[g]
  /\ redisSync' = IF failed[g] THEN redisSync ELSE got[g]
  /\ once' = "done"
  /\ Return(g, failed[g])
  /\ UNCHANGED <<configVars, mutex, attempt, got, envVars>>

-----------------------------------------------------------------------------

GoesDown ==
  /\ up /\ outages < MaxOutages
  /\ scenario.upAtStart => Serving
  /\ up' = FALSE
  /\ outages' = outages + 1
  /\ UNCHANGED <<configVars, mutex, syncVars, stack, attempt, failed, got, scenario, calls>>

ComesUp ==
  /\ ~up
  /\ up' = TRUE
  /\ UNCHANGED <<configVars, mutex, syncVars, stack, attempt, failed, got, scenario, calls,
                 outages>>

Step(g) ==
  \/ InitRedisOptions(g) \/ Attempt(g) \/ Attempted(g)
  \/ Ping(g) \/ StoreNil(g) \/ StoreClient(g) \/ Synced(g)
  \/ GetRedisPoolClient(g) \/ Lock(g) \/ DoubleCheck(g) \/ Rebuilt(g)
  \/ InitRedSyncOnce(g) \/ OnceDone(g)

Next ==
  \/ \E g \in Routine :
       Step(g) \/ \E function \in {"options", "pool", "sync"} : Begin(g, function)
  \/ GoesDown \/ ComesUp

Spec == Init /\ [][Next]_vars

(* Goroutines run, and every ping is answered or times out.  A goroutine that *)
(* waits for the mutex gets it in the end: sync.Mutex hands over in order     *)
(* after a millisecond.                                                       *)
FairSpec ==
  /\ Spec
  /\ \A g \in Routine : WF_vars(Step(g)) /\ SF_vars(Lock(g))

-----------------------------------------------------------------------------
(* Properties.                                                              *)

(* While only main initialises, requests that find no client and reconnect at *)
(* the same time open one client between them: a second one would replace the *)
(* first and leak its connections.                                            *)
LazyReconnectOpensOne ==
  (\A g \in Routine \ {Main} : "options" \notin scenario.calls[g]) => opened <= 1

(* The lazy reconnect and the Once are there so that any goroutine may call    *)
(* in (redis.go:32, 208-210, 537): no goroutine waits for the mutex it holds   *)
(* or for the Once whose function it is running.  In general it is not so (see *)
(* the README).                                                               *)
NobodyWaitsForItself ==
  \A g \in Routine : ~(At(g, "lock") /\ mutex = g) /\ ~(At(g, "sync") /\ once = g)

(* A service whose main initialised Redis and found it up can lock for ever:  *)
(* no outage and no failed re-initialisation makes InitRedSyncOnce return an  *)
(* error, and nobody waits for itself.                                        *)
LockingStaysAvailable ==
  scenario.upAtStart /\ scenario.calls[Main] = {"options"}
    => /\ once = "done" => ~syncErr /\ redisSync # 0
       /\ NobodyWaitsForItself

(* Every call returns: nobody waits for the mutex or the Once for ever. *)
CallsReturn == \A g \in Routine : (stack[g] # <<>>) ~> (stack[g] = <<>>)
=============================================================================
