# A verification project for paycloudhelper

paycloudhelper is a Go library that PayCloud services link into their
processes. It has no main program: `InitializeApp`-style calls set up package
globals (Redis, RabbitMQ, Sentry, tracing, logging), and from then on request
handlers, background goroutines and the libraries' callbacks use them
concurrently. What is hard about it is therefore not in any one function: it is
in goroutines that share a client, a flag, a map or a channel with few locks, in
connections that come and go, and in locks and messages that live in other
systems.

The modules here model those parts in TLA+, check them with TLC on small
instances, and prove the main invariants with TLAPS for all values of the
constants. File and line numbers refer to the library's sources.

## 1. Inventory

| Component | State | Operations | Depends on | What is hard |
|---|---|---|---|---|
| Audit publisher, `audittrail_publisher.go` | `msgChan`, `done`, `stopOnce`, WaitGroup, atomics `consecutiveFailures` and `circuitOpen` | Submit, Start, worker, processMessage, recordFailure, cooldownReset, Stop | AmqpClient | lock-free breaker; drain on Stop against late Submit |
| Audit trail builders, `audittrail*.go`, `transaction_trace*.go`, `json_codec.go` | clients and publishers in globals, `auditIDCounter` | LogAudittrail..., ...V2, LogAuditTrailTrx, LogTransactionTrace, SetUp... | publisher, or one goroutine per record that calls Push | plain and atomic globals set while others read them; fallbacks |
| AMQP client, `amqp.go` | `connection`, `channel`, three notify channels, `isReady` under `m`, `done` | handleReconnect, handleReInit, init, Push, UnsafePush, PushWithTTL, Consume, Close, Cc | RabbitMQ through amqp091 | broker failures in any state; Close against the loop; one confirmation channel for all |
| Distributed lock, `redis.go` 536-696, `mutex.go` | map of mutexes per process; the key in Redis | AcquireLock, ReleaseLock, ...WithRetry, StoreRedisWithLock | Redis through redsync | expiry, lost replies, crash, a map shared by all goroutines |
| Redis set-up, `redis.go` 72-366 | client pointer, options, `redisReconnectMu`, a `sync.Once` | InitializeRedisWithRetry, GetRedisClient, GetRedisPoolClient, InitRedSyncOnce | Redis | lazy reconnect; a Once whose function may come back to it |
| Redis store helpers, `redis.go` 368-535 | none | StoreRedis, GetRedis, DeleteRedis, TTL clamp | Redis set-up | TTL boundaries |
| Request guards, `idempotency-key.go`, `revoke-token.go`, `csrf.go` | keys in Redis | VerifIdemKey, RevokeToken, VerifCsrf | store helpers | look-up and store in two commands; stored before the handler runs |
| RabbitMQ auto-connect, `rmq-autoconnect.go`, `rmq.go` | connection, channel, stop and close channels | connect, listener, stop, reconnect | RabbitMQ | retries for ever; stop and restart |
| Legacy audit trail, `phaudittrailv0` | own connection and queue | startRQConnection, reset, PushMessage | RabbitMQ | loop after its retries are used up |
| Logging, `logger.go`, `phlogger` | sampler and limiter counters, hooks | log functions, Initialize... | Sentry hook | counters reset while counted; a fatal line ends the process; repeated set-up |
| Tracing, `phtrace` | Once, provider globals, `enabled`, instrument caches | Init, Shutdown, InjectAMQP, ExtractAMQP, histograms | OpenTelemetry | Init that fails half-way; overlapping Shutdowns; Init twice; a no-op cached for ever |
| Sentry, `sentry.go`, `phsentry` | client global, forwarding hooks | send functions, log hook, ConfigureLogForwarding | Sentry SDK, phlogger | hooks and client set up in any order |
| Configuration and health, `config.go`, `init.go`, `health.go`, `phhelper` | environment, app name | readers, health summary | all of the above | little state |
| `pcauth`, `phdb`, `phjson`, `validator.go`, `response.go` | none | conversions | | boundaries of pure functions |
| s3minio SDK, `sdk/` | none | helpers over a gRPC and an HTTP adapter | the object store service | lost and garbled replies; files that change while they are read; two adapters for one contract |

How the parts interact: request handlers call the audit builders, which call
`Submit` (V2) or start a goroutine that calls `Push` (V1); the publisher's workers
call `PushWithTTL`; both end at `AmqpClient.channel` and, in confirm mode, at the
one `notifyConfirm` of that client. Request guards and lock users call the Redis
helpers, all of which go through `GetRedisPoolClient`; the lock also goes through
`InitRedSyncOnce`, and the set-up calls that again. Every part logs through
`phlogger`, whose hooks call `phsentry`; message headers carry the trace that
`phtrace` puts there.

What makes each part correct:

* publisher: every accepted message is settled exactly once, Stop drains, the
  breaker opens in an outage, only then, and always closes again;
* AMQP client: one connection at a time, ready only while it serves, ready again
  after any failure, gone after Close; a Push ends in time and does not report a
  success without an acknowledgement;
* lock: mutual exclusion while locks are valid, nobody deletes another's lock;
* Redis set-up: one client for concurrent reconnects, locking that survives
  outages, no call that waits for ever;
* guards: nobody passes whom a guard had reason to stop all along, and a request
  is told "in process" only because of another of its key;
* auto-connect: with starts that follow one another, one connection, none after
  stop, the recorded queues declared again after a reconnect, no panic;
* audit calls: one record per call at most, whatever they fall back on, under an
  id of its own, and no harm to the service;
* logging and Sentry: no suppressed line lost from the count or counted twice,
  every line that is written an event while hook and client are set, the sampler
  that the service chose;
* tracing: nothing left open, nothing exported without the key or TLS that was
  asked for, no request that loses its trace;
* s3minio SDK: what a helper calls a success was done, unless the answer says
  nothing of it, and no file is stored short.

## 2. The modules

| Module | Models | Lines of Go |
|---|---|---|
| `AuditRelay` | abstract promise of the publisher | |
| `AuditPublisher` | the worker pool and breaker | audittrail_publisher.go 103-213 |
| `AuditPublisher_proofs` | theorems about it | |
| `AmqpClient` | reconnect loop and Close | amqp.go 181-417, 562-609 |
| `AmqpPush` | Push and PushWithTTL composed with `AmqpClient` (EXTENDS it) | amqp.go 411-498 |
| `Amqp_proofs` | theorems about both | |
| `LeaseLock` | abstract promise of the lock | |
| `RedisLock` | the lock with its map | redis.go 536-696, mutex.go |
| `RedisLock_proofs` | theorems about both | |
| `RedisPool` | client set-up, lazy reconnect, the Once | redis.go 72-366 |
| `RedisPool_proofs` | theorems about it | |
| `RequestGuards` | VerifCsrf, VerifIdemKey, RevokeToken in a chain | csrf.go, idempotency-key.go, revoke-token.go, redis.go 409-430 |
| `RmqAutoConnect` | the older client that dials again | rmq-autoconnect.go 40-280 |
| `RmqAutoConnect_proofs` | theorems about it | |
| `AuditEntry` | the audit calls and their set-up, over the promise of `AuditRelay` | audittrail.go, audittrail_v2.go, audittrail_trx.go, transaction_trace.go |
| `AuditEntry_proofs` | theorems about it | |
| `LogPipeline` | sampler, limiter, log calls, hooks, Sentry senders and their set-up | phlogger, phsentry, logger.go, init.go |
| `PhTrace` | Init, its configuration, Shutdown, the carriers | phtrace/phtrace.go, config.go, rmqprop.go |
| `Observability_proofs` | theorems about `PhTrace` and `LogPipeline` | |
| `S3Client` | the helpers over both adapters | sdk/services/s3minio |
| `Requests_proofs` | theorems about `RequestGuards` and `S3Client` | |
| `MC...` | model values and symmetry for TLC | |

Definitions named in a comment as `Mutant: ...` belong to no specification. Each is
a definition of the model changed the way a plausible mistake in the code would
change it, and each property has one that breaks it: it shows that the property
can fail.

### AuditPublisher

One message is one call of `Submit`; its `stage` says how far it has come.
`buffer` is the channel, `wpc` where each worker is between two atomic
operations, `cooling` and `closing` count the `cooldownReset` goroutines before and
between their two stores. Every atomic load, store, add, compare-and-swap and
channel operation is one action: `CheckCircuit` is line 135, the three `Send...`
actions are the select of 142-146, `AddFailure` and `TripCircuit` are the two halves
of recordFailure, `StopFirst`, `CloseDone`, `CloseMsgChan` and `WaitWorkers` are the
lines of Stop inside the Once. `CallStop` is any call of Stop, and `StopAgain` the end
of one that is not the first, which waits until the Once has run. What the AMQP client and the broker do appears as the four outcomes of
processMessage.

`AuditRelay` says what the pool promises its callers: a message is accepted or
refused, an accepted one is delivered or lost exactly once, nothing happens to a
message after stop, and (its fairness) every accepted message is settled. The
mapping is `Relay` at the end of `AuditPublisher`.

### AmqpClient and AmqpPush

`lpc` is where the goroutine handleReconnect is, across handleReInit and init;
connections are numbered, and `openConns` has those that are open. Go's select
takes any ready case, which here is one action per case; a timer is always
possibly ready. `Close` holds the mutex from its first line to its return
(`mutex`, `cpc`); the loop needs the same mutex to write `isReady`.

`AmqpPush` EXTENDS it. `ClientStep` is any step of the client together with what
it does to the channel: a new one has the next number `gen`, and a closed one
forgets what it was waiting to have confirmed. `ListenForConfirms` is the second
half of changeChannel, since a publisher may read `c.channel` new and
`c.notifyConfirm` old. A call passes `Begin` (the check in Push), `CheckReady`
(the check in PushWithTTL), `Publish`, `ReadConfirms` (the select evaluates
`c.notifyConfirm` once) and the cases of its selects. From the client library
only this is taken: confirmations are delivered in order by the reader of the
connection, which waits when notifyConfirm is full and reads nothing else
meanwhile. `buffer[g]` with a second entry is that waiting reader.

### RedisLock

One key. `owner` is its value in Redis, a handle `<<t, n>>` for the n-th lock of
thread t, as redsync draws a fresh value per lock. `mutexMap` is the map of mutex.go,
one per process. Threads in `KeyThread` use AcquireLock and ReleaseLock, which
know only the key; the others keep their mutex (AcquireLockWithRetry). The
sections of threads in `Slow` may outlast the TTL, so that their locks expire under
them; any other lock expires at any time at which nobody is in its section. A
reply of Redis may be lost after the command ran, and a process may crash and
restart with an empty map. `valid[t]` is a fact about time: t is in its section and
its lock has not expired. `crossed` is history: the threads that stored their mutex
between the UnlockContext and the RemoveMutex of another of their process, and so
lose the entry.

`LeaseLock` says what a lock with a lease promises, without map, mutexes and lost
replies: a lease is granted while none is out, never the same one twice, and from
then on it expires, or is given back when nobody relies on it. The mapping is
`Lease` at the end of `RedisLock`: the lease that is out is `owner`, those granted
are the handles up to each thread's `round`, and those who rely on theirs are the
threads that are `valid`.

### RedisPool

The functions call each other in a cycle, so each goroutine has a `stack` of
points it returns to. `client` is the atomic pointer, `mutex` is redisReconnectMu,
`once` the state of redisSyncInitOnce with the goroutine that runs its function.
A ping succeeds when Redis is up at that moment. `scenario` fixes which functions
each goroutine may call and whether Redis is up when the service starts.

### RequestGuards

The middlewares in front of a handler, in an order `chain` that the service
chooses; `pos` is how many of them a request has passed and `step` where it is in
the next, or the status it was answered with. Every Redis command is a step:
`VerifCsrf`, `RevokeToken` and `VerifIdemKey` are the look-ups with their decision.
`StoreKey` is the SET as Redis executes it, from when other requests find the key;
`StoreAnswered` is its answer and next(c), `StoreAnswerLost` the timeout instead, and
`StoreFails` a SET that was never executed. What a middleware refuses without
Redis is `ValidateHeader`, `ReadBody` and `ParseToken`. Others issue and withdraw the
CSRF token, revoke the merchant and let keys expire at any time. `barred` and `lost`
are history: the guards that had reason to stop a request without a break since
it arrived, and the requests whose SET was executed and not answered. All requests
share one session and one merchant, so that every change concerns all of them.
`SerialSpec` is the same service with patient clients: a request of a key comes
only when no other of that key is under way, and no key expires between the two.

### RmqAutoConnect

Nothing in the code keeps a service from calling startConnection while a listener
runs, and nothing does here. Every call has a number, which is also that of the
listener it leaves behind, and `pc[s]` says where either is; `connect` is `Dial`,
`OpenChannel` and `ChannelFails` in both. What they share are the fields of the
struct: `conn`, `ch`, `ctx` (the context whose cancel function is r.stopReconnect),
`notify` (notifCloseCh) and `declared`. What a listener has of its own are `own`
(newConn of its connect), `ctxOf` and `chanOf` (what it took for its select) and
`arguments`, since `ReadDeclared` reads `declaredQueues` before DeclareQueues takes the
mutex. `watch` is what is registered with the library: `CloseConns` closes the
notify channel of every registration, and says when that is a second time and a
panic; in stop that panic is recovered (`StopRecovers`). `Declare` is the body of
DeclareQueues: one queue after the other up to the first error, which closes the
channel (`usable`) and leaves the connection open; `failed` has what was not
declared then. The rest is history: `overlapped` says that a start began while
another, a listener or a stop was at work, `settled` that no start was under way
when stop was called, `quiet` that such a stop has returned, `raced` that a call of
DeclareQueues came between ReadDeclared and Redeclare of the listener, and `wanted`
what the service asked for last.

### AuditEntry

A call is `Begin` (the check of the globals), `NextId` (one atomic addition),
`TakePublisher` (the global is read again, and may be nil by now) and `Submit`; a V1
call leaves a goroutine (`V1Goroutine`). Publishers are numbered as they are made,
and each appears as what `AuditRelay` says of it: `Submit` accepts or drops. One that
was stopped (`Stop`) has closed its channel, on which the send panics; a caller in
"nil" or "closed" is a goroutine that panicked, and nothing runs after it but a
restart. `PushMessage` is a publish that reached its queue or not; Push, in a V1
goroutine, may publish the same record again, as a record with the next `nth`, so
that copies can be told apart. SetUpAuditTrailTrxPublisher is two steps, the flag
and the pointer, and `during` remembers who had passed the check when the pointer
was taken away. A restart forgets everything but what RabbitMQ has.

### LogPipeline

One key of the sampler and of the limiter, each with its separate atomics:
`LoadReset`, `StoreReset`, `StoreCount` and `Add` are sampler.check, `Window`,
`AddSuppressed`, `Swap` and `StoreLast` the limiter's. `samplers` keeps the
replaced ones, which a call that is under way still counts in, each with its own
history of what it dropped and not reported (`silent`). `Emit` is the line with
its hooks, and a fatal one ends the process; `EndSilently` and `EndWritten` are
the two ends of a call, without and with its line. A call that began while a
client and a hook for its level were set owes an event for the line it writes.
`Direct` is a call of phsentry's senders, and the service's set-up calls may be
repeated and mixed.

### PhTrace

`FromEnv`, `withDefaults`, `ensureRequired` and `transportCredentials` are the
configuration as far as the exporters depend on it. Init is one step per thing it
builds or registers, in the Once; `LaterInit` is every other call. Of Shutdown each
of the two providers and exporters is a step, and a provider may leave its
exporter open when the context expires. `CarryTrace` is InjectAMQP or ExtractAMQP
in whatever state they meet.

### S3Client

One call at a time, since calls share nothing: build the request (`Stat`, `ReadFile`,
`ReadPart`, while `WriteFile` may happen), send, serve or lose, and `Return`, where
`OverGrpc` and `OverHttp` are what the adapters make of the reply and `Accepts`
what the helpers check. An HTTP reply need not be the service's: its body may be
no JSON or have no code, which `Decoded` turns into 0, as a field that is missing
in the JSON is left at zero.

## 3. What TLC checks

| Run | Instance | Shows |
|---|---|---|
| `audit` | 3 messages, 2 workers, buffer 2, 2 callers of Stop, threshold 2; 116 285 states | `ExactlyOnePlace`, `StopDrains`, `OneCooldownPerTrip`, `OutageTripsBreaker`, `OpenBreakerHadFailures`, `BreakerRecovers`, `StopReturns`, refinement `ImplementsFairRelay` |
| `amqp_life` | 2 callers of Close, 4 failures | `OneConnection`, `NotReadyWhileConnecting`, `Recovers`, `LoopEnds` |
| `amqp_push` | 2 calls of Push with 2 attempts, 1 caller of Close, 1 failure; 424 091 states | `SuccessesBacked`, `PushEnds` |
| `lock` | 4 threads in 2 processes, 2 locks each, 1 lost reply, expiry, crashes; 146 229 states | `MapFindsOwnMutex`, `MutualExclusion`, refinement `ImplementsLease` |
| `redis_pool` | main and 2 goroutines, 3 calls each, 2 attempts, 2 outages | `LazyReconnectOpensOne`, `LockingStaysAvailable`, `CallsReturn` |
| `lock_after_outage` | Redis is down at the start, and a request locks | `NobodyWaitsForItself` is violated |
| `guards_chain` | 2 requests of one key and another, two orders of the chain; 525 564 states | `BarredNeverHandled`, `InProcessHasCause` |
| `rmq_auto` | 2 starts at any time, any stops, 2 faults, 4 dials, 2 queues; 448 650 states | `OneConnectionOpen`, `NothingOpenAfterStop`, `QueuesFollow`, `PanicsOnlyAfterRestart`, `Recovers`, `StopEnds` |
| `audit_entry` | 2 goroutines, 3 calls, 2 attempts at a push, 3 set-ups, any stops, 1 restart, symmetric; 3.2 million states | `RecordedOnce`, `PanicsNeedDisableOrStop` |
| `log_sentry` | 2 goroutines, 4 calls, 2 set-up calls, 2 periods, symmetric; 4.1 million states | `SuppressedAccounted`, `EventsFollow`, `ChoiceKept` |
| `trace` | 2 goroutines, every environment of a named service, 5 sets of options, symmetric | `NothingLeaks`, `GuardedExport`, `TraceSurvives` |
| `s3_calls` | 2 calls of any operation over either adapter, files of up to 3 bytes; 13 392 states | `TrueVerdict`, `NeverTruncated` |

The type invariants and the inductive invariants of section 5 are not among the
runs' properties, since they are proved; each was checked by TLC on the run's
instance before. To check a type invariant again, add it to the run's cfg.

Premises that the properties carry, each of which the code does not guarantee and
a service can. `OneConnectionOpen` and `NothingOpenAfterStop` speak of services that
start again only when stop has returned or the last start has failed
(`~overlapped`), and `QueuesFollow` and `Recovers` of those that start once;
`PanicsOnlyAfterRestart` needs nothing. `InProcessHasCause` speaks of chains in which
VerifIdemKey is there once. `MutualExclusion` and `ImplementsLease` hold in the run
because the threads that share an entry of the map are quick. `TrueVerdict` excepts
an HTTP answer that says nothing of the call, `PushEnds` a client that no longer
reads (`CloseHangs`). `LockingStaysAvailable` speaks of the scenarios in which main
initialises and finds Redis up; there it also says that `NobodyWaitsForItself`,
which the run `lock_after_outage` shows to be false elsewhere. What happens without
the premise is in section 4.

Why these bounds are enough for the cases that matter. `audit`: two workers and a
threshold of two give concurrent failures, a stale local count and a trip, and
the third message a failure that meets an open breaker; two callers of Stop give
the wait on the Once. More messages than that only repeat, and the counting
properties are proved for any number. `amqp_life`: four failures fill dial, init,
channel and connection in one behaviour. `amqp_push`: two calls with two attempts
publish enough to fill notifyConfirm and stop the reader, and one failure plus
one Close give three generations of channels. `lock`: two quick threads lock by
key in one process, so that one stores its mutex while the other is about to
remove the entry; a slow thread that keeps its mutex runs beside them, and a slow
one that locks by key in another process; two locks each give a late release.
`guards_chain`: two requests of one key give the concurrent duplicate and the
retry, and the third shows that keys do not mix. `rmq_auto`: the second start meets
the first one's listener, or the notify channel that it left closed; two faults
give a loss during a reconnect, and a refused channel or a refused declaration
after a loss; two queues declared together give a declaration that ends half-way;
four dials give each start a connection and another after its loss. `audit_entry`:
two set-ups and a tear-down, three calls that meet them, two attempts for a copy,
and as many publishers to stop as there are. `log_sentry`: a burst of one and every
second line after it give all three answers of the sampler in four calls, and two
periods one reset that races a count. `trace`: two callers give overlapping Inits
and Shutdowns, and both a first and a later one. `s3_calls`: three bytes give a
file that becomes shorter, longer and empty, and the second call whatever the
first left behind.

Deadlock is checked for `guards_chain` and `trace`, whose surroundings never rest;
the other instances come to rest when their calls are used up or the process has
ended, and the liveness properties say that no call is left behind.

Fairness. In Go every runnable goroutine runs again, timers fire and I/O calls
with timeouts return: weak fairness of each goroutine's steps. Nobody need
submit, push, lock, start, stop or close. `AmqpClient` needs strong fairness of the
select cases `done` and closed connection: each select sets a new timer of
seconds, so a case that is ready when the select starts is taken. `RedisPool`
needs strong fairness of `Lock`, which Go's mutex gives by its hand-over to waiters.
`RmqAutoConnect` assumes that a broker which stopped comes back, without which
nobody could reconnect. Failures are bounded, so the broker accepts the client in
the end; it owes nobody a confirmation. `RedisLock`, `RequestGuards`, `AuditEntry`,
`LogPipeline`, `PhTrace` and `S3Client` have safety properties only and no fairness.

## 4. Where the code does other than it says

Shown by a run:

* `lock_after_outage`. With no client stored, AcquireLock runs the Once, whose
  function reconnects, and the reconnect runs the same Once: it waits for itself
  with the reconnect mutex locked (redis.go:361 against 32, 114 and 209).

Stated as properties of the modules, which the model of the code violates. To see
a counterexample put the property in the place of those in the cfg, as an
INVARIANT, or where the table says so as a PROPERTY:

| Property | cfg | What happens |
|---|---|---|
| `SubmitNeverPanics` | AuditPublisher_audit | Submit may find msgChan closed by Stop, and a send on a closed channel panics in spite of the default case (audittrail_publisher.go:143 against 133-134) |
| `GivenUpAfterRetries` | AuditPublisher_audit | "WithMaxRetries sets the maximum push retry count per message (default 3)" (audittrail_publisher.go:59; README.md:468, 507), but the option is stored and never read: a message whose push failed is given up after that one (182) |
| `ClosedForGood` | AmqpClient_life | after Close both `done` and `notifyConnClose` are ready; the loop may take the second, dial again and become ready (amqp.go:309 against 562) |
| `OwnMessageConfirmed` | AmqpPush_push, with `Pusher <- TwoAndAQuietOne`, `Quiet <- TheQuietOne` | all calls share one notifyConfirm: a Push may take another's confirmation, or one left by a call that timed out, for its own (amqp.go:444 against 419) |
| `MutualExclusion` | RedisLock_lock, with `Thread`, `KeyThread` and `Slow <- Threads2`, `Process <- Processes1`, `ProcessOf <- Together`, `MaxLost = 0` | ReleaseLock releases whatever mutex the map has for the key, so a goroutine whose lock expired deletes the lock of the next one in its process (redis.go:585 against 613) |
| `HandledOnce` | RequestGuards_chain | "no doouble request" (idempotency-key.go:2), but the key is looked up and stored in two commands (90, 122): two concurrent requests of one key both find nothing, both store it and are both handled. With `SPECIFICATION SerialSpec` it holds |
| `InProcessIsTrue` | RequestGuards_chain | "your request in process" (response.go:41), but the request that stored the key may never be handled: the answer to its SET was lost and it got a 500 (idempotency-key.go:123), or, in the order of README.md:487-489, RevokeToken refused it after VerifIdemKey had stored its key |
| `NeverTwoConnections` | RmqAutoConnect_auto | a second start without a stop overwrites r.conn and r.stopReconnect (rmq-autoconnect.go:115-117, 225): the first connection stays open and its listener cannot be stopped |
| `StopAlwaysEnds` | RmqAutoConnect_auto, as a PROPERTY | stop then cancels the second listener only and waits for both (182) |
| `QueuesKept` | RmqAutoConnect_auto | the listener reads declaredQueues before DeclareQueues takes the mutex (269 against 142): a call of the service in between is overwritten by the older set, and its queues are not declared again after the next loss |
| `SameShutdown` | PhTrace_trace | "subsequent calls return the same Shutdown and error" (phtrace.go:91-93), but a later call returns a no-op, or nil beside the error, since `shutdown` is its own variable (177-183) |
| `BestEffort` | AuditEntry_entry | "Best-effort, non-blocking" (transaction_trace.go:10-11), but the publisher is read once for the check and again for Submit (14, 36), and SetUpAuditTrailTrxPublisher(false) in between makes it nil: a panic in the request handler. So does Submit on a publisher that was stopped (audittrail_publisher.go:143 against 154) |
| `PublishedOnce` | AuditEntry_entry | README.md:446 promises retries, which for a V1 push may leave the record twice: Push publishes again when a confirmation is negative, or missing because the channel closed, although the first copy may be in the queue (amqp.go:431-453) |
| `ErrorsSent` | LogPipeline_log | the case "error" of sendToSentry is empty, and Go does not fall through (phsentry.go:422): SendSentryError, which README.md:402 shows for sending an error, sends nothing, nor does logAuditErrorWithSentry (audittrail.go:128-136) |
| `ErrorsSampled` | LogPipeline_log, as a PROPERTY | "All log functions (LogI, LogE, LogW, LogD, LogF) are sampled by default" (README.md:161), but LogE and LogF never ask the sampler (phlogger.go:53-63, 104-118) |
| `ReadyWhenReady` | S3Client_calls | the helper is "transport-neutral" (README.md:410), but over HTTP the code of ready is the status 200 (http/client.go:78), which the helper takes for a failure because it is not CodeOK (operations.go:126) |
| `OkMeansDone` | S3Client_calls | an HTTP answer with status 2xx whose JSON has no code decodes to code 0, which is CodeOK (http/client.go:185-187, 235-237), and an upload always comes with data: the helper reports a success that the service never spoke of |

Seen while modelling, not given a run of their own:

* `WithPublishTimeout` of the publisher, like `WithMaxRetries`, is stored and never
  read.
* recordFailure compares the count its own Add returned: a success in between
  does not stop the trip (197; the model has it, as `wfailures`).
* Close after a failed Close closes `done` twice and panics (amqp.go:572;
  `ClosePanics`), and Close while the client connects reports that it is closed
  and leaves the loop running (569; `CloseNotReady`).
* The publisher's PushWithTTL never reads notifyConfirm although the channel is in
  confirm mode: from the second confirmation on the library's reader waits, and
  a Close then waits for its answer with the mutex locked, and with it every
  Push. `AmqpPush` has this as `ReaderWaits` and `CloseHangs`; `PushEnds` holds but
  for it.
* ReleaseLock unlocks first and removes the map entry afterwards, so a goroutine
  that locks in between loses its entry (redis.go:599, 619; `Unlock`,
  `RemoveMutex`).
* A failing re-initialisation clears the pointer over a healthy client
  (redis.go:346), and clients that are replaced are never closed.
* In a chain with VerifIdemKey twice the second look-up finds what the first stored,
  and every request is told that it is in process (the premise of
  `InProcessHasCause`). Of the two ways in which a key is stored in vain, that
  property says that they are the only ones.
* A listener of the auto-connect whose reconnect was refused a channel leaves
  `r.conn` nil and polls for a connection nobody makes
  (rmq-autoconnect.go:121-130, 242-250); one whose declaration was refused logs it
  and waits, the later queues undeclared and the channel closed (151-169, 269-271;
  `failed`); a client that is stopped and started again uses its closed
  notifCloseCh again, and the library panics when it closes it (228; the two
  exceptions in `Recovers` and `PanicsOnlyAfterRestart`).
* A record's data and key are pointers that are marshalled later, in a goroutine or
  a worker: what the caller changes meanwhile is what is recorded
  (audittrail.go:110, audittrail_v2.go:96).
* LogErr writes its line without the hooks (phlogger.go:154), and a fatal line ends
  the process without a FlushSentry, so its event may still be in the SDK's queue.
* LogICtx and its siblings put the trace in front of the format, which is the
  sampler's key: each trace has a burst of its own and leaves an entry behind
  (phtrace/log.go:95).
* A histogram recorded to before Init is cached as a no-op and stays one
  (phtrace/metrics.go:47-52); a SamplingRatio of 0 becomes 1.0 (config.go:187-189);
  the comment of InjectAMQP says that nil headers are not allocated, and they are
  (rmqprop.go:87-98).
* A multipart part of which something was read already is uploaded short, under
  the Size of the whole (helper/build.go:58-74); Expires is cut to 32 bits there
  (29, 54, 101); the HTTP adapter sends neither UserID nor MerchantID.
* phaudittrailv0: after its retries are used up startRQConnection dials in a busy
  loop without a pause; PushMessage asks for the queue by a passive declaration,
  which closes the channel when the queue is missing, so that the declaration and
  the publishing that follow fail, and all later ones; reset clears `Channel` while
  PushMessage uses it.
* A Session header from 9223372037 on overflows to a negative TTL, which is
  stored as no expiry (idempotency-key.go:122, redis.go:395).
* A negative MaxRetries skips the loop and calls Error on a nil error (redis.go:115).

## 5. What is proved

For any sets of goroutines, messages, requests, queues and processes and any
bounds, from the named assumptions on the constants (`ConstAssumption`,
`PushConstAssumption`, `LogAssumption` and `S3Assumption`: the types of functions
and bounds, at least one worker, attempt and place in a buffer, and None nobody's
name; no set is assumed to be finite):

| Theorem | Says |
|---|---|
| *AuditPublisher_proofs* | |
| `TypeCorrect` | `Spec => []TypeOK` |
| `MessagesInOnePlace` | `Spec => []ExactlyOnePlace` |
| `DrainOnStop` | `Spec => []StopDrains` |
| `OneCooldown` | `Spec => []OneCooldownPerTrip` |
| `OnlyFailuresTrip` | `Spec => []OpenBreakerHadFailures` |
| `OutagesTrip` | `Spec => []OutageTripsBreaker` |
| `PoolImplementsRelay` | `Spec => ImplementsRelay`, the safety half of the refinement |
| *Amqp_proofs* | |
| `ClientTypes` | `Spec => []TypeOK` of AmqpClient |
| `NeverTwoConnections` | `Spec => []OneConnection` |
| `ReadinessFollowsLoop` | `Spec => []NotReadyWhileConnecting` |
| `PushTypes` | `PushSpec => []PushTypeOK` of AmqpPush |
| `SuccessesAreBacked` | `PushSpec => []SuccessesBacked` |
| `PushImplementsClient` | `PushSpec => Spec`: publishing implements the client's life cycle |
| `ClientSafeWhilePublishing` | `PushSpec => [](OneConnection /\ NotReadyWhileConnecting)` |
| *RedisLock_proofs* | |
| `LockTypes` | `Spec => []TypeOK` |
| `EntryIsOwn` | `Disciplined => (Spec => []MapFindsOwnMutex)` |
| `HolderKeepsLock` | `Disciplined => (Spec => []HolderOwnsLock)` |
| `LockExcludes` | `Disciplined => (Spec => []MutualExclusion)` |
| `LockImplementsLease` | `Disciplined => (Spec => ImplementsLease)` |
| `LeaseExcludes` | `Lease!Spec => [](Lease!TypeOK /\ Lease!LeaseHeld)` |
| *RedisPool_proofs* | |
| `PoolTypes` | `Spec => []TypeOK` |
| `ReconnectOpensOne` | `Spec => []LazyReconnectOpensOne` |
| `LockingStays` | `Spec => []LockingStaysAvailable` |
| *Requests_proofs* | |
| `GuardTypes` | `Spec => []TypeOK` |
| `NothingBarredPasses` | `Spec => []BarredNeverHandled` |
| `InProcessExplained` | `Spec => []InProcessHasCause` |
| `RetriesPassOnce` | every chain has VerifIdemKey `=> (SerialSpec => []HandledOnce)` |
| `S3Types` | `S3Spec => []S3TypeOK` |
| `VerdictsAreTrue` | `S3Spec => []TrueVerdict` |
| `FilesAreWhole` | `S3Spec => []NeverTruncated` |
| *RmqAutoConnect_proofs* | |
| `AutoConnectTypes` | `Spec => []TypeOK` |
| `NeverTwoOpen` | `Spec => []OneConnectionOpen` |
| `StopCloses` | `Spec => []NothingOpenAfterStop` |
| `PanicNeedsRestart` | `Spec => []PanicsOnlyAfterRestart` |
| `QueuesRedeclared` | `Spec => []QueuesFollow` |
| *AuditEntry_proofs* | |
| `EntryTypes` | `Spec => []TypeOK` |
| `OneRecordPerCall` | `Spec => []RecordedOnce` |
| `PanicsExplained` | `Spec => []PanicsNeedDisableOrStop` |
| *Observability_proofs* | |
| `TraceTypes` | `Spec => []TypeOK` |
| `ExportersClose` | `Spec => []NothingLeaks` |
| `ExportersGuarded` | `Spec => []GuardedExport` |
| `TracePropagates` | `Spec => []TraceSurvives` |
| `LogTypes` | `LogSpec => []LogTypeOK` |
| `SuppressedAreCounted` | `LogSpec => []SuppressedAccounted` |
| `ErrorsBecomeEvents` | `LogSpec => []EventsFollow` |
| `ChoiceStays` | `LogSpec => []ChoiceKept` |

*AuditPublisher.* `StopDrains` is not inductive: that nothing is pending when Stop
returns rests on the WaitGroup counting exactly the running workers
(`WaitGroupInv`), on a worker leaving only from a closed and empty channel and on
the order of Stop's steps (`ShutdownInv`). With `ExactlyOnePlace` (a queued message
is in the channel, a processed one with a worker) these make up `IInv`, and
`NothingPending` draws the conclusion. The refinement uses `IInv` to show that no
settled message moves and that `Finish` finds nothing pending.
`OneCooldownPerTrip` is inductive with the types. The two theorems about counting need
`CountInv`: `Counted`, the failed messages less those whose worker has yet to add
them, bounds the counter and every worker's local count from above, a trip had
the threshold of them, and what the counter holds when a cooldown has cleared it
are others. Adding one to both sides needs that the set of failed messages is
finite, which `FiniteInv` carries along.

*Amqp.* `OneConnection` needs that nothing is open while the loop is on its way to a
dial (`ConnectionInv`): the loop leaves the serving select for a dial only when
its connection is closed. `SuccessesBacked` is made inductive by what is still to
be read (`Backed`): the calls that succeeded, and the acknowledgements that stand
first or second in the buffer of some generation of the channel, are together no
more than the broker gave. A receive takes one out of the buffer and makes at
most one call succeed. The refinement is step by step: each step of the composition
is one of the client's actions with what it does to the channel, or one of a
caller, of the reader or of the broker, which leave the client's variables alone.

*RedisLock.* `Disciplined` says that of the threads of a process that lock by key
beside one another each ends its section within the TTL; one that does not locks
by key alone in its process, or keeps its mutex. Threads that share an entry of
the map do meet under it: one may store its mutex between the UnlockContext and
the RemoveMutex of another. `IInv` says that what a thread finds in the map is then
its own mutex or nothing (`MapFindsOwnMutex`), nothing only if it is among those
that were crossed so (`CrossedKnown`), and that what it unlocks is its own
(`ReleaseOwn`). That nobody else's mutex is there rests on the lock itself: a quick
thread that is inside owns the key (`InsideValid`, `HolderOwnsLock`), so no other
stores its mutex meanwhile. Section 4 shows that the discipline is needed. From
the same `IInv` every step of the lock is one of `LeaseLock` or none that it sees
(`LeaseStep`): `Lock`, and `LockReplyLost`, are grants, since the value drawn is
above the thread's `round` and so was never out; a script that deletes the key has
nobody left who relies on it, since whoever is inside owns the key (`InsideOwns`)
and is the only one there (`InsideAtMostOne`); what concerns map and mutexes only
is not seen. `LeaseExcludes` is what the abstraction is worth: in a lock with a
lease nobody relies on a lease but the client whose lease is out.

*RedisPool.* Both properties rest on where the goroutines are in functions that call
each other in a cycle, so the invariants speak of every entry of a stack by its
depth. For `LazyReconnectOpensOne` these are `Frames`: the shape a stack can have
(`Shape`), that whoever is between the second look at the pointer and the end of
the rebuild holds the mutex (`Holds`), and that whoever is about to open a client
is the first to (`Clients`); with `MainFirst` (nobody runs before main has
initialised) a second opener would have to hold the same mutex. For
`LockingStaysAvailable` they are the three phases of main's initialisation as its
stack shows them (`BeforeOnce`, `InOnce`, `AfterOnce`): when the Once runs, the ping
has succeeded and the client is stored, so its function succeeds, and afterwards
nothing writes what it stored. That nobody waits for itself needs `WaitInv`: the
one that holds the mutex is in the rebuild (`Rebuilding`), and whoever fetches the
pool does so as the first call of its goroutine or from the Once (`OverOnce`), so
only a Once that runs without a client could come back to the mutex, and after
main's none does. The theorem speaks of services whose main only initialises, as
the scenarios of the run do.

*RequestGuards.* `BarredNeverHandled` speaks of handled requests only. Inductive is
that every reason in `barred` still holds (`ReasonsLast`) and that none of the
middlewares a request has passed is among them (`PassedUnbarred`), with what was
learnt by a look-up whose SET is still to come. For `InProcessExplained` a look-up
that finds a key needs somebody whose SET was executed (`KeysStored`): such a
request is waiting for the answer, or has passed VerifIdemKey, or is in `lost`, also
after its key expired, and whatever becomes of it afterwards is one of the causes
(`StoredIsCause`). That the cause is another request is where the premise comes in:
with VerifIdemKey there once, a request that is at its look-up has stored nothing.
`RetriesPassOnce` counts those who have passed VerifIdemKey (`Passed`, `SerialInv`):
each left its key, which bars the others of that key at their look-up, and
between a look-up and its SET nobody else of the key is under way.

*S3Client.* `CallInv` says how far a call may be for a verdict, a reply and a
content to be there: a reply that a call has heard is one the service gave for
what it did or did not do, garbled or not, and an upload on its way has the length
it announces. The theorems then only look at what `Accepts` checks
(`AcceptsOverGrpc`, `AcceptsOverHttp`): over HTTP an undone call passes it only with
an answer that says nothing.

*RmqAutoConnect.* The invariants have the premises of the properties: `Orderly` is a
client whose starts follow one another or that is started once. There `WorkInv` says
that one start or listener is at work at a time, and that its context is the one
in use; that a cancelled one has somebody waiting for it, and that a stop which
met no start meets none later, needs `~overlapped`. `ConnectionInv` adds that only
`r.conn` can be open, that nothing is when somebody dials, and what a quiet stop
leaves; it gives `NeverTwoOpen` and `StopCloses`. Up to the first restart,
`NotifyInv` says that what is registered is open and that nothing is while the
listener reconnects, and `QueueInv` that the recorded set and the one that the
listener has read are what the service asked for, unless it was raced, and that
a connection whose queues the listener is not about to declare has all of them
but the failed ones.

*AuditEntry.* `CallInv` says that a call is in one place (a goroutine to be, a
caller's hands, a buffer or RabbitMQ) or has copies in several, which only a V1
push makes (`PushedAgain`), and `IdInv` that every id of this life is at most the
counter and one record's or its copies'. `PublisherInv` says that a caller with a
record still finds its publisher or is among those it was taken from, and that
one that panicked on a closed channel had a stopped publisher. Ids over restarts
do repeat, and `RecordedOnce` does not claim otherwise.

*PhTrace.* `OnceInv` says that one goroutine is in the Once and `ShutdownInv` that a
Shutdown exists only after an Init that succeeded, when nothing opens exporters
any more: what one Shutdown has closed stays closed for those that overlap it.
`GuardInv` carries the checked configuration from the check to the exporters.

*LogPipeline.* That a sampler reports no more than it dropped is not inductive: the
count says it only by its remainder. `SamplerInv` bounds `silent` from below by the
lines dropped since the last that reported (`Pending`), which a further line
increases by one or sets back to nothing when it reports (`RemainderUnique` is the
arithmetic), and which a reset sets to nothing, in whatever order the goroutines do
the two stores. `EventInv` says that a call owes an event only while hook and
client are in place, which nothing takes away. `ChoiceKept` needs
that the Once of the first initialisation has run before the service's calls
(`OnceRun`).

Only model-checked: all liveness (`BreakerRecovers`, `StopReturns`, `Recovers`,
`LoopEnds`, `PushEnds`, `CallsReturn`, `StopEnds`) and the fair half of the refinement
(`ImplementsFairRelay`), since temporal reasoning with fairness and ENABLED is
beyond this prover. Every other property of the passing runs has its theorem.

## 6. Not modelled

* Consuming: Consume checks the flag and returns the library's delivery channel,
  and no code here reads from it.
* phaudittrailv0: a client of one connection that is dialled once, with three
  plain globals; what reading it showed is in section 4.
* `pcauth`, `phdb`, `phjson`, `validator.go`, `phhelper`, the readers of
  the environment and the health summary: conversions and checks that change no
  state.
* Generated code (`wirepb`, 900 lines of messages and stubs), build files,
  scripts and examples.

Inside the modelled parts: the content of messages and records, the difference
between error values that no caller acts on, lengths of delays (a timer may fire
at any time), option defaults that only fill in a number, the formatting of lines
and tags, the metrics counters of the logger and the instruments of phtrace, and
the test hooks (`publishForTest` and the like). What OpenTelemetry, the Sentry SDK,
redsync and amqp091 do is taken from how this code uses them, and PROJECT.json
marks those definitions external.

The abstractions that a reader should know of. A sampler has one key, since keys
share nothing but the map. `S3Client` runs one call at a time. In `RequestGuards` all
requests share one session and one merchant. `AuditEntry` takes a publisher for its
abstract promise, which `PoolImplementsRelay` justifies. In `AuditPublisher` the AMQP
client is the four outcomes of processMessage; that the client of a publisher can
stop confirming is in `AmqpPush` (`ReaderWaits`).

## 7. What could follow

1. `AuditPublisher` composed with `AmqpPush`, the outcomes replaced by the client.
   The state space of the two together is beyond a run of minutes;
   `PushImplementsClient` shows the way to carry the client's theorems over.
2. A model of phaudittrailv0, should it stay in use.
