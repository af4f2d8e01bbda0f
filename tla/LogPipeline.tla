----------------------------- MODULE LogPipeline -----------------------------
(***************************************************************************)
(* From a log call to a Sentry event: the sampler and the window limiter of   *)
(* phlogger, its hooks, the hooks that forward to Sentry, and phsentry's own  *)
(* senders.  Goroutines log concurrently; the counters of a key are separate   *)
(* atomics, so each load, store, add or swap is a step.                        *)
(*                                                                         *)
(* One key stands for all of them, since keys share nothing.  Debug, info and *)
(* warn run the same code and are the level "info".  Time advances in periods: *)
(* a reading from an earlier period has elapsed, as long as the sampler's      *)
(* Period and as the limiter's window.  lastEmit is a time.Time read while     *)
(* others write it; both halves of a torn value decide as the old or the new.  *)
(***************************************************************************)
EXTENDS Integers, FiniteSets, Sequences

CONSTANTS
  Logger,     \* goroutines that log
  EnvConfig,  \* SamplerConfigForEnv of APP_ENV, as Config
  Configs,    \* what a service may pass to InitializeSampler
  MaxCalls,   \* bound on calls
  MaxSetups,  \* bound on calls that set something up
  MaxTime     \* bound on the clock

(* initial = 0: sampling is off.  thereafter = 0: nothing after the first ones. *)
Config == [initial : Nat, thereafter : Nat]

ASSUME LogAssumption ==
  /\ EnvConfig \in Config /\ Configs \subseteq Config
  /\ {MaxCalls, MaxSetups} \subseteq Nat /\ MaxTime \in Nat \ {0}

Level == {"info", "error", "fatal"}
Kind  == {"sendMessage", "sendEvent", "sendWarning", "sendDebug", "sendError"}

VARIABLES
  now,
  samplers,     \* every sampler built so far, the last is global: [config, count, resetAt] and,
                \* as history, the lines it dropped less those that lines reported (silent)
  samplerOnce,  \* samplerInitOnce has run
  lastEmit,     \* of the limiter's entry, 0 for the zero time
  suppressed,   \* of the limiter's entry
  hooks,        \* number of forwarding hooks per level
  hookOnce,     \* sentryLogHookOnce has run
  client,       \* sentryClient # nil
  where, call,  \* where each goroutine is, in which call
  exited,       \* os.Exit
  calls, setups,
  \* History.
  heldBack,     \* lines the limiter dropped, less those that lines reported
  chosen,       \* what the service chose with InitializeSampler, none or one
  lost          \* the levels and kinds of calls that owed Sentry an event and gave none

setupVars  == <<samplerOnce, hooks, hookOnce, client, chosen, setups>>
limitVars  == <<lastEmit, suppressed, heldBack>>
logVars == <<now, samplers, limitVars, setupVars, lost, where, call, exited, calls>>

Current == Len(samplers)
NoCall  == [level |-> "info", gen |-> 1, at |-> 0, owes |-> FALSE]
Fresh(config) == [config |-> config, count |-> 0, resetAt |-> 0, silent |-> 0]
Off == [initial |-> 0, thereafter |-> 0]

LogTypeOK ==
  /\ now \in 1 .. MaxTime
  /\ samplers \in Seq([config : Config, count : Nat, resetAt : 0 .. MaxTime, silent : Int])
  /\ samplers # <<>>
  /\ lastEmit \in 0 .. MaxTime /\ suppressed \in Nat
  /\ hooks \in [Level -> Nat]
  /\ {samplerOnce, hookOnce, client, exited} \subseteq BOOLEAN
  /\ where \in [Logger -> {"idle", "load", "storeReset", "storeCount", "add",
                        "window", "hold", "swap", "storeLast", "emit"}]
  /\ call \in [Logger -> [level : Level, gen : 1 .. Current, at : 0 .. MaxTime,
                          owes : BOOLEAN]]
  /\ calls \in 0 .. MaxCalls /\ setups \in 0 .. MaxSetups
  /\ heldBack \in Int
  /\ chosen \subseteq Configs
  /\ lost \subseteq Level \cup Kind

(* The package's own init has run InitializeLogger, with APP_ENV unknown, and then *)
(* InitializeApp, which built the sampler for the environment.                       *)
LogInit ==
  /\ now = 1
  /\ samplers = <<Fresh(EnvConfig)>> /\ samplerOnce = TRUE
  /\ lastEmit = 0 /\ suppressed = 0
  /\ hooks = [l \in Level |-> 0] /\ hookOnce = FALSE /\ client = FALSE
  /\ where = [c \in Logger |-> "idle"] /\ call = [c \in Logger |-> NoCall]
  /\ exited = FALSE /\ calls = 0 /\ setups = 0
  /\ heldBack = 0
  /\ chosen = {}
  /\ lost = {}

LogGoes(c, from, to) == ~exited /\ where[c] = from /\ where' = [where EXCEPT ![c] = to]
Mine(c) == samplers[call[c].gen]

(* A call begins: it notes the sampler and the time.  If its line is written it      *)
(* owes an event, when a client and a hook for its level exist already.             *)
Begin(c, level, to) ==
  /\ LogGoes(c, "idle", to)
  /\ calls < MaxCalls /\ calls' = calls + 1
  /\ call' = [call EXCEPT ![c] = [level |-> level, gen |-> Current, at |-> now,
                                  owes |-> client /\ hooks[level] > 0]]
  /\ UNCHANGED <<now, samplers, limitVars, setupVars, lost, exited>>

(* A call ends without a line. *)
EndSilently(c, from) ==
  /\ LogGoes(c, from, "idle")
  /\ call' = [call EXCEPT ![c] = NoCall]
  /\ UNCHANGED lost

(* A call ends with its line written, having given Sentry so many events. *)
EndWritten(c, events) ==
  /\ LogGoes(c, "emit", "idle")
  /\ call' = [call EXCEPT ![c] = NoCall]
  /\ lost' = IF call[c].owes /\ events = 0 THEN lost \cup {call[c].level} ELSE lost

SamplerStep == IF samplers[Current].config.initial = 0 THEN "emit" ELSE "load"

-----------------------------------------------------------------------------
(* The entry points.                                                        *)

(* LogD, LogI, LogW and the ...Rated variants: through the sampler. *)
LogSampled(c) == \E level \in {"info", "error"} : Begin(c, level, SamplerStep)

(* LogE and LogF do not ask the sampler. *)
LogE(c) == Begin(c, "error", "emit")
LogF(c) == Begin(c, "fatal", "emit")

(* The ...RatedW variants: through the window limiter, which a window of 0 turns off. *)
LogWindowed(c) ==
  \E level \in {"info", "error"}, to \in {"window", "emit"} : Begin(c, level, to)

-----------------------------------------------------------------------------
(* sampler.check: elapsed periods reset the counter in two stores.          *)

LoadReset(c) ==
  /\ LogGoes(c, "load", IF Mine(c).resetAt < call[c].at THEN "storeReset" ELSE "add")
  /\ UNCHANGED <<now, samplers, limitVars, setupVars, lost, call, exited, calls>>

StoreReset(c) ==
  /\ LogGoes(c, "storeReset", "storeCount")
  /\ samplers' = [samplers EXCEPT ![call[c].gen].resetAt = call[c].at]
  /\ UNCHANGED <<now, limitVars, setupVars, lost, call, exited, calls>>

StoreCount(c) ==
  /\ LogGoes(c, "storeCount", "emit")
  /\ samplers' = [samplers EXCEPT ![call[c].gen].count = 1]
  /\ UNCHANGED <<now, limitVars, setupVars, lost, call, exited, calls>>

(* What the n-th line of a period meets: a place in the burst, a turn, or neither. *)
InBurst(config, n) == n <= config.initial
HasTurn(config, n) ==
  /\ n > config.initial /\ config.thereafter > 0
  /\ (n - config.initial) % config.thereafter = 0

(* Mutant: a turn reports itself among the suppressed. *)
AddOneMore(c) ==
  LET config == Mine(c).config
      n == Mine(c).count + 1
      more == IF HasTurn(config, n) THEN config.thereafter ELSE 0
      Counted(silent) ==
        samplers' = [samplers EXCEPT ![call[c].gen].count = n, ![call[c].gen].silent = silent]
  IN /\ \/ /\ InBurst(config, n) \/ HasTurn(config, n)
           /\ LogGoes(c, "add", "emit")
           /\ Counted(Mine(c).silent - more)
           /\ UNCHANGED <<call, lost>>
        \/ /\ ~InBurst(config, n) /\ ~HasTurn(config, n)
           /\ EndSilently(c, "add")
           /\ Counted(Mine(c).silent + 1)
     /\ UNCHANGED <<now, limitVars, setupVars, exited, calls>>

Add(c) ==
  LET config == Mine(c).config
      n == Mine(c).count + 1
      more == IF HasTurn(config, n) THEN config.thereafter - 1 ELSE 0
      Counted(silent) ==
        samplers' = [samplers EXCEPT ![call[c].gen].count = n, ![call[c].gen].silent = silent]
  IN /\ \/ /\ InBurst(config, n) \/ HasTurn(config, n)
           /\ LogGoes(c, "add", "emit")
           /\ Counted(Mine(c).silent - more)
           /\ UNCHANGED <<call, lost>>
        \/ /\ ~InBurst(config, n) /\ ~HasTurn(config, n)
           /\ EndSilently(c, "add")
           /\ Counted(Mine(c).silent + 1)
     /\ UNCHANGED <<now, limitVars, setupVars, exited, calls>>

-----------------------------------------------------------------------------
(* rateLimiter.check.                                                       *)

(* The load of lastEmit, and the decision. *)
Window(c) ==
  /\ LogGoes(c, "window", IF lastEmit # 0 /\ lastEmit >= call[c].at THEN "hold" ELSE "swap")
  /\ UNCHANGED <<now, samplers, limitVars, setupVars, lost, call, exited, calls>>

AddSuppressed(c) ==
  /\ EndSilently(c, "hold")
  /\ suppressed' = suppressed + 1
  /\ heldBack' = heldBack + 1
  /\ UNCHANGED <<now, samplers, lastEmit, setupVars, exited, calls>>

(* Mutant: the counter is loaded here and cleared with the next store. *)
LoadSuppressed(c) ==
  /\ LogGoes(c, "swap", "storeLast")
  /\ heldBack' = heldBack - suppressed
  /\ UNCHANGED <<now, samplers, lastEmit, suppressed, setupVars, lost, call, exited, calls>>

Swap(c) ==
  /\ LogGoes(c, "swap", "storeLast")
  /\ suppressed' = 0
  /\ heldBack' = heldBack - suppressed
  /\ UNCHANGED <<now, samplers, lastEmit, setupVars, lost, call, exited, calls>>

StoreLast(c) ==
  /\ LogGoes(c, "storeLast", "emit")
  /\ lastEmit' = call[c].at
  /\ UNCHANGED <<now, samplers, suppressed, heldBack, setupVars, lost, call, exited, calls>>

-----------------------------------------------------------------------------
(* emitD, emitI, emitW, emitE and emitF: the line, then the hooks; for a fatal *)
(* line the hooks first, since the line ends the process.                       *)

(* ReceiveLog, once per hook: one event while there is a client. *)
Events(l) == IF client THEN hooks[l] ELSE 0

(* Mutant: the fatal line is written, and the process ended, before the hooks. *)
EmitExitFirst(c) ==
  /\ EndWritten(c, IF call[c].level = "fatal" THEN 0 ELSE Events(call[c].level))
  /\ exited' = (call[c].level = "fatal")
  /\ UNCHANGED <<now, samplers, limitVars, setupVars, calls>>

Emit(c) ==
  /\ EndWritten(c, Events(call[c].level))
  /\ exited' = (call[c].level = "fatal")
  /\ UNCHANGED <<now, samplers, limitVars, setupVars, calls>>

-----------------------------------------------------------------------------
(* SendSentry...: sendToSentry returns without a client, and the case "error" of *)
(* its switch is empty, so that an error is not passed on.                        *)
Dispatched(k) == k # "sendError"

Direct(c, k, sent) ==
  /\ ~exited /\ where[c] = "idle"
  /\ calls < MaxCalls /\ calls' = calls + 1
  /\ lost' = IF client /\ ~sent THEN lost \cup {k} ELSE lost
  /\ UNCHANGED <<now, samplers, limitVars, setupVars, where, call, exited>>

Send(c, k) == Direct(c, k, client /\ Dispatched(k))

(* SendToSentry... capture directly; without a client they log a warning instead. *)
SendTo(c, k) ==
  \/ client /\ Direct(c, k, TRUE)
  \/ ~client /\ Begin(c, "info", SamplerStep)

(* SendSentryErrorWithContext captures with the hub of the request; without a client *)
(* it does nothing.                                                                  *)
SendWithContext(c) == Direct(c, "sendError", client)

-----------------------------------------------------------------------------
(* Set-up, which a service may repeat and mix.                              *)

Setup == ~exited /\ setups < MaxSetups /\ setups' = setups + 1

(* InitSentry with a DSN.  Without one it does nothing. *)
InitSentry ==
  /\ Setup
  /\ client' = TRUE
  /\ UNCHANGED <<now, samplers, limitVars, samplerOnce, hooks, hookOnce, chosen, lost,
                 where, call, exited, calls>>

(* ConfigureLogForwarding adds a hook for each chosen level, every time. *)
ConfigureLogForwarding(levels) ==
  /\ Setup
  /\ hooks' = [l \in Level |-> IF l \in levels THEN hooks[l] + 1 ELSE hooks[l]]
  /\ UNCHANGED <<now, samplers, limitVars, samplerOnce, hookOnce, client, chosen, lost,
                 where, call, exited, calls>>

RegisterSentryLogHook ==
  /\ Setup
  /\ hookOnce' = TRUE
  /\ hooks' = IF hookOnce THEN hooks ELSE [l \in Level |-> hooks[l] + 1]
  /\ UNCHANGED <<now, samplers, limitVars, samplerOnce, client, chosen, lost,
                 where, call, exited, calls>>

UseSampler(config) == samplers' = Append(samplers, Fresh(config))

InitializeSampler(config) ==
  /\ Setup
  /\ UseSampler(config)
  /\ chosen' = {config}
  /\ UNCHANGED <<now, limitVars, samplerOnce, hooks, hookOnce, client,
                 lost, where, call, exited, calls>>

(* InitializeLogger builds the sampler of the environment, whatever was chosen. *)
InitializeLogger ==
  /\ Setup
  /\ UseSampler(EnvConfig)
  /\ chosen' = {}
  /\ UNCHANGED <<now, limitVars, samplerOnce, hooks, hookOnce, client,
                 lost, where, call, exited, calls>>

(* Mutant: InitializeApp builds the sampler each time. *)
InitializeAppAgain ==
  /\ Setup
  /\ UseSampler(EnvConfig)
  /\ UNCHANGED <<now, limitVars, samplerOnce, hooks, hookOnce, client, chosen,
                 lost, where, call, exited, calls>>

(* InitializeApp builds it inside the Once only. *)
InitializeApp ==
  /\ Setup
  /\ samplerOnce' = TRUE
  /\ IF samplerOnce THEN UNCHANGED samplers ELSE UseSampler(EnvConfig)
  /\ UNCHANGED <<now, limitVars, hooks, hookOnce, client, chosen,
                 lost, where, call, exited, calls>>

Tick ==
  /\ ~exited /\ now < MaxTime
  /\ now' = now + 1
  /\ UNCHANGED <<samplers, limitVars, setupVars, lost, where, call, exited, calls>>

Log(c) ==
  \/ LogSampled(c) \/ LogE(c) \/ LogF(c) \/ LogWindowed(c)
  \/ LoadReset(c) \/ StoreReset(c) \/ StoreCount(c) \/ Add(c)
  \/ Window(c) \/ AddSuppressed(c) \/ Swap(c) \/ StoreLast(c) \/ Emit(c)
  \/ SendWithContext(c)
  \/ \E k \in Kind : Send(c, k) \/ SendTo(c, k)

Service ==
  \/ InitSentry \/ RegisterSentryLogHook \/ InitializeLogger \/ InitializeApp
  \/ \E levels \in SUBSET Level \ {{}} : ConfigureLogForwarding(levels)
  \/ \E config \in Configs : InitializeSampler(config)

LogNext == Tick \/ Service \/ \E c \in Logger : Log(c)

LogSpec == LogInit /\ [][LogNext]_logVars

-----------------------------------------------------------------------------
(* Properties. *)

(* No line that was held back is lost from the count or counted twice: what the     *)
(* limiter dropped is what lines have reported and its counter still holds, though   *)
(* check and reset are separate steps; a sampler, which forgets a period's count,  *)
(* never reports more than it dropped.                                               *)
SuppressedAccounted ==
  /\ heldBack = suppressed
  /\ \A g \in DOMAIN samplers : samplers[g].silent >= 0

(* Every line that is written becomes an event, if a client and a hook for its       *)
(* level existed when its call began: no set-up that runs meanwhile takes them away,  *)
(* and the event of a fatal line comes before the process ends.  So does every        *)
(* direct send but that of SendSentryError become one.                                *)
EventsFollow == lost \subseteq {"sendError"}

(* A sampler that the service chose stays until it chooses again or calls            *)
(* InitializeLogger; InitializeApp, which may be called again, leaves it alone.      *)
ChoiceKept == chosen \subseteq {samplers[Current].config}

(* What the callers of SendSentryError expect (audittrail.go:128 "optionally sends to       *)
(* Sentry", README.md:402): the error is sent.                                             *)
ErrorsSent == "sendError" \notin lost

(* "All log functions (LogI, LogE, LogW, LogD, LogF) are sampled by default"                *)
(* (README.md:161): where the sampler is on, no call goes to its line without asking it.    *)
ErrorsSampled ==
  [][\A c \in Logger : (LogE(c) \/ LogF(c)) => samplers[Current].config.initial = 0]_logVars
=============================================================================
