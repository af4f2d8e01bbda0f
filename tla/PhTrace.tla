------------------------------- MODULE PhTrace -------------------------------
(***************************************************************************)
(* phtrace: OpenTelemetry in one process.  Init runs once, builds the two     *)
(* exporters, registers them globally and switches `enabled` on; the Shutdown *)
(* it returns takes them down again.  Meanwhile any goroutine may inject the  *)
(* trace of a request into a message's headers or extract it from a delivery. *)
(*                                                                         *)
(* Of OpenTelemetry this is used: a provider that is shut down hands out      *)
(* no-ops; its Shutdown closes the exporter unless the context expires first, *)
(* Shutdown of an exporter closes it in any case; the global propagator does  *)
(* nothing until one is set.                                                  *)
(***************************************************************************)
EXTENDS FiniteSets

CONSTANTS
  Caller,     \* goroutines that call Init or a Shutdown
  Envs,       \* the environments of the process, subset of Env
  Options     \* the options passed to FromEnv, in the form of Env too

(* The variables as FromEnv tells them apart.  In Options "unset" and "none" mean that *)
(* the option is not given.                                                             *)
Env ==
  [enabled  : {"unset", "on", "off"},
   endpoint : BOOLEAN,
   service  : BOOLEAN,
   headers  : {"none", "good", "bad"},
   insecure : {"unset", "on", "off"},
   ca       : {"none", "good", "bad"},
   ratio    : {"unset", "zero", "within", "outside"}]

ASSUME ConstAssumption == Envs \subseteq Env /\ Options \subseteq Env

Signal   == {"spans", "metrics"}
Exporter == [signal : Signal, secure : BOOLEAN, key : BOOLEAN]

VARIABLES
  pc,          \* where each caller is
  asked,       \* the environment and the options of the Init that runs in the Once
  once,        \* initOnce: new, running or done
  initErr,     \* BOOLEAN
  open,        \* the exporters that are open
  registered,  \* what is registered globally
  enabled,
  returned,    \* the Shutdown each caller's Init returned
  \* History.
  stopped,     \* a Shutdown has returned
  broken       \* an injection or extraction lost the trace it had

vars == <<pc, asked, once, initErr, open, registered, enabled, returned,
          stopped, broken>>

Building == {"resource", "traces", "metrics"}

TypeOK ==
  /\ pc \in [Caller -> {"idle", "once"} \cup Building
                       \cup {"register", "propagate", "enable"}
                       \cup {"shutTraces", "shutMetrics", "shutSpanExp", "shutMetricExp",
                             "disable"}]
  /\ asked \in [env : Envs, opts : Options]
  /\ once \in {"new", "running", "done"}
  /\ open \subseteq Exporter
  /\ registered \subseteq {"providers", "propagator"}
  /\ returned \in [Caller -> {"none", "shutdown", "noop", "nil"}]
  /\ {initErr, enabled, stopped, broken} \subseteq BOOLEAN

Init0 ==
  /\ pc = [c \in Caller |-> "idle"] /\ asked \in [env : Envs, opts : Options]
  /\ once = "new" /\ initErr = FALSE
  /\ open = {} /\ registered = {} /\ enabled = FALSE
  /\ returned = [c \in Caller |-> "none"]
  /\ stopped = FALSE /\ broken = FALSE

-----------------------------------------------------------------------------
(* The configuration.                                                       *)

(* A boolean variable or the option that overrides it. *)
Switch(env, opt, default) ==
  LET v == IF opt = "unset" THEN env ELSE opt
  IN IF v = "unset" THEN default ELSE v = "on"

(* FromEnv.  Malformed OTEL_EXPORTER_OTLP_HEADERS leave an error behind, which a *)
(* header set in code does not take away.                                         *)
FromEnv(env, opts) ==
  [service    |-> env.service \/ opts.service,
   endpoint   |-> env.endpoint \/ opts.endpoint,
   enabled    |-> Switch(env.enabled, opts.enabled, env.endpoint),
   insecure   |-> Switch(env.insecure, opts.insecure, TRUE),
   ca         |-> IF opts.ca = "none" THEN env.ca ELSE opts.ca,
   headersErr |-> env.headers = "bad",
   headers    |-> IF opts.headers # "none" THEN opts.headers
                  ELSE IF env.headers = "good" THEN "good" ELSE "none",
   ratio      |-> IF opts.ratio = "unset" THEN env.ratio ELSE opts.ratio]

(* withDefaults: a ratio of 0 is taken for one that was not given. *)
withDefaults(cfg) == [cfg EXCEPT !.ratio = IF @ \in {"unset", "zero"} THEN "one" ELSE @]

Cfg == withDefaults(FromEnv(asked.env, asked.opts))

(* Mutant: the error of the environment's headers is not looked at. *)
ensureMostRequired(cfg) ==
  /\ cfg.service /\ cfg.endpoint
  /\ cfg.ratio # "outside"
  /\ cfg.headers # "bad"

ensureRequired(cfg) ==
  /\ cfg.service /\ cfg.endpoint
  /\ cfg.ratio # "outside"
  /\ ~cfg.headersErr
  /\ cfg.headers # "bad"

(* transportCredentials: an unusable CA file is an error, never plaintext. *)
transportCredentials(cfg) ==
  IF cfg.insecure THEN "plain" ELSE IF cfg.ca = "bad" THEN "error" ELSE "tls"

-----------------------------------------------------------------------------
(* Init.                                                                    *)

Goes(c, from, to) == pc[c] = from /\ pc' = [pc EXCEPT ![c] = to]
Returns(c, s) == returned' = [returned EXCEPT ![c] = s]

CallInit(c) ==
  /\ returned[c] = "none"
  /\ Goes(c, "idle", "once")
  /\ UNCHANGED <<asked, once, initErr, open, registered, enabled, returned,
                 stopped, broken>>

(* The first call enters the Once; a disabled or an incomplete configuration ends it. *)
EnterOnce(c) ==
  /\ once = "new"
  /\ \/ /\ Cfg.enabled /\ ensureRequired(Cfg)
        /\ Goes(c, "once", "resource")
        /\ once' = "running"
        /\ UNCHANGED <<initErr, returned>>
     \/ /\ ~(Cfg.enabled /\ ensureRequired(Cfg))
        /\ Goes(c, "once", "idle")
        /\ once' = "done"
        /\ initErr' = Cfg.enabled
        /\ Returns(c, "noop")
  /\ UNCHANGED <<asked, open, registered, enabled, stopped, broken>>

(* The others wait for it.  Their own variable shutdown is nil: with an error it is *)
(* returned as it is, otherwise a no-op takes its place.                             *)
LaterInit(c) ==
  /\ once = "done"
  /\ Goes(c, "once", "idle")
  /\ Returns(c, IF initErr THEN "nil" ELSE "noop")
  /\ UNCHANGED <<asked, once, initErr, open, registered, enabled, stopped, broken>>

buildResource(c) ==
  /\ Goes(c, "resource", "traces")
  /\ UNCHANGED <<asked, once, initErr, open, registered, enabled, returned,
                 stopped, broken>>

NewExporter(signal) ==
  [signal |-> signal, secure |-> transportCredentials(Cfg) = "tls",
   key |-> Cfg.headers = "good"]

buildTracerProvider(c) ==
  /\ transportCredentials(Cfg) # "error"
  /\ Goes(c, "traces", "metrics")
  /\ open' = open \cup {NewExporter("spans")}
  /\ UNCHANGED <<asked, once, initErr, registered, enabled, returned, stopped, broken>>

buildMeterProvider(c) ==
  /\ transportCredentials(Cfg) # "error"
  /\ Goes(c, "metrics", "register")
  /\ open' = open \cup {NewExporter("metrics")}
  /\ UNCHANGED <<asked, once, initErr, registered, enabled, returned, stopped, broken>>

(* Mutant: the tracer provider is left as it is when the meter provider fails. *)
FailInitOnly(c) ==
  /\ \E step \in Building : Goes(c, step, "idle")
  /\ once' = "done" /\ initErr' = TRUE
  /\ Returns(c, "noop")
  /\ UNCHANGED <<asked, open, registered, enabled, stopped, broken>>

(* One of the three cannot be built: by its credentials, or any of them for reasons of *)
(* its own.  The tracer provider, if there is one, is shut down.                        *)
FailInit(c) ==
  /\ \E step \in Building : Goes(c, step, "idle")
  /\ once' = "done" /\ initErr' = TRUE
  /\ open' = {}
  /\ Returns(c, "noop")
  /\ UNCHANGED <<asked, registered, enabled, stopped, broken>>

(* Mutant: enabled is stored before the propagator is set. *)
SetProvidersEnabled(c) ==
  /\ Goes(c, "register", "propagate")
  /\ registered' = registered \cup {"providers"}
  /\ enabled' = TRUE
  /\ UNCHANGED <<asked, once, initErr, open, returned, stopped, broken>>

SetProviders(c) ==
  /\ Goes(c, "register", "propagate")
  /\ registered' = registered \cup {"providers"}
  /\ UNCHANGED <<asked, once, initErr, open, enabled, returned, stopped, broken>>

SetPropagator(c) ==
  /\ Goes(c, "propagate", "enable")
  /\ registered' = registered \cup {"propagator"}
  /\ UNCHANGED <<asked, once, initErr, open, enabled, returned, stopped, broken>>

Enable(c) ==
  /\ Goes(c, "enable", "idle")
  /\ enabled' = TRUE
  /\ once' = "done"
  /\ Returns(c, "shutdown")
  /\ UNCHANGED <<asked, initErr, open, registered, stopped, broken>>

-----------------------------------------------------------------------------
(* The Shutdown of the first Init, which any goroutine may call, and again. *)

CallShutdown(c) ==
  /\ \E d \in Caller : returned[d] = "shutdown"
  /\ Goes(c, "idle", "shutTraces")
  /\ UNCHANGED <<asked, once, initErr, open, registered, enabled, returned,
                 stopped, broken>>

Of(signal) == {e \in open : e.signal = signal}

(* The provider of one signal: its exporter closes, or the context expires. *)
ShutProvider(c) ==
  /\ \/ Goes(c, "shutTraces", "shutMetrics") /\ open' \in {open, open \ Of("spans")}
     \/ Goes(c, "shutMetrics", "shutSpanExp") /\ open' \in {open, open \ Of("metrics")}
  /\ UNCHANGED <<asked, once, initErr, registered, enabled, returned, stopped, broken>>

ShutExporter(c) ==
  /\ \/ Goes(c, "shutSpanExp", "shutMetricExp") /\ open' = open \ Of("spans")
     \/ Goes(c, "shutMetricExp", "disable") /\ open' = open \ Of("metrics")
  /\ UNCHANGED <<asked, once, initErr, registered, enabled, returned, stopped, broken>>

Disable(c) ==
  /\ Goes(c, "disable", "idle")
  /\ enabled' = FALSE
  /\ stopped' = TRUE
  /\ UNCHANGED <<asked, once, initErr, open, registered, returned, broken>>

-----------------------------------------------------------------------------
(* What other goroutines do with it.                                        *)

(* Propagator: the global one when enabled, its own otherwise. *)
Propagates == enabled => "propagator" \in registered

(* InjectAMQP writes the context's trace, ExtractAMQP reads the delivery's, from a *)
(* string or from bytes; with neither there is nothing to lose.                     *)
CarryTrace(has) ==
  /\ broken' = (broken \/ (has /\ ~Propagates))
  /\ UNCHANGED <<pc, asked, once, initErr, open, registered, enabled, returned,
                 stopped>>

-----------------------------------------------------------------------------
InitStep(c) ==
  \/ CallInit(c) \/ EnterOnce(c) \/ LaterInit(c)
  \/ buildResource(c) \/ buildTracerProvider(c) \/ buildMeterProvider(c) \/ FailInit(c)
  \/ SetProviders(c) \/ SetPropagator(c) \/ Enable(c)

ShutdownStep(c) == CallShutdown(c) \/ ShutProvider(c) \/ ShutExporter(c) \/ Disable(c)

Next ==
  \/ \E c \in Caller : InitStep(c) \/ ShutdownStep(c)
  \/ \E has \in BOOLEAN : CarryTrace(has)

Spec == Init0 /\ [][Next]_vars

-----------------------------------------------------------------------------
(* Properties. *)

(* No exporter outlives its use: none is open once Init has failed or a Shutdown has *)
(* returned, though Shutdowns overlap and their contexts may expire.                  *)
NothingLeaks == initErr \/ stopped => open = {}

(* An exporter never sends what the deployment guards without the guard: when headers  *)
(* were configured, in the environment or in code, it sends the key, and when TLS was  *)
(* asked for it speaks TLS; a malformed header or an unusable CA file stops Init.       *)
GuardedExport ==
  \A e \in open :
    /\ {asked.env.headers, asked.opts.headers} # {"none"} => e.key
    /\ <<asked.opts.insecure, asked.env.insecure>> \in
         {<<"off", v>> : v \in {"unset", "on", "off"}} \cup {<<"unset", "off">>} => e.secure

(* A request keeps its trace across RabbitMQ in every state of the tracing: before     *)
(* Init, while it runs, after it failed, while Shutdown runs and after it.              *)
TraceSurvives == ~broken

(* What the comment on Init says: later calls return the Shutdown of the first call. *)
SameShutdown ==
  \A c, d \in Caller : "none" \notin {returned[c], returned[d]} => returned[c] = returned[d]
=============================================================================
