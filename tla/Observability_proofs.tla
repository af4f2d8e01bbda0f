------------------------ MODULE Observability_proofs ------------------------
(***************************************************************************)
(* Theorems about tracing and logging.  PhTrace: for any number of goroutines  *)
(* and any environments and options a process may start with.  LogPipeline: for *)
(* any number of goroutines, any samplers and any bounds.  The two share no     *)
(* state; each part below speaks of one of them.                               *)
(***************************************************************************)
EXTENDS PhTrace, LogPipeline, TLAPS

-----------------------------------------------------------------------------
(* PhTrace. *)

InOnce == Building \cup {"register", "propagate", "enable"}
Shut   == {"shutTraces", "shutMetrics", "shutSpanExp", "shutMetricExp", "disable"}

(* One goroutine at a time is inside the Once, and only while it runs. *)
OnceInv ==
  /\ \A c \in Caller : pc[c] \in InOnce => once = "running"
  /\ \A c, d \in Caller : pc[c] \in InOnce /\ pc[d] \in InOnce => c = d

(* A Shutdown is there only after an Init that succeeded, and nothing opens an *)
(* exporter any more: what one Shutdown has closed stays closed for the others. *)
ShutdownInv ==
  /\ once = "new" => open = {}
  /\ initErr \/ stopped => once = "done" /\ open = {}
  /\ \A c \in Caller : returned[c] = "shutdown" => once = "done" /\ ~initErr
  /\ \A c \in Caller : pc[c] \in Shut => once = "done" /\ ~initErr
  /\ \A c \in Caller : pc[c] = "shutMetricExp" => Of("spans") = {}
  /\ \A c \in Caller : pc[c] = "disable" => open = {}

(* Whoever builds has a configuration that passed the checks. *)
GuardInv ==
  /\ GuardedExport
  /\ \A c \in Caller : pc[c] \in InOnce => ensureRequired(Cfg)

(* The propagator is registered before tracing is enabled. *)
PropagatorInv ==
  /\ enabled => "propagator" \in registered
  /\ \A c \in Caller : pc[c] = "enable" => "propagator" \in registered
  /\ ~broken

IInv == TypeOK /\ OnceInv /\ ShutdownInv

-----------------------------------------------------------------------------
(* Type correctness. *)

LEMMA TypeInit == Init0 => TypeOK
  BY DEF Init0, TypeOK, Building

LEMMA ExporterType ==
  ASSUME NEW signal \in Signal PROVE NewExporter(signal) \in Exporter
  BY DEF NewExporter, Exporter

LEMMA TypeStep == TypeOK /\ [Next]_vars => TypeOK'
<1> SUFFICES ASSUME TypeOK, [Next]_vars PROVE TypeOK'
  OBVIOUS
<1> USE DEF TypeOK, Goes, Building, Returns
<1>1. ASSUME NEW c \in Caller, CallInit(c) PROVE TypeOK'
  BY <1>1 DEF CallInit
<1>2. ASSUME NEW c \in Caller, EnterOnce(c) PROVE TypeOK'
  <2>1. asked.env.endpoint \in BOOLEAN
    BY ConstAssumption DEF ConstAssumption, Env
  <2>2. Cfg.enabled = Switch(asked.env.enabled, asked.opts.enabled, asked.env.endpoint)
    BY DEF Cfg, withDefaults, FromEnv
  <2>3. Cfg.enabled \in BOOLEAN
    BY <2>1, <2>2 DEF Switch
  <2> QED
    BY <1>2, <2>3 DEF EnterOnce
<1>3. ASSUME NEW c \in Caller, LaterInit(c) PROVE TypeOK'
  BY <1>3 DEF LaterInit
<1>4. ASSUME NEW c \in Caller, buildResource(c) PROVE TypeOK'
  BY <1>4 DEF buildResource
<1>5. ASSUME NEW c \in Caller, buildTracerProvider(c) \/ buildMeterProvider(c) PROVE TypeOK'
  <2>1. NewExporter("spans") \in Exporter /\ NewExporter("metrics") \in Exporter
    BY ExporterType DEF Signal
  <2> QED
    BY <1>5, <2>1 DEF buildTracerProvider, buildMeterProvider
<1>6. ASSUME NEW c \in Caller, FailInit(c) PROVE TypeOK'
  BY <1>6 DEF FailInit
<1>7. ASSUME NEW c \in Caller, SetProviders(c) \/ SetPropagator(c) \/ Enable(c) PROVE TypeOK'
  BY <1>7 DEF SetProviders, SetPropagator, Enable
<1>8. ASSUME NEW c \in Caller, ShutdownStep(c) PROVE TypeOK'
  BY <1>8 DEF ShutdownStep, CallShutdown, ShutProvider, ShutExporter, Disable, Of
<1>9. ASSUME NEW has \in BOOLEAN, CarryTrace(has) PROVE TypeOK'
  BY <1>9 DEF CarryTrace, Propagates
<1>10. CASE UNCHANGED vars
  BY <1>10 DEF vars
<1> QED
  BY <1>1, <1>2, <1>3, <1>4, <1>5, <1>6, <1>7, <1>8, <1>9, <1>10 DEF Next, InitStep

(* Tracing keeps its state well-formed, whoever calls Init and Shutdown and when. *)
THEOREM TraceTypes == Spec => []TypeOK
  BY TypeInit, TypeStep, PTL DEF Spec

-----------------------------------------------------------------------------
(* Nothing leaks. *)

LEMMA OnceStep == TypeOK /\ OnceInv /\ [Next]_vars => OnceInv'
<1> SUFFICES ASSUME TypeOK, OnceInv, [Next]_vars PROVE OnceInv'
  OBVIOUS
<1> USE DEF TypeOK, OnceInv, Goes, Building, InOnce
<1>1. ASSUME NEW c \in Caller, CallInit(c) \/ EnterOnce(c) \/ LaterInit(c) PROVE OnceInv'
  BY <1>1 DEF CallInit, EnterOnce, LaterInit
<1>2. ASSUME NEW c \in Caller,
             buildResource(c) \/ buildTracerProvider(c) \/ buildMeterProvider(c)
      PROVE  OnceInv'
  BY <1>2 DEF buildResource, buildTracerProvider, buildMeterProvider
<1>3. ASSUME NEW c \in Caller, FailInit(c) PROVE OnceInv'
  BY <1>3 DEF FailInit
<1>4. ASSUME NEW c \in Caller, SetProviders(c) \/ SetPropagator(c) \/ Enable(c) PROVE OnceInv'
  BY <1>4 DEF SetProviders, SetPropagator, Enable
<1>5. ASSUME NEW c \in Caller, ShutdownStep(c) PROVE OnceInv'
  BY <1>5 DEF ShutdownStep, CallShutdown, ShutProvider, ShutExporter, Disable
<1>6. ASSUME NEW has \in BOOLEAN, CarryTrace(has) PROVE OnceInv'
  BY <1>6 DEF CarryTrace
<1>7. CASE UNCHANGED vars
  BY <1>7 DEF vars
<1> QED
  BY <1>1, <1>2, <1>3, <1>4, <1>5, <1>6, <1>7 DEF Next, InitStep

LEMMA ShutdownInvStep == TypeOK /\ OnceInv /\ ShutdownInv /\ [Next]_vars => ShutdownInv'
<1> SUFFICES ASSUME TypeOK, OnceInv, ShutdownInv, [Next]_vars PROVE ShutdownInv'
  OBVIOUS
<1> USE DEF TypeOK, OnceInv, ShutdownInv, Goes, Building, InOnce, Shut, Of, Returns
<1>1. ASSUME NEW c \in Caller, CallInit(c) PROVE ShutdownInv'
  BY <1>1 DEF CallInit
<1>2. ASSUME NEW c \in Caller, EnterOnce(c) PROVE ShutdownInv'
  BY <1>2 DEF EnterOnce
<1>3. ASSUME NEW c \in Caller, LaterInit(c) PROVE ShutdownInv'
  BY <1>3 DEF LaterInit
<1>4. ASSUME NEW c \in Caller,
             buildResource(c) \/ buildTracerProvider(c) \/ buildMeterProvider(c)
      PROVE  ShutdownInv'
  BY <1>4 DEF buildResource, buildTracerProvider, buildMeterProvider
<1>5. ASSUME NEW c \in Caller, FailInit(c) PROVE ShutdownInv'
  BY <1>5 DEF FailInit
<1>6. ASSUME NEW c \in Caller, SetProviders(c) \/ SetPropagator(c) \/ Enable(c)
      PROVE  ShutdownInv'
  BY <1>6 DEF SetProviders, SetPropagator, Enable
<1>7. ASSUME NEW c \in Caller, CallShutdown(c) PROVE ShutdownInv'
  BY <1>7 DEF CallShutdown
<1>8. ASSUME NEW c \in Caller, ShutProvider(c) PROVE ShutdownInv'
  BY <1>8 DEF ShutProvider
<1>9. ASSUME NEW c \in Caller, ShutExporter(c) PROVE ShutdownInv'
  <2>1. open = Of("spans") \cup Of("metrics")
    BY DEF Exporter, Signal
  <2> QED
    BY <1>9, <2>1 DEF ShutExporter
<1>10. ASSUME NEW c \in Caller, Disable(c) PROVE ShutdownInv'
  BY <1>10 DEF Disable
<1>11. ASSUME NEW has \in BOOLEAN, CarryTrace(has) PROVE ShutdownInv'
  BY <1>11 DEF CarryTrace
<1>12. CASE UNCHANGED vars
  BY <1>12 DEF vars
<1> QED
  BY <1>1, <1>2, <1>3, <1>4, <1>5, <1>6, <1>7, <1>8, <1>9, <1>10, <1>11, <1>12
     DEF Next, InitStep, ShutdownStep

(* No exporter stays open behind an Init that failed or a Shutdown that returned,   *)
(* though several Shutdowns overlap and their contexts expire.                        *)
THEOREM ExportersClose == Spec => []NothingLeaks
<1>1. Init0 => IInv
  BY TypeInit DEF Init0, IInv, OnceInv, ShutdownInv, InOnce, Building, Shut, Of
<1>2. IInv /\ [Next]_vars => IInv'
  BY TypeStep, OnceStep, ShutdownInvStep DEF IInv
<1>3. IInv => NothingLeaks
  BY DEF IInv, ShutdownInv, NothingLeaks
<1> QED
  BY <1>1, <1>2, <1>3, PTL DEF Spec

-----------------------------------------------------------------------------
(* Guarded exports. *)

(* An exporter built from a configuration that passed the checks has its guards. *)
LEMMA ExporterGuarded ==
  ASSUME TypeOK, ensureRequired(Cfg), transportCredentials(Cfg) # "error", NEW signal
  PROVE  LET e == NewExporter(signal)
         IN /\ {asked.env.headers, asked.opts.headers} # {"none"} => e.key
            /\ <<asked.opts.insecure, asked.env.insecure>> \in
                 {<<"off", v>> : v \in {"unset", "on", "off"}} \cup {<<"unset", "off">>}
               => e.secure
<1> DEFINE env == asked.env  opts == asked.opts
<1>1. env \in Env /\ opts \in Env
  BY ConstAssumption DEF TypeOK, ConstAssumption
<1>2. /\ NewExporter(signal).key = (Cfg.headers = "good")
      /\ NewExporter(signal).secure = (transportCredentials(Cfg) = "tls")
  BY DEF NewExporter
<1>3. /\ Cfg.headers = FromEnv(env, opts).headers
      /\ Cfg.headersErr = FromEnv(env, opts).headersErr
      /\ Cfg.insecure = FromEnv(env, opts).insecure
      /\ Cfg.ca = FromEnv(env, opts).ca
  BY DEF Cfg, withDefaults, FromEnv
<1>4. env.headers # "none" \/ opts.headers # "none" => Cfg.headers = "good"
  BY <1>1, <1>3 DEF FromEnv, ensureRequired, Env
<1>5. opts.insecure = "off" \/ (opts.insecure = "unset" /\ env.insecure = "off")
        => transportCredentials(Cfg) = "tls"
  BY <1>1, <1>3 DEF FromEnv, Switch, transportCredentials, Env
<1> QED
  BY <1>2, <1>4, <1>5

LEMMA GuardStep == TypeOK /\ GuardInv /\ [Next]_vars => GuardInv'
<1> SUFFICES ASSUME TypeOK, GuardInv, [Next]_vars PROVE GuardInv'
  OBVIOUS
<1>1. asked' = asked /\ Cfg' = Cfg /\ ensureRequired(Cfg)' = ensureRequired(Cfg)
  <2>1. asked' = asked
    BY DEF Next, InitStep, ShutdownStep, CallInit, EnterOnce, LaterInit, buildResource,
           buildTracerProvider, buildMeterProvider, FailInit, SetProviders, SetPropagator,
           Enable, CallShutdown, ShutProvider, ShutExporter, Disable, CarryTrace, vars
  <2> QED
    BY <2>1 DEF Cfg, ensureRequired
<1>2. ASSUME NEW c \in Caller, NEW signal, ensureRequired(Cfg),
             transportCredentials(Cfg) # "error", open' = open \cup {NewExporter(signal)}
      PROVE  GuardedExport'
  BY <1>1, <1>2, ExporterGuarded DEF GuardInv, GuardedExport
<1>3. ASSUME open' \subseteq open PROVE GuardedExport'
  BY <1>1, <1>3 DEF GuardInv, GuardedExport
<1> USE DEF TypeOK, Goes, Building, InOnce
<1>4. ASSUME NEW c \in Caller, CallInit(c) \/ EnterOnce(c) \/ LaterInit(c) PROVE GuardInv'
  BY <1>1, <1>3, <1>4 DEF CallInit, EnterOnce, LaterInit, GuardInv
<1>5. ASSUME NEW c \in Caller, buildResource(c) PROVE GuardInv'
  BY <1>1, <1>3, <1>5 DEF buildResource, GuardInv
<1>6. ASSUME NEW c \in Caller, buildTracerProvider(c) \/ buildMeterProvider(c) PROVE GuardInv'
  BY <1>1, <1>2, <1>6 DEF buildTracerProvider, buildMeterProvider, GuardInv
<1>7. ASSUME NEW c \in Caller, FailInit(c) \/ SetProviders(c) \/ SetPropagator(c) \/ Enable(c)
      PROVE  GuardInv'
  BY <1>1, <1>3, <1>7 DEF FailInit, SetProviders, SetPropagator, Enable, GuardInv
<1>8. ASSUME NEW c \in Caller, ShutdownStep(c) PROVE GuardInv'
  BY <1>1, <1>3, <1>8
     DEF ShutdownStep, CallShutdown, ShutProvider, ShutExporter, Disable, Of, GuardInv
<1>9. ASSUME NEW has \in BOOLEAN, CarryTrace(has) PROVE GuardInv'
  BY <1>1, <1>3, <1>9 DEF CarryTrace, GuardInv
<1>10. CASE UNCHANGED vars
  BY <1>1, <1>3, <1>10 DEF vars, GuardInv
<1> QED
  BY <1>4, <1>5, <1>6, <1>7, <1>8, <1>9, <1>10 DEF Next, InitStep

(* No exporter runs without the key or the TLS its environment and options ask for. *)
THEOREM ExportersGuarded == Spec => []GuardedExport
<1>1. Init0 => TypeOK /\ GuardInv
  BY TypeInit DEF Init0, GuardInv, GuardedExport, InOnce, Building
<1>2. TypeOK /\ GuardInv /\ [Next]_vars => (TypeOK /\ GuardInv)'
  BY TypeStep, GuardStep
<1>3. GuardInv => GuardedExport
  BY DEF GuardInv
<1> QED
  BY <1>1, <1>2, <1>3, PTL DEF Spec

-----------------------------------------------------------------------------
(* Propagation. *)

LEMMA PropagatorStep == TypeOK /\ PropagatorInv /\ [Next]_vars => PropagatorInv'
<1> SUFFICES ASSUME TypeOK, PropagatorInv, [Next]_vars PROVE PropagatorInv'
  OBVIOUS
<1> USE DEF TypeOK, PropagatorInv, Goes, Building
<1>1. ASSUME NEW c \in Caller, CallInit(c) \/ EnterOnce(c) \/ LaterInit(c)
      PROVE  PropagatorInv'
  BY <1>1 DEF CallInit, EnterOnce, LaterInit
<1>2. ASSUME NEW c \in Caller,
             buildResource(c) \/ buildTracerProvider(c) \/ buildMeterProvider(c) \/ FailInit(c)
      PROVE  PropagatorInv'
  BY <1>2 DEF buildResource, buildTracerProvider, buildMeterProvider, FailInit
<1>3. ASSUME NEW c \in Caller, SetProviders(c) \/ SetPropagator(c) \/ Enable(c)
      PROVE  PropagatorInv'
  BY <1>3 DEF SetProviders, SetPropagator, Enable
<1>4. ASSUME NEW c \in Caller, ShutdownStep(c) PROVE PropagatorInv'
  BY <1>4 DEF ShutdownStep, CallShutdown, ShutProvider, ShutExporter, Disable
<1>5. ASSUME NEW has \in BOOLEAN, CarryTrace(has) PROVE PropagatorInv'
  BY <1>5 DEF CarryTrace, Propagates
<1>6. CASE UNCHANGED vars
  BY <1>6 DEF vars
<1> QED
  BY <1>1, <1>2, <1>3, <1>4, <1>5, <1>6 DEF Next, InitStep

(* The trace of a message survives in every state of the tracing. *)
THEOREM TracePropagates == Spec => []TraceSurvives
<1>1. Init0 => TypeOK /\ PropagatorInv
  BY TypeInit DEF Init0, PropagatorInv
<1>2. TypeOK /\ PropagatorInv /\ [Next]_vars => (TypeOK /\ PropagatorInv)'
  BY TypeStep, PropagatorStep
<1>3. PropagatorInv => TraceSurvives
  BY DEF PropagatorInv, TraceSurvives
<1> QED
  BY <1>1, <1>2, <1>3, PTL DEF Spec

-----------------------------------------------------------------------------
(* LogPipeline. *)

Sampler == [config : Config, count : Nat, resetAt : 0 .. MaxTime, silent : Int]

(* The lines a sampler has dropped since the last one that reported any. *)
Pending(s) ==
  IF s.count > s.config.initial /\ s.config.thereafter > 0
  THEN (s.count - s.config.initial) % s.config.thereafter ELSE 0

InSampler == {"load", "storeReset", "storeCount", "add"}

(* What a sampler holds back covers what is pending: a turn reports no more than *)
(* that.  Nobody counts in a sampler that is off.                              *)
SamplerInv ==
  /\ \A g \in DOMAIN samplers : samplers[g].silent >= Pending(samplers[g])
  /\ \A c \in Logger : where[c] \in InSampler => Mine(c).config.initial > 0

(* The hook and the client that made a call owe an event are there as long as it does. *)
EventInv ==
  /\ \A c \in Logger : call[c].owes => client /\ hooks[call[c].level] > 0
  /\ EventsFollow

-----------------------------------------------------------------------------
(* The samplers. *)

(* Counting on by one: a remainder grows by one, or starts again. *)
LEMMA RemainderUnique ==
  ASSUME NEW t \in Nat \ {0}, NEW q \in Int, NEW p \in Int,
         NEW r \in 0 .. t - 1, NEW s \in 0 .. t - 1, t * q + r = t * p + s
  PROVE  r = s
  <1>1. t * (q - p) = s - r
    OBVIOUS
  <1>2. ASSUME NEW k \in Int, k >= 1 PROVE t * k >= t
    BY <1>2
  <1>3. ASSUME NEW k \in Int, k <= -1 PROVE t * k <= -t
    BY <1>3
  <1>4. q = p
    BY <1>1, <1>2, <1>3
  <1> QED
    BY <1>4

LEMMA NextRemainder ==
  ASSUME NEW n \in Nat, NEW t \in Nat \ {0}
  PROVE  /\ n % t \in 0 .. t - 1
         /\ (n + 1) % t = (IF n % t = t - 1 THEN 0 ELSE (n % t) + 1)
  <1>1. n % t \in 0 .. t - 1 /\ n = t * (n \div t) + (n % t) /\ n \div t \in Int
    OBVIOUS
  <1>2. /\ (n + 1) % t \in 0 .. t - 1
        /\ n + 1 = t * ((n + 1) \div t) + ((n + 1) % t) /\ (n + 1) \div t \in Int
    OBVIOUS
  <1>3. CASE n % t = t - 1
    <2> DEFINE q == (n \div t) + 1
    <2>1. n + 1 = t * q + 0 /\ q \in Int /\ 0 \in 0 .. t - 1
      BY <1>1, <1>3
    <2> HIDE DEF q
    <2>2. (n + 1) % t = 0
      BY <1>1, <1>2, <2>1, RemainderUnique
    <2> QED
      BY <1>1, <1>3, <2>2
  <1>4. CASE n % t # t - 1
    <2>1. n + 1 = t * (n \div t) + ((n % t) + 1) /\ (n % t) + 1 \in 0 .. t - 1
      BY <1>1, <1>4
    <2>2. (n + 1) % t = (n % t) + 1
      BY <1>1, <1>2, <2>1, RemainderUnique
    <2> QED
      BY <1>1, <1>4, <2>2
  <1> QED
    BY <1>3, <1>4

(* The current sampler, those of calls under way, and an update of one. *)
LEMMA SamplerTypes ==
  ASSUME LogTypeOK
  PROVE  /\ Current \in Nat \ {0} /\ DOMAIN samplers = 1 .. Current
         /\ \A g \in 1 .. Current : samplers[g] \in Sampler
         /\ \A c \in Logger : call[c].gen \in 1 .. Current /\ Mine(c) \in Sampler
  <1>1. samplers \in Seq(Sampler) /\ samplers # <<>>
    BY DEF LogTypeOK, Sampler
  <1>2. Current \in Nat \ {0} /\ DOMAIN samplers = 1 .. Current
        /\ \A g \in 1 .. Current : samplers[g] \in Sampler
    BY <1>1 DEF Current
  <1> QED
    BY <1>2 DEF LogTypeOK, Mine

LEMMA SamplerUpdate ==
  ASSUME LogTypeOK, NEW g \in 1 .. Current, NEW s \in Sampler,
         samplers' = [samplers EXCEPT ![g] = s]
  PROVE  /\ samplers' \in Seq(Sampler) /\ samplers' # <<>> /\ Current' = Current
         /\ samplers'[g] = s
         /\ \A h \in 1 .. Current : h # g => samplers'[h] = samplers[h]
  <1>1. samplers \in Seq(Sampler)
    BY DEF LogTypeOK, Sampler
  <1> QED
    BY <1>1, SamplerTypes DEF Current

(* What the n-th line of a period does to the lines held back. *)
HeldAfter(s) ==
  LET n == s.count + 1
  IN IF InBurst(s.config, n) THEN s.silent
     ELSE IF HasTurn(s.config, n) THEN s.silent - (s.config.thereafter - 1)
     ELSE s.silent + 1

(* sampler.check writes one sampler, the one the call noted, and no configuration. *)
LEMMA CheckWrites ==
  ASSUME LogTypeOK, NEW c \in Logger, StoreReset(c) \/ StoreCount(c) \/ Add(c)
  PROVE  \E s \in Sampler :
           /\ samplers' = [samplers EXCEPT ![call[c].gen] = s]
           /\ s.config = Mine(c).config
           /\ \/ StoreReset(c) /\ s.count = Mine(c).count /\ s.silent = Mine(c).silent
              \/ StoreCount(c) /\ s.count = 1 /\ s.silent = Mine(c).silent
              \/ Add(c) /\ s.count = Mine(c).count + 1 /\ s.silent = HeldAfter(Mine(c))
  <1> DEFINE g == call[c].gen
  <1>1. g \in 1 .. Current /\ samplers[g] \in Sampler /\ samplers \in Seq(Sampler)
        /\ DOMAIN samplers = 1 .. Current /\ call[c].at \in 0 .. MaxTime
    BY SamplerTypes DEF LogTypeOK, Sampler, Mine
  <1>2. CASE StoreReset(c)
    <2> DEFINE s == [samplers[g] EXCEPT !.resetAt = call[c].at]
    <2>1. s \in Sampler /\ s.config = Mine(c).config /\ s.count = Mine(c).count
          /\ s.silent = Mine(c).silent
      BY <1>1 DEF Sampler, Mine
    <2>2. samplers' = [samplers EXCEPT ![g] = s]
      BY <1>2 DEF StoreReset
    <2> QED
      BY <1>2, <2>1, <2>2
  <1>3. CASE StoreCount(c)
    <2> DEFINE s == [samplers[g] EXCEPT !.count = 1]
    <2>1. s \in Sampler /\ s.config = Mine(c).config /\ s.count = 1 /\ s.silent = Mine(c).silent
      BY <1>1 DEF Sampler, Mine
    <2>2. samplers' = [samplers EXCEPT ![g] = s]
      BY <1>3 DEF StoreCount
    <2> QED
      BY <1>3, <2>1, <2>2
  <1>4. CASE Add(c)
    <2> DEFINE m == Mine(c)
               n == m.count + 1
               s == [samplers[g] EXCEPT !.count = n, !.silent = HeldAfter(m)]
    <2>1. m \in Sampler /\ m = samplers[g]
      BY <1>1 DEF Mine
    <2>2. /\ m.silent \in Int /\ m.count \in Nat
          /\ m.config.initial \in Nat /\ m.config.thereafter \in Nat
      BY <2>1 DEF Sampler, Config
    <2> HIDE DEF m
    <2>3. HeldAfter(m) \in Int /\ n \in Nat
      BY <2>2 DEF HeldAfter
    <2>4. s \in Sampler /\ s.config = m.config /\ s.count = n /\ s.silent = HeldAfter(m)
      BY <2>1, <2>3 DEF Sampler
    <2>5. InBurst(m.config, n) => ~HasTurn(m.config, n)
      BY <2>2, <2>3 DEF InBurst, HasTurn
    <2>6. samplers' = [samplers EXCEPT ![g].count = n, ![g].silent = HeldAfter(m)]
      <3>1. CASE InBurst(m.config, n)
        BY <1>4, <2>2, <2>5, <3>1 DEF Add, HeldAfter, m
      <3>2. CASE HasTurn(m.config, n)
        BY <1>4, <2>2, <2>5, <3>2 DEF Add, HeldAfter, m
      <3>3. CASE ~InBurst(m.config, n) /\ ~HasTurn(m.config, n)
        BY <1>4, <2>2, <3>3 DEF Add, HeldAfter, m
      <3> QED
        BY <3>1, <3>2, <3>3
    <2>7. samplers' = [samplers EXCEPT ![g] = s]
      BY <1>1, <2>1, <2>6
    <2> QED
      BY <1>4, <2>4, <2>7 DEF m
  <1> QED
    BY <1>2, <1>3, <1>4

-----------------------------------------------------------------------------
(* The steps of a goroutine, by what they do. *)

(* The entry points: a call goes to the sampler only when that is on. *)
Entry(c) ==
  \E level \in Level, to \in {"load", "window", "emit"} :
    /\ Begin(c, level, to)
    /\ to = "load" => samplers[Current].config.initial > 0

(* A direct send that gives Sentry nothing is a SendSentryError. *)
DirectSend(c) ==
  \E k \in Kind, sent \in BOOLEAN : Direct(c, k, sent) /\ (client /\ ~sent => k = "sendError")

LEMMA LogSteps ==
  ASSUME LogTypeOK, NEW c \in Logger, Log(c)
  PROVE  \/ Entry(c)
         \/ LoadReset(c) \/ StoreReset(c) \/ StoreCount(c) \/ Add(c)
         \/ Window(c) \/ AddSuppressed(c) \/ Swap(c) \/ StoreLast(c)
         \/ Emit(c)
         \/ DirectSend(c)
  <1>1. SamplerStep \in {"load", "window", "emit"}
        /\ (SamplerStep = "load" => samplers[Current].config.initial > 0)
    BY SamplerTypes DEF SamplerStep, Sampler, Config
  <1>2. ASSUME LogSampled(c) \/ LogE(c) \/ LogF(c) \/ LogWindowed(c) PROVE Entry(c)
    <2>1. CASE LogSampled(c)
      BY <1>1, <2>1 DEF LogSampled, Entry, Level
    <2>2. CASE LogE(c) \/ LogF(c)
      BY <2>2 DEF LogE, LogF, Entry, Level
    <2>3. CASE LogWindowed(c)
      BY <2>3 DEF LogWindowed, Entry, Level
    <2> QED
      BY <1>2, <2>1, <2>2, <2>3
  <1>3. client \in BOOLEAN
    BY DEF LogTypeOK
  <1>4. ASSUME SendWithContext(c) PROVE DirectSend(c)
    BY <1>3, <1>4 DEF SendWithContext, DirectSend, Kind
  <1>5. ASSUME NEW k \in Kind, Send(c, k) PROVE DirectSend(c)
    <2>1. (client /\ Dispatched(k)) \in BOOLEAN
      BY <1>3 DEF Dispatched
    <2>2. client /\ ~(client /\ Dispatched(k)) => k = "sendError"
      BY DEF Dispatched
    <2> QED
      BY <1>5, <2>1, <2>2 DEF Send, DirectSend
  <1>6. ASSUME NEW k \in Kind, SendTo(c, k) PROVE DirectSend(c) \/ Entry(c)
    <2>1. CASE client /\ Direct(c, k, TRUE)
      BY <2>1 DEF DirectSend
    <2>2. CASE ~client /\ Begin(c, "info", SamplerStep)
      BY <1>1, <2>2 DEF Entry, Level
    <2> QED
      BY <1>6, <2>1, <2>2 DEF SendTo
  <1> QED
    BY <1>2, <1>4, <1>5, <1>6 DEF Log

-----------------------------------------------------------------------------
(* Type correctness. *)

Places == {"idle", "load", "storeReset", "storeCount", "add", "window", "hold", "swap",
           "storeLast", "emit"}

LEMMA FreshSampler ==
  ASSUME NEW config \in Config
  PROVE  Fresh(config) \in Sampler
  BY LogAssumption DEF LogAssumption, Fresh, Sampler

LEMMA LogTypeInit == LogInit => LogTypeOK
<1> SUFFICES ASSUME LogInit PROVE LogTypeOK
  OBVIOUS
<1>1. samplers \in Seq(Sampler) /\ samplers # <<>> /\ Current = 1
  BY LogAssumption, FreshSampler DEF LogAssumption, LogInit, Current
<1>2. /\ now \in 1 .. MaxTime /\ lastEmit \in 0 .. MaxTime /\ suppressed \in Nat
      /\ calls \in 0 .. MaxCalls /\ setups \in 0 .. MaxSetups
  BY LogAssumption DEF LogAssumption, LogInit
<1>3. {samplerOnce, hookOnce, client, exited} \subseteq BOOLEAN
  BY Zenon DEF LogInit
<1>4. NoCall \in [level : Level, gen : 1 .. Current, at : 0 .. MaxTime, owes : BOOLEAN]
  BY <1>1, LogAssumption DEF LogAssumption, NoCall, Level
<1>5. /\ call \in [Logger -> [level : Level, gen : 1 .. Current, at : 0 .. MaxTime, owes : BOOLEAN]]
      /\ where \in [Logger -> Places]
  BY <1>4 DEF LogInit, Places
<1>6. hooks \in [Level -> Nat] /\ heldBack \in Int /\ chosen \subseteq Configs
      /\ lost \subseteq Level \cup Kind
  BY DEF LogInit
<1> QED
  BY <1>1, <1>2, <1>3, <1>5, <1>6 DEF LogTypeOK, Sampler, Places

(* The calls under way, and where they are, as LogTypeOK has them. *)
CallTypes ==
  /\ where \in [Logger -> Places]
  /\ call \in [Logger -> [level : Level, gen : 1 .. Current, at : 0 .. MaxTime, owes : BOOLEAN]]
  /\ lost \subseteq Level \cup Kind

LEMMA EndTypes ==
  ASSUME LogTypeOK, NEW c \in Logger, NEW from, NEW events,
         EndSilently(c, from) \/ EndWritten(c, events), Current' = Current
  PROVE  CallTypes'
<1>1. NoCall \in [level : Level, gen : 1 .. Current, at : 0 .. MaxTime, owes : BOOLEAN]
  BY SamplerTypes, LogAssumption DEF LogAssumption, NoCall, Level
<1>2. CASE EndSilently(c, from)
  BY <1>1, <1>2 DEF LogTypeOK, CallTypes, EndSilently, LogGoes, Places
<1>3. CASE EndWritten(c, events)
  <2>1. lost' \subseteq Level \cup Kind
    BY <1>3 DEF LogTypeOK, EndWritten
  <2> QED
    BY <1>1, <1>3, <2>1 DEF LogTypeOK, CallTypes, EndWritten, LogGoes, Places
<1> QED
  BY <1>2, <1>3

LEMMA LimiterTypes ==
  ASSUME LogTypeOK, NEW c \in Logger, AddSuppressed(c) \/ Swap(c) \/ StoreLast(c)
  PROVE  lastEmit' \in 0 .. MaxTime /\ suppressed' \in Nat /\ heldBack' \in Int
<1>1. /\ lastEmit \in 0 .. MaxTime /\ suppressed \in Nat /\ heldBack \in Int
      /\ call[c].at \in 0 .. MaxTime
  BY DEF LogTypeOK
<1>2. CASE AddSuppressed(c)
  BY <1>1, <1>2 DEF AddSuppressed
<1>3. CASE Swap(c)
  BY <1>1, <1>3 DEF Swap
<1>4. CASE StoreLast(c)
  BY <1>1, <1>4 DEF StoreLast
<1> QED
  BY <1>2, <1>3, <1>4

LEMMA LogStepTypes ==
  ASSUME LogTypeOK, NEW c \in Logger, Log(c)
  PROVE  LogTypeOK'
<1> USE DEF LogTypeOK, LogGoes, setupVars, limitVars
<1>1. samplers \in Seq(Sampler) /\ Current \in Nat \ {0}
  BY SamplerTypes DEF Sampler
<1>2. CASE Entry(c)
  <2>1. PICK level \in Level, to \in {"load", "window", "emit"} :
          Begin(c, level, to)
    BY <1>2 DEF Entry
  <2> DEFINE noted == [level |-> level, gen |-> Current, at |-> now,
                       owes |-> client /\ hooks[level] > 0]
  <2>2. call' \in [Logger -> [level : Level, gen : 1 .. Current, at : 0 .. MaxTime,
                              owes : BOOLEAN]]
    <3>1. now \in 0 .. MaxTime /\ Current \in 1 .. Current
      BY <1>1, LogAssumption DEF LogAssumption
    <3>2. noted \in [level : Level, gen : 1 .. Current, at : 0 .. MaxTime, owes : BOOLEAN]
      BY <3>1
    <3>3. call' = [call EXCEPT ![c] = noted]
      BY <2>1 DEF Begin
    <3> HIDE DEF noted
    <3> QED
      BY <3>2, <3>3
  <2>3. calls' \in 0 .. MaxCalls
    BY <2>1, LogAssumption DEF LogAssumption, Begin
  <2> QED
    BY <2>1, <2>2, <2>3 DEF Begin, Current
<1>3. CASE LoadReset(c)
  BY <1>3 DEF LoadReset, Current
<1>4. CASE StoreReset(c) \/ StoreCount(c) \/ Add(c)
  <2>1. samplers' \in Seq(Sampler) /\ samplers' # <<>> /\ Current' = Current
    <3>1. PICK s \in Sampler : samplers' = [samplers EXCEPT ![call[c].gen] = s]
      BY <1>4, CheckWrites
    <3> QED
      BY <3>1, SamplerTypes, SamplerUpdate
  <2>2. CallTypes'
    <3>1. CASE StoreReset(c) \/ StoreCount(c)
      BY <2>1, <3>1 DEF StoreReset, StoreCount, CallTypes, Places
    <3>2. CASE LogGoes(c, "add", "emit") /\ UNCHANGED <<call, lost>>
      BY <2>1, <3>2 DEF CallTypes, Places
    <3>3. CASE Add(c) /\ EndSilently(c, "add")
      BY <2>1, <3>3, EndTypes
    <3> QED
      BY <1>4, <3>1, <3>2, <3>3 DEF Add
  <2>3. UNCHANGED <<now, lastEmit, suppressed, heldBack, setupVars, exited, calls>>
    BY <1>4 DEF StoreReset, StoreCount, Add
  <2> QED
    BY <2>1, <2>2, <2>3 DEF CallTypes, Places, Sampler
<1>5. CASE Window(c)
  BY <1>5 DEF Window, Current
<1>9. CASE AddSuppressed(c)
  <2>1. CallTypes'
    BY <1>9, EndTypes DEF AddSuppressed, Current
  <2>2. suppressed' \in Nat /\ heldBack' \in Int
    BY <1>9, LimiterTypes
  <2> QED
    BY <1>9, <2>1, <2>2 DEF AddSuppressed, CallTypes, Places, Current
<1>6. CASE Swap(c) \/ StoreLast(c)
  <2>1. CallTypes'
    BY <1>6 DEF Swap, StoreLast, CallTypes, Places, Current
  <2>2. lastEmit' \in 0 .. MaxTime /\ suppressed' \in Nat /\ heldBack' \in Int
    BY <1>6, LimiterTypes
  <2>3. UNCHANGED <<now, samplers, setupVars, exited, calls>>
    BY <1>6 DEF Swap, StoreLast
  <2> QED
    BY <2>1, <2>2, <2>3 DEF CallTypes, Places
<1>7. CASE Emit(c)
  <2>1. CallTypes'
    BY <1>7, EndTypes DEF Emit, Current
  <2>2. {samplerOnce, hookOnce, client, exited}' \subseteq BOOLEAN
    BY <1>7 DEF Emit
  <2> QED
    BY <1>7, <2>1, <2>2 DEF Emit, CallTypes, Places, Current
<1>8. CASE DirectSend(c)
  <2>1. PICK k \in Kind, sent \in BOOLEAN : Direct(c, k, sent)
    BY <1>8 DEF DirectSend
  <2>2. calls' \in 0 .. MaxCalls
    BY <2>1, LogAssumption DEF LogAssumption, Direct
  <2> QED
    BY <2>1, <2>2 DEF Direct, Current
<1> QED
  BY LogSteps, <1>2, <1>3, <1>4, <1>5, <1>6, <1>7, <1>8, <1>9

(* What a set-up call does to hooks, client and flags: nothing is taken away. *)
LEMMA ServiceSteps ==
  ASSUME LogTypeOK, Service
  PROVE  /\ UNCHANGED <<now, limitVars, lost, where, call, exited, calls>>
         /\ setups' \in 0 .. MaxSetups /\ hooks' \in [Level -> Nat]
         /\ samplerOnce' \in BOOLEAN /\ hookOnce' \in BOOLEAN /\ client' \in BOOLEAN
         /\ (client => client') /\ (samplerOnce => samplerOnce')
         /\ \A l \in Level : hooks'[l] >= hooks[l]
<1>1. hooks \in [Level -> Nat] /\ samplerOnce \in BOOLEAN /\ hookOnce \in BOOLEAN
      /\ client \in BOOLEAN /\ setups \in 0 .. MaxSetups
  BY DEF LogTypeOK
<1>2. setups' \in 0 .. MaxSetups
  BY <1>1, LogAssumption DEF LogAssumption, Service, InitSentry, RegisterSentryLogHook,
     InitializeLogger, InitializeApp, ConfigureLogForwarding, InitializeSampler, Setup
<1>3. UNCHANGED <<now, limitVars, lost, where, call, exited, calls>>
  BY DEF Service, InitSentry, RegisterSentryLogHook, InitializeLogger, InitializeApp,
     ConfigureLogForwarding, InitializeSampler
<1>4. hooks' \in [Level -> Nat] /\ \A l \in Level : hooks'[l] >= hooks[l]
  <2>1. CASE RegisterSentryLogHook
    BY <1>1, <2>1 DEF RegisterSentryLogHook
  <2>2. ASSUME NEW levels \in SUBSET Level, ConfigureLogForwarding(levels)
        PROVE  hooks' \in [Level -> Nat] /\ \A l \in Level : hooks'[l] >= hooks[l]
    BY <1>1, <2>2 DEF ConfigureLogForwarding
  <2>3. CASE UNCHANGED hooks
    BY <1>1, <2>3
  <2> QED
    BY <2>1, <2>2, <2>3 DEF Service, InitSentry, InitializeLogger, InitializeApp, InitializeSampler
<1>5. client' = client \/ client' = TRUE
  BY DEF Service, InitSentry, RegisterSentryLogHook, InitializeLogger, InitializeApp,
     ConfigureLogForwarding, InitializeSampler
<1>6. hookOnce' = hookOnce \/ hookOnce' = TRUE
  BY DEF Service, InitSentry, RegisterSentryLogHook, InitializeLogger, InitializeApp,
     ConfigureLogForwarding, InitializeSampler
<1>7. samplerOnce' = samplerOnce \/ samplerOnce' = TRUE
  BY DEF Service, InitSentry, RegisterSentryLogHook, InitializeLogger, InitializeApp,
     ConfigureLogForwarding, InitializeSampler
<1> QED
  BY <1>1, <1>2, <1>3, <1>4, <1>5, <1>6, <1>7

(* A set-up call leaves the samplers and the service's choice alone, or adds a      *)
(* sampler, of which the choice then speaks if of any.                             *)
LEMMA ServiceSamplers ==
  ASSUME LogTypeOK, Service, samplerOnce
  PROVE  \/ samplers' = samplers /\ chosen' = chosen
         \/ \E config \in Config : /\ samplers' = Append(samplers, Fresh(config))
                                  /\ chosen' \subseteq {config} /\ chosen' \subseteq Configs
<1>1. EnvConfig \in Config /\ Configs \subseteq Config
  BY LogAssumption DEF LogAssumption
<1>2. CASE InitSentry \/ RegisterSentryLogHook \/ InitializeApp
           \/ \E levels \in SUBSET Level \ {{}} : ConfigureLogForwarding(levels)
  BY <1>2 DEF InitSentry, RegisterSentryLogHook, InitializeApp, ConfigureLogForwarding
<1>3. CASE InitializeLogger
  BY <1>1, <1>3 DEF InitializeLogger, UseSampler
<1>4. ASSUME NEW config \in Configs, InitializeSampler(config)
      PROVE  samplers' = Append(samplers, Fresh(config)) /\ chosen' = {config}
  BY <1>4 DEF InitializeSampler, UseSampler
<1> QED
  BY <1>1, <1>2, <1>3, <1>4 DEF Service

LEMMA AppendedSampler ==
  ASSUME LogTypeOK, NEW config \in Config, samplers' = Append(samplers, Fresh(config))
  PROVE  /\ samplers' \in Seq(Sampler) /\ samplers' # <<>> /\ Current' = Current + 1
         /\ samplers'[Current'] = Fresh(config)
         /\ \A g \in 1 .. Current : samplers'[g] = samplers[g]
<1>1. samplers \in Seq(Sampler) /\ Fresh(config) \in Sampler
  BY FreshSampler DEF LogTypeOK, Sampler
<1> QED
  BY <1>1 DEF Current

(* The first Init has run the Once, so InitializeApp never builds a sampler again. *)
OnceRun == samplerOnce = TRUE

LEMMA LogTypeStep == LogTypeOK /\ OnceRun /\ [LogNext]_logVars => (LogTypeOK /\ OnceRun)'
<1> SUFFICES ASSUME LogTypeOK, OnceRun, [LogNext]_logVars PROVE LogTypeOK' /\ OnceRun'
  OBVIOUS
<1>1. ASSUME NEW c \in Logger, Log(c) PROVE LogTypeOK' /\ OnceRun'
  <2>1. UNCHANGED setupVars
    BY <1>1, LogSteps DEF Entry, Begin, LoadReset, StoreReset, StoreCount, Add, Window,
       AddSuppressed, Swap,
       StoreLast, Emit, DirectSend, Direct
  <2> QED
    BY <1>1, <2>1, LogStepTypes DEF OnceRun, setupVars
<1>2. CASE Service
  <2>1. samplers' \in Seq(Sampler) /\ samplers' # <<>> /\ chosen' \subseteq Configs
        /\ (Current' = Current \/ Current' = Current + 1)
    <3>1. CASE samplers' = samplers /\ chosen' = chosen
      BY <3>1 DEF LogTypeOK, Sampler, Current
    <3>2. ASSUME NEW config \in Config, samplers' = Append(samplers, Fresh(config))
          PROVE  samplers' \in Seq(Sampler) /\ samplers' # <<>> /\ Current' = Current + 1
      BY <3>2, AppendedSampler
    <3> QED
      BY <1>2, <3>1, <3>2, ServiceSamplers DEF OnceRun
  <2>2. 1 .. Current \subseteq 1 .. Current'
    BY <2>1, SamplerTypes
  <2>3. /\ setups' \in 0 .. MaxSetups /\ hooks' \in [Level -> Nat]
        /\ UNCHANGED <<now, limitVars, lost, where, call, exited, calls>>
        /\ samplerOnce' \in BOOLEAN /\ hookOnce' \in BOOLEAN /\ client' \in BOOLEAN
    BY <1>2, ServiceSteps
  <2>4. CallTypes'
    BY <2>2, <2>3 DEF LogTypeOK, CallTypes, Places
  <2>5. LogTypeOK'
    BY <2>1, <2>3, <2>4 DEF LogTypeOK, CallTypes, Places, limitVars, Sampler
  <2>6. samplerOnce' = TRUE
    BY <1>2, ServiceSteps DEF OnceRun
  <2> QED
    BY <2>5, <2>6 DEF OnceRun
<1>3. CASE Tick
  <2>1. now' \in 1 .. MaxTime
    BY <1>3, LogAssumption DEF LogAssumption, LogTypeOK, Tick
  <2> QED
    BY <1>3, <2>1 DEF LogTypeOK, OnceRun, Tick, limitVars, setupVars, Current
<1>4. CASE UNCHANGED logVars
  BY <1>4 DEF LogTypeOK, OnceRun, logVars, limitVars, setupVars, Current
<1> QED
  BY <1>1, <1>2, <1>3, <1>4 DEF LogNext

(* The shared counters, samplers and calls keep their types, whoever logs and sets  *)
(* logging up meanwhile.                                                           *)
THEOREM LogTypes == LogSpec => []LogTypeOK
<1>1. LogInit => LogTypeOK /\ OnceRun
  BY LogTypeInit DEF LogInit, OnceRun
<1> QED
  BY <1>1, LogTypeStep, PTL DEF LogSpec

-----------------------------------------------------------------------------
(* Suppressed lines. *)

LEMMA PendingNat ==
  ASSUME NEW s \in Sampler
  PROVE  Pending(s) \in Nat
<1>1. s.count \in Nat /\ s.config.initial \in Nat /\ s.config.thereafter \in Nat
  BY DEF Sampler, Config
<1>2. CASE s.count > s.config.initial /\ s.config.thereafter > 0
  <2>1. s.count - s.config.initial \in Nat /\ s.config.thereafter \in Nat \ {0}
    BY <1>1, <1>2
  <2>2. (s.count - s.config.initial) % s.config.thereafter \in 0 .. s.config.thereafter - 1
    BY <2>1, NextRemainder
  <2> QED
    BY <1>2, <2>1, <2>2 DEF Pending
<1>3. CASE ~(s.count > s.config.initial /\ s.config.thereafter > 0)
  BY <1>3 DEF Pending
<1> QED
  BY <1>2, <1>3

(* One more line: what is held back then covers what is pending then. *)
LEMMA HeldCoversPending ==
  ASSUME NEW s \in Sampler, s.silent >= Pending(s),
         NEW z \in Sampler, z.config = s.config, z.count = s.count + 1, z.silent = HeldAfter(s)
  PROVE  z.silent >= Pending(z)
<1> DEFINE i == s.config.initial
           t == s.config.thereafter
           n == s.count
<1>1. i \in Nat /\ t \in Nat /\ n \in Nat /\ s.silent \in Int
  BY DEF Sampler, Config
<1>2. Pending(s) = IF n > i /\ t > 0 THEN (n - i) % t ELSE 0
  BY DEF Pending
<1>3. Pending(z) = IF n + 1 > i /\ t > 0 THEN (n + 1 - i) % t ELSE 0
  <2>1. z.count = n + 1 /\ z.config.initial = i /\ z.config.thereafter = t
    OBVIOUS
  <2> QED
    BY <1>1, <2>1 DEF Pending
<1>4. HeldAfter(s) = IF n + 1 <= i THEN s.silent
                     ELSE IF n + 1 > i /\ t > 0 /\ (n + 1 - i) % t = 0 THEN s.silent - (t - 1)
                     ELSE s.silent + 1
  BY <1>1 DEF HeldAfter, InBurst, HasTurn
<1> HIDE DEF i, t, n
<1>5. s.silent >= 0 /\ z.silent = HeldAfter(s)
  BY <1>1, PendingNat
<1>6. CASE n + 1 <= i \/ t = 0
  BY <1>1, <1>3, <1>4, <1>5, <1>6
<1>7. CASE n + 1 > i /\ t > 0
  <2>1. n - i \in Nat /\ (n - i) + 1 = n + 1 - i /\ t \in Nat \ {0}
    BY <1>1, <1>7
  <2>2. /\ (n - i) % t \in 0 .. t - 1
        /\ (n + 1 - i) % t = (IF (n - i) % t = t - 1 THEN 0 ELSE ((n - i) % t) + 1)
    BY <2>1, NextRemainder
  <2>3. s.silent >= (n - i) % t
    <3>1. CASE n > i
      BY <1>2, <1>7, <3>1
    <3>2. CASE n = i
      <4>1. 0 % t = 0
        BY <2>1
      <4> QED
        BY <1>1, <1>5, <3>2, <4>1
    <3> QED
      BY <1>1, <1>7, <3>1, <3>2
  <2>4. Pending(z) = (n + 1 - i) % t
    BY <1>3, <1>7
  <2>5. CASE (n - i) % t = t - 1
    BY <1>1, <1>4, <1>5, <1>7, <2>1, <2>2, <2>3, <2>4, <2>5
  <2>6. CASE (n - i) % t # t - 1
    BY <1>1, <1>4, <1>5, <1>7, <2>1, <2>2, <2>3, <2>4, <2>6
  <2> QED
    BY <2>5, <2>6
<1> QED
  BY <1>1, <1>6, <1>7

(* A step that changes no sampler and lets nobody into one. *)
LEMMA QuietKeepsSamplers ==
  ASSUME LogTypeOK, SamplerInv, UNCHANGED samplers,
         \A c \in Logger : where'[c] \in InSampler =>
           where[c] \in InSampler /\ call'[c].gen = call[c].gen
  PROVE  SamplerInv'
  BY DEF SamplerInv, Mine

LEMMA CheckKeepsSamplers ==
  ASSUME LogTypeOK, SamplerInv, NEW c \in Logger, StoreReset(c) \/ StoreCount(c) \/ Add(c)
  PROVE  SamplerInv'
<1> DEFINE g == call[c].gen
<1>1. PICK s \in Sampler :
        /\ samplers' = [samplers EXCEPT ![g] = s]
        /\ s.config = Mine(c).config
        /\ \/ StoreReset(c) /\ s.count = Mine(c).count /\ s.silent = Mine(c).silent
           \/ StoreCount(c) /\ s.count = 1 /\ s.silent = Mine(c).silent
           \/ Add(c) /\ s.count = Mine(c).count + 1 /\ s.silent = HeldAfter(Mine(c))
  BY CheckWrites
<1>2. /\ g \in 1 .. Current /\ DOMAIN samplers = 1 .. Current /\ Mine(c) \in Sampler
      /\ Mine(c) = samplers[g] /\ \A d \in Logger : call[d].gen \in 1 .. Current
  BY SamplerTypes DEF Mine
<1>3. /\ samplers'[g] = s /\ DOMAIN samplers' = 1 .. Current
      /\ \A h \in 1 .. Current : h # g => samplers'[h] = samplers[h]
  BY <1>1, <1>2
<1>4. where[c] \in InSampler
  BY <1>1 DEF StoreReset, StoreCount, Add, EndSilently, EndWritten, LogGoes, InSampler
<1>5. Mine(c).config.initial > 0 /\ Mine(c).silent >= Pending(Mine(c))
  BY <1>2, <1>4 DEF SamplerInv
<1>6. s.silent >= Pending(s)
  <2>1. CASE StoreReset(c) /\ s.count = Mine(c).count /\ s.silent = Mine(c).silent
    BY <1>1, <1>5, <2>1 DEF Pending
  <2>2. CASE StoreCount(c) /\ s.count = 1 /\ s.silent = Mine(c).silent
    <3>1. /\ Mine(c).count \in Nat /\ Mine(c).silent \in Int
          /\ Mine(c).config.initial \in Nat /\ Mine(c).config.thereafter \in Nat
      BY <1>2 DEF Sampler, Config
    <3>2. Pending(s) = 0
      BY <1>1, <1>5, <2>2, <3>1 DEF Pending
    <3>3. Pending(Mine(c)) \in Nat
      BY <1>2, PendingNat
    <3> QED
      BY <1>5, <2>2, <3>1, <3>2, <3>3
  <2>3. CASE Add(c) /\ s.count = Mine(c).count + 1 /\ s.silent = HeldAfter(Mine(c))
    BY <1>1, <1>2, <1>5, <2>3, HeldCoversPending
  <2> QED
    BY <1>1, <2>1, <2>2, <2>3
<1>7. \A h \in DOMAIN samplers' : samplers'[h].silent >= Pending(samplers'[h])
  BY <1>2, <1>3, <1>6 DEF SamplerInv
<1>8. ASSUME NEW d \in Logger, where'[d] \in InSampler PROVE Mine(d)'.config.initial > 0
  <2>1. d # c => where'[d] = where[d] /\ call'[d] = call[d]
    BY <1>1 DEF StoreReset, StoreCount, Add, EndSilently, EndWritten, LogGoes, LogTypeOK
  <2>2. d = c => call'[d] = call[d]
    BY <1>1, <1>8 DEF StoreReset, StoreCount, Add, EndSilently, EndWritten, LogGoes, LogTypeOK,
       InSampler
  <2>3. where[d] \in InSampler /\ call'[d] = call[d]
    BY <1>4, <1>8, <2>1, <2>2
  <2>4. samplers'[call[d].gen].config = samplers[call[d].gen].config
    BY <1>1, <1>2, <1>3
  <2> QED
    BY <2>3, <2>4 DEF SamplerInv, Mine
<1> QED
  BY <1>7, <1>8 DEF SamplerInv

LEMMA SamplerInvStep == LogTypeOK /\ OnceRun /\ SamplerInv /\ [LogNext]_logVars => SamplerInv'
<1> SUFFICES ASSUME LogTypeOK, OnceRun, SamplerInv, [LogNext]_logVars PROVE SamplerInv'
  OBVIOUS
<1>1. ASSUME NEW c \in Logger, Log(c) PROVE SamplerInv'
  <2>1. CASE Entry(c)
    <3>1. PICK level \in Level, to \in {"load", "window", "emit"} :
            /\ Begin(c, level, to)
            /\ to = "load" => samplers[Current].config.initial > 0
      BY <2>1 DEF Entry
    <3>2. /\ samplers' = samplers /\ where' = [where EXCEPT ![c] = to]
          /\ call'[c].gen = Current /\ \A d \in Logger \ {c} : call'[d] = call[d]
      BY <3>1 DEF Begin, LogGoes, LogTypeOK
    <3>3. \A d \in Logger : where'[d] \in InSampler => samplers[call'[d].gen].config.initial > 0
      BY <3>1, <3>2 DEF SamplerInv, Mine, InSampler, LogTypeOK
    <3> QED
      BY <3>2, <3>3 DEF SamplerInv, Mine
  <2>2. CASE LoadReset(c)
    <3>1. \A d \in Logger : where'[d] \in InSampler => where[d] \in InSampler
      BY <2>2 DEF LoadReset, LogGoes, InSampler, LogTypeOK
    <3> QED
      BY <2>2, <3>1, QuietKeepsSamplers DEF LoadReset
  <2>3. CASE StoreReset(c) \/ StoreCount(c) \/ Add(c)
    BY <2>3, CheckKeepsSamplers
  <2>4. CASE Window(c) \/ AddSuppressed(c) \/ Swap(c) \/ StoreLast(c) \/ Emit(c)
    <3>1. samplers' = samplers /\ where'[c] \notin InSampler
          /\ \A d \in Logger \ {c} : where'[d] = where[d] /\ call'[d] = call[d]
      BY <2>4 DEF Window, AddSuppressed, Swap, StoreLast, Emit, EndSilently, EndWritten, LogGoes,
         InSampler, LogTypeOK
    <3> QED
      BY <3>1, QuietKeepsSamplers
  <2>5. CASE DirectSend(c)
    BY <2>5, QuietKeepsSamplers DEF DirectSend, Direct
  <2> QED
    BY <1>1, <2>1, <2>2, <2>3, <2>4, <2>5, LogSteps
<1>2. CASE Service
  <2>1. UNCHANGED <<where, call>>
    BY <1>2, ServiceSteps
  <2>2. CASE samplers' = samplers
    BY <2>1, <2>2, QuietKeepsSamplers
  <2>3. ASSUME NEW config \in Config, samplers' = Append(samplers, Fresh(config))
        PROVE  SamplerInv'
    <3>1. /\ Current' = Current + 1 /\ samplers'[Current'] = Fresh(config)
          /\ \A g \in 1 .. Current : samplers'[g] = samplers[g]
          /\ samplers' \in Seq(Sampler)
      BY <2>3, AppendedSampler
    <3>2. /\ DOMAIN samplers' = 1 .. Current + 1 /\ Current \in Nat
    /\ DOMAIN samplers = 1 .. Current
          /\ \A c \in Logger : call[c].gen \in 1 .. Current
      BY <3>1, SamplerTypes DEF Current
    <3>3. Fresh(config).silent = 0 /\ Pending(Fresh(config)) = 0
      BY DEF Fresh, Pending, Config
    <3>4. \A g \in DOMAIN samplers' : samplers'[g].silent >= Pending(samplers'[g])
      BY <3>1, <3>2, <3>3 DEF SamplerInv
    <3> QED
      BY <2>1, <3>1, <3>2, <3>4 DEF SamplerInv, Mine
  <2> QED
    BY <1>2, <2>2, <2>3, ServiceSamplers DEF OnceRun
<1>3. CASE Tick \/ UNCHANGED logVars
  BY <1>3, QuietKeepsSamplers DEF Tick, logVars
<1> QED
  BY <1>1, <1>2, <1>3 DEF LogNext

(* The limiter's counter is what lines have not reported: the swap takes and clears  *)
(* it in one step, whoever else has found the window elapsed.                        *)
LEMMA LimiterStep ==
  LogTypeOK /\ heldBack = suppressed /\ [LogNext]_logVars => heldBack' = suppressed'
<1> SUFFICES ASSUME LogTypeOK, heldBack = suppressed, [LogNext]_logVars
             PROVE  heldBack' = suppressed'
  OBVIOUS
<1>1. ASSUME NEW c \in Logger, Log(c) PROVE heldBack' = suppressed'
  <2>1. CASE AddSuppressed(c)
    BY <2>1 DEF AddSuppressed
  <2>2. CASE Swap(c)
    <3>1. suppressed \in Nat
      BY DEF LogTypeOK
    <3> QED
      BY <2>2, <3>1 DEF Swap
  <2>3. CASE Entry(c) \/ LoadReset(c) \/ StoreReset(c) \/ StoreCount(c) \/ Add(c)
             \/ Window(c) \/ StoreLast(c) \/ Emit(c) \/ DirectSend(c)
    BY <2>3 DEF Entry, Begin, LoadReset, StoreReset, StoreCount, Add, Window, StoreLast, Emit,
       DirectSend,
       Direct, limitVars
  <2> QED
    BY <1>1, <2>1, <2>2, <2>3, LogSteps
<1>2. CASE Service \/ Tick \/ UNCHANGED logVars
  BY <1>2, ServiceSteps DEF Tick, logVars, limitVars
<1> QED
  BY <1>1, <1>2 DEF LogNext

(* Lines that are held back are counted once, for every sampler and the limiter     *)
(* (sampler.go:76-114, ratelimit.go:37-55), though each is several atomics and other *)
(* goroutines run in between.                                                       *)
THEOREM SuppressedAreCounted == LogSpec => []SuppressedAccounted
<1> DEFINE Inv == LogTypeOK /\ OnceRun /\ SamplerInv /\ heldBack = suppressed
<1>1. LogInit => Inv
  <2> SUFFICES ASSUME LogInit PROVE SamplerInv /\ OnceRun /\ heldBack = suppressed
    BY LogTypeInit
  <2>1. EnvConfig \in Config
    BY LogAssumption DEF LogAssumption
  <2>2. Fresh(EnvConfig).silent = 0 /\ Pending(Fresh(EnvConfig)) = 0
    BY <2>1 DEF Fresh, Pending, Config
  <2> QED
    BY <2>2 DEF LogInit, SamplerInv, OnceRun, InSampler
<1>2. Inv /\ [LogNext]_logVars => Inv'
  BY LogTypeStep, SamplerInvStep, LimiterStep
<1>3. Inv => SuppressedAccounted
  <2> SUFFICES ASSUME Inv, NEW g \in DOMAIN samplers PROVE samplers[g].silent >= 0
    BY DEF SuppressedAccounted
  <2>1. samplers[g] \in Sampler
    BY SamplerTypes
  <2>2. Pending(samplers[g]) \in Nat
    BY <2>1, PendingNat
  <2> QED
    BY <2>1, <2>2 DEF SamplerInv, Sampler
<1> QED
  BY <1>1, <1>2, <1>3, PTL DEF LogSpec

-----------------------------------------------------------------------------
(* Events. *)

(* A step that loses no event and takes no hook and no client away. *)
LEMMA QuietKeepsEvents ==
  ASSUME LogTypeOK, EventInv, lost' = lost, client => client',
         hooks' \in [Level -> Nat], \A l \in Level : hooks'[l] >= hooks[l],
         \A c \in Logger : call'[c].owes => call'[c] = call[c]
  PROVE  EventInv'
<1>1. ASSUME NEW c \in Logger, call'[c].owes
      PROVE  client' /\ hooks'[call'[c].level] > 0
  <2>1. call'[c] = call[c] /\ client /\ hooks[call[c].level] > 0
    BY <1>1 DEF EventInv
  <2>2. call[c].level \in Level /\ hooks[call[c].level] \in Nat
    BY DEF LogTypeOK
  <2> QED
    BY <2>1, <2>2
<1> QED
  BY <1>1 DEF EventInv, EventsFollow

LEMMA EventStep == LogTypeOK /\ EventInv /\ [LogNext]_logVars => EventInv'
<1> SUFFICES ASSUME LogTypeOK, EventInv, [LogNext]_logVars PROVE EventInv'
  OBVIOUS
<1>1. ASSUME NEW c \in Logger, Log(c) PROVE EventInv'
  <2>1. /\ UNCHANGED <<client, hooks>> /\ hooks \in [Level -> Nat]
        /\ \A d \in Logger \ {c} : where'[d] = where[d] /\ call'[d] = call[d]
    <3>1. UNCHANGED setupVars
      BY <1>1, LogSteps DEF Entry, Begin, LoadReset, StoreReset, StoreCount, Add, Window,
         AddSuppressed, Swap,
         StoreLast, Emit, DirectSend, Direct
    <3>2. ASSUME NEW d \in Logger \ {c} PROVE where'[d] = where[d]
      <4>1. CASE Entry(c) \/ LoadReset(c) \/ StoreReset(c) \/ StoreCount(c)
        BY <4>1 DEF Entry, Begin, LoadReset, StoreReset, StoreCount, LogGoes, LogTypeOK
      <4>2. CASE Add(c)
        BY <4>2 DEF Add, EndSilently, EndWritten, LogGoes, LogTypeOK
      <4>3. CASE Window(c) \/ AddSuppressed(c) \/ Swap(c) \/ StoreLast(c)
        BY <4>3 DEF Window, AddSuppressed, Swap, StoreLast, EndSilently, EndWritten, LogGoes,
           LogTypeOK
      <4>4. CASE Emit(c) \/ DirectSend(c)
        BY <4>4 DEF Emit, DirectSend, Direct, EndSilently, EndWritten, LogGoes, LogTypeOK
      <4> QED
        BY <1>1, <4>1, <4>2, <4>3, <4>4, LogSteps
    <3>3. ASSUME NEW d \in Logger \ {c} PROVE call'[d] = call[d]
      BY <1>1, LogSteps DEF Entry, Begin, LoadReset, StoreReset, StoreCount, Add, Window,
         AddSuppressed, Swap,
         StoreLast, Emit, DirectSend, Direct, EndSilently, EndWritten, LogTypeOK
    <3> QED
      BY <3>1, <3>2, <3>3 DEF setupVars, LogTypeOK
  <2>2. CASE Entry(c)
    <3>1. PICK level \in Level, to \in {"load", "window", "emit"} :
            Begin(c, level, to)
      BY <2>2 DEF Entry
    <3>2. /\ where'[c] = to /\ call'[c].level = level /\ lost' = lost
          /\ call'[c].owes = (client /\ hooks[level] > 0)
      BY <3>1 DEF Begin, LogGoes, LogTypeOK
    <3> QED
      BY <2>1, <3>1, <3>2 DEF EventInv, EventsFollow
  <2>3. CASE LoadReset(c) \/ StoreReset(c) \/ StoreCount(c) \/ Add(c)
             \/ Window(c) \/ AddSuppressed(c) \/ Swap(c) \/ StoreLast(c)
    <3>1. lost' = lost /\ (call'[c] = call[c] \/ ~call'[c].owes)
      BY <2>3 DEF LoadReset, StoreReset, StoreCount, Add, Window, AddSuppressed, Swap, StoreLast,
         EndSilently, LogTypeOK, NoCall
    <3> QED
      BY <2>1, <3>1, QuietKeepsEvents
  <2>4. CASE Emit(c)
    <3>1. call[c].owes => Events(call[c].level) # 0
      BY DEF EventInv, Events
    <3>2. lost' = lost /\ ~call'[c].owes
      BY <2>4, <3>1 DEF Emit, EndSilently, EndWritten, LogTypeOK, NoCall
    <3> QED
      BY <2>1, <3>2, QuietKeepsEvents
  <2>5. CASE DirectSend(c)
    <3>1. lost' \subseteq lost \cup {"sendError"} /\ UNCHANGED <<where, call>>
      BY <2>5 DEF DirectSend, Direct
    <3> QED
      BY <2>1, <3>1 DEF EventInv, EventsFollow
  <2> QED
    BY <1>1, <2>2, <2>3, <2>4, <2>5, LogSteps
<1>2. CASE Service
  BY <1>2, ServiceSteps, QuietKeepsEvents
<1>3. CASE Tick \/ UNCHANGED logVars
  <2>1. UNCHANGED <<lost, client, hooks, where, call>> /\ hooks \in [Level -> Nat]
    BY <1>3 DEF Tick, logVars, setupVars, LogTypeOK
  <2> QED
    BY <2>1, QuietKeepsEvents
<1> QED
  BY <1>1, <1>2, <1>3 DEF LogNext

(* A line that is written becomes an event if Sentry listened when its call began,    *)
(* a fatal one before os.Exit (phlogger.go:47-51,
104-118); every direct send but SendSentryError's   *)
(* arrives (phsentry.go:392-464).                                                     *)
THEOREM ErrorsBecomeEvents == LogSpec => []EventsFollow
<1>1. LogInit => EventInv
  BY DEF LogInit, EventInv, EventsFollow, NoCall
<1>2. LogInit => LogTypeOK /\ OnceRun
  BY LogTypeInit DEF LogInit, OnceRun
<1>3. EventInv => EventsFollow
  BY DEF EventInv
<1> QED
  BY <1>1, <1>2, <1>3, LogTypeStep, EventStep, PTL DEF LogSpec

-----------------------------------------------------------------------------
(* The service's choice. *)

LEMMA ChoiceStep == LogTypeOK /\ OnceRun /\ ChoiceKept /\ [LogNext]_logVars => ChoiceKept'
<1> SUFFICES ASSUME LogTypeOK, OnceRun, ChoiceKept, [LogNext]_logVars PROVE ChoiceKept'
  OBVIOUS
<1>1. ASSUME chosen' = chosen, samplers' = samplers PROVE ChoiceKept'
  BY <1>1 DEF ChoiceKept, Current
<1>2. ASSUME NEW c \in Logger, Log(c) PROVE ChoiceKept'
  <2>1. chosen' = chosen
    BY <1>2, LogSteps DEF Entry, Begin, LoadReset, StoreReset, StoreCount, Add, Window,
       AddSuppressed, Swap,
       StoreLast, Emit, DirectSend, Direct, setupVars
  <2>2. CASE StoreReset(c) \/ StoreCount(c) \/ Add(c)
    <3>1. PICK s \in Sampler : samplers' = [samplers EXCEPT ![call[c].gen] = s]
                              /\ s.config = Mine(c).config
      BY <2>2, CheckWrites
    <3>2. call[c].gen \in 1 .. Current /\ Current \in 1 .. Current
    /\ Mine(c) = samplers[call[c].gen]
      BY SamplerTypes DEF Mine
    <3>3. Current' = Current /\ samplers'[Current].config = samplers[Current].config
      BY <3>1, <3>2, SamplerUpdate
    <3> QED
      BY <2>1, <3>3 DEF ChoiceKept
  <2>3. CASE ~(StoreReset(c) \/ StoreCount(c) \/ Add(c))
    <3>1. samplers' = samplers
      BY <1>2, <2>3, LogSteps DEF Entry, Begin, LoadReset, Window, AddSuppressed, Swap, StoreLast,
         Emit,
         DirectSend, Direct
    <3> QED
      BY <1>1, <2>1, <3>1
  <2> QED
    BY <2>2, <2>3
<1>3. CASE Service
  <2>1. ASSUME NEW config \in Config, samplers' = Append(samplers, Fresh(config)),
               chosen' \subseteq {config}
        PROVE  ChoiceKept'
    <3>1. samplers'[Current'] = Fresh(config)
      BY <2>1, AppendedSampler
    <3>2. samplers'[Current'].config = config
      BY <3>1 DEF Fresh
    <3> QED
      BY <2>1, <3>2 DEF ChoiceKept
  <2> QED
    BY <1>1, <1>3, <2>1, ServiceSamplers DEF OnceRun
<1>4. CASE Tick \/ UNCHANGED logVars
  BY <1>1, <1>4 DEF Tick, logVars, setupVars
<1> QED
  BY <1>2, <1>3, <1>4 DEF LogNext

(* What the service chose with InitializeSampler stays until it chooses again or calls *)
(* InitializeLogger; InitializeApp (init.go:73-113), called again, leaves it alone.     *)
THEOREM ChoiceStays == LogSpec => []ChoiceKept
<1>1. LogInit => LogTypeOK /\ OnceRun /\ ChoiceKept
  BY LogTypeInit DEF LogInit, OnceRun, ChoiceKept
<1> QED
  BY <1>1, LogTypeStep, ChoiceStep, PTL DEF LogSpec
=============================================================================
