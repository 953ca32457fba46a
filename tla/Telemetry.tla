------------------------------- MODULE Telemetry -------------------------------
(***************************************************************************)
(* The telemetry providers of one Python process: the module attributes    *)
(* and functions of knowhub/observability/bootstrap.py and, behind them,   *)
(* the two set-once provider slots of the OpenTelemetry API.               *)
(*                                                                         *)
(* Provider n is the pair (TracerProvider, MeterProvider) built by the     *)
(* n-th call of configure_observability; 0 stands for Python's None.       *)
(***************************************************************************)
EXTENDS Naturals

CONSTANTS MaxBuilds, \* bound: calls of configure_observability in one process
          MaxSpans,  \* bound: finished spans one batch queue counts up to
          Faults     \* where a build or a shutdown may raise: at the "tracer"
                     \* provider, at the "meter" provider, after both ("app",
                     \* builds only), or nowhere ("none")

ASSUME TelemetryAssumption == /\ MaxBuilds \in Nat \ {0}
                              /\ MaxSpans \in Nat \ {0}
                              /\ Faults \subseteq {"none", "tracer", "meter", "app"}

VARIABLES
  loggingConfigured, \* configure_logging has run: JSON handler on the root logger
  tracerProvider,    \* bootstrap._tracer_provider
  meterProvider,     \* bootstrap._meter_provider
  otelTracer,        \* what opentelemetry.trace has installed
  otelMeter,         \* what opentelemetry.metrics has installed
  tracers,           \* state of every TracerProvider
  meters,            \* state of every MeterProvider
  destination,       \* the exporter wired into every TracerProvider
  queued,            \* finished spans waiting in every BatchSpanProcessor
  ignored            \* a span that was to be exported met a shut-down provider

telemetryVars == <<loggingConfigured, tracerProvider, meterProvider, otelTracer,
                   otelMeter, tracers, meters, destination, queued, ignored>>

Builds         == 1 .. MaxBuilds
Exporters      == {"otlp", "console", "none"}
ProviderStates == {"unborn", "live", "down"}

TelemetryTypeOK ==
  /\ loggingConfigured \in BOOLEAN
  /\ tracerProvider \in 0 .. MaxBuilds
  /\ meterProvider \in 0 .. MaxBuilds
  /\ otelTracer \in 0 .. MaxBuilds
  /\ otelMeter \in 0 .. MaxBuilds
  /\ tracers \in [Builds -> ProviderStates]
  /\ meters \in [Builds -> ProviderStates]
  /\ destination \in [Builds -> Exporters]
  /\ queued \in [Builds -> 0 .. MaxSpans]
  /\ ignored \in BOOLEAN

TelemetryInit ==
  /\ loggingConfigured = FALSE
  /\ tracerProvider = 0 /\ meterProvider = 0
  /\ otelTracer = 0 /\ otelMeter = 0
  /\ tracers = [n \in Builds |-> "unborn"]
  /\ meters = [n \in Builds |-> "unborn"]
  /\ destination = [n \in Builds |-> "none"]
  /\ queued = [n \in Builds |-> 0]
  /\ ignored = FALSE

-----------------------------------------------------------------------------
(***************************************************************************)
(* configure_observability, the n-th call, for settings that select        *)
(* exporter.  fault says where it raises: "tracer" before the tracer       *)
(* provider is installed, "meter" between the two providers; "app" is a    *)
(* build that raises after the call.  What was installed stays so.         *)
(***************************************************************************)
\* The API accepts the first provider and refuses, with a log line, the others.
SetOnce(slot, n) == IF slot = 0 THEN n ELSE slot

\* Mutant: a build first takes down the provider the module still holds.
InstallTracerReplacing(n, exporter) ==
  /\ tracerProvider' = n
  /\ otelTracer' = SetOnce(otelTracer, n)
  /\ tracers' = [m \in Builds |-> CASE m = n -> "live"
                                    [] m = tracerProvider /\ m # n -> "down"
                                    [] OTHER -> tracers[m]]
  /\ destination' = [destination EXCEPT ![n] = exporter]

InstallTracer(n, exporter) ==
  /\ tracerProvider' = n
  /\ otelTracer' = SetOnce(otelTracer, n)
  /\ tracers' = [tracers EXCEPT ![n] = "live"]
  /\ destination' = [destination EXCEPT ![n] = exporter]

InstallMeter(n) ==
  /\ meterProvider' = n
  /\ otelMeter' = SetOnce(otelMeter, n)
  /\ meters' = [meters EXCEPT ![n] = "live"]

KeepTracer == UNCHANGED <<tracerProvider, otelTracer, tracers, destination>>
KeepMeter  == UNCHANGED <<meterProvider, otelMeter, meters>>

Configure(n, exporter, fault) ==
  /\ loggingConfigured' = TRUE
  /\ \/ fault = "tracer" /\ KeepTracer /\ KeepMeter
     \/ fault = "meter" /\ InstallTracer(n, exporter) /\ KeepMeter
     \/ fault \in {"none", "app"} /\ InstallTracer(n, exporter) /\ InstallMeter(n)
  /\ UNCHANGED <<queued, ignored>>

-----------------------------------------------------------------------------
(***************************************************************************)
(* shutdown_observability.  A provider's shutdown flushes its queue.  When *)
(* it raises ("tracer", "meter") the attribute is not reset and what comes *)
(* after it is not done.                                                   *)
(***************************************************************************)
TakenDown(states, n) == [m \in Builds |-> IF m = n THEN "down" ELSE states[m]]
Flushed(n)           == [m \in Builds |-> IF m = n THEN 0 ELSE queued[m]]

\* Mutant: a provider whose shutdown raises keeps what it had queued.
ShutdownTracerUnflushed(raises) ==
  /\ tracers' = TakenDown(tracers, tracerProvider)
  /\ queued' = IF raises THEN queued ELSE Flushed(tracerProvider)
  /\ tracerProvider' = IF raises THEN tracerProvider ELSE 0

ShutdownTracer(raises) ==
  /\ tracers' = TakenDown(tracers, tracerProvider)
  /\ queued' = Flushed(tracerProvider)
  /\ tracerProvider' = IF raises THEN tracerProvider ELSE 0

ShutdownMeter(raises) ==
  /\ meters' = TakenDown(meters, meterProvider)
  /\ meterProvider' = IF raises THEN meterProvider ELSE 0

Shutdown(fault) ==
  /\ \/ /\ fault = "tracer" /\ tracerProvider # 0
        /\ ShutdownTracer(TRUE)
        /\ UNCHANGED <<meters, meterProvider>>
     \/ /\ fault = "meter" /\ meterProvider # 0
        /\ ShutdownTracer(FALSE) /\ ShutdownMeter(TRUE)
     \/ /\ fault = "none"
        /\ ShutdownTracer(FALSE) /\ ShutdownMeter(FALSE)
  /\ UNCHANGED <<loggingConfigured, otelTracer, otelMeter, destination, ignored>>

-----------------------------------------------------------------------------
(***************************************************************************)
(* The OpenTelemetry SDK, as far as the code relies on it.                 *)
(***************************************************************************)
InstalledLive == otelTracer # 0 /\ tracers[otelTracer] = "live"

\* _build_span_exporter: a provider built for "none" gets no batch processor.
Exports(n) == destination[n] # "none"

\* A span of an application configured for exporter ends: the installed
\* provider queues it, has no processor to give it to, or is down and drops it.
EndSpan(exporter) ==
  /\ \/ /\ InstalledLive /\ Exports(otelTracer)
        /\ queued[otelTracer] < MaxSpans
        /\ queued' = [queued EXCEPT ![otelTracer] = @ + 1]
        /\ UNCHANGED ignored
     \/ /\ InstalledLive /\ ~Exports(otelTracer)
        /\ UNCHANGED <<queued, ignored>>
     \/ /\ ~InstalledLive
        /\ ignored' = (ignored \/ exporter # "none")
        /\ UNCHANGED queued
  /\ UNCHANGED <<loggingConfigured, tracerProvider, meterProvider, otelTracer,
                 otelMeter, tracers, meters, destination>>

\* The batch worker thread hands what is queued to the exporter.
Flush(n) ==
  /\ tracers[n] = "live" /\ queued[n] > 0
  /\ queued' = Flushed(n)
  /\ UNCHANGED <<loggingConfigured, tracerProvider, meterProvider, otelTracer,
                 otelMeter, tracers, meters, destination, ignored>>

\* The SDK's atexit hooks shut down every provider still live.
AtExit ==
  /\ tracers' = [n \in Builds |-> IF tracers[n] = "live" THEN "down" ELSE tracers[n]]
  /\ meters' = [n \in Builds |-> IF meters[n] = "live" THEN "down" ELSE meters[n]]
  /\ queued' = [n \in Builds |-> 0]
  /\ UNCHANGED <<loggingConfigured, tracerProvider, meterProvider, otelTracer,
                 otelMeter, destination, ignored>>
=============================================================================
