------------------------------- MODULE Bootstrap -------------------------------
(***************************************************************************)
(* How a process comes to hold an application: get_settings and its        *)
(* lru_cache (knowhub/config/settings.py), create_app, the lazy attribute  *)
(* main.app and the lifespan (knowhub/api/main.py), on top of the          *)
(* telemetry providers of module Telemetry.                                *)
(*                                                                         *)
(* Application n is the one the n-th build returned, when that build did   *)
(* not raise.                                                              *)
(***************************************************************************)
EXTENDS Telemetry

CONSTANTS DirectBuilds, \* code other than main.__getattr__ calls create_app
          CacheResets   \* code calls reset_settings_cache

ASSUME BootstrapAssumption == DirectBuilds \in BOOLEAN /\ CacheResets \in BOOLEAN

VARIABLES
  environ,        \* the exporter the environment selects, or "invalid"
  settingsCache,  \* the exporter of the Settings in the lru_cache, or "empty"
  appMemo,        \* main._app
  builds,         \* how often configure_observability has been called
  appState,       \* none -> built -> running -> stopped (-> running)
  readiness,      \* app.state.readiness
  appSettings     \* the exporter in app.state.settings

bootstrapVars == <<telemetryVars, environ, settingsCache, appMemo, builds,
                   appState, readiness, appSettings>>

appVars == <<appMemo, builds, appState, readiness, appSettings>>

Environments   == Exporters \cup {"invalid"}
CachedSettings == Exporters \cup {"empty"}
AppStates      == {"none", "built", "running", "stopped"}
ReadinessState == [settingsLoaded : BOOLEAN, observabilityReady : BOOLEAN]
NothingReady   == [settingsLoaded |-> FALSE, observabilityReady |-> FALSE]

\* The handle is None, or names a build that happened and left its mark in table.
Names(handle, table, nothing) ==
  handle # 0 => handle <= builds /\ table[handle] # nothing

HandlesNamed ==
  /\ Names(tracerProvider, tracers, "unborn") /\ Names(otelTracer, tracers, "unborn")
  /\ Names(meterProvider, meters, "unborn") /\ Names(otelMeter, meters, "unborn")
  /\ Names(appMemo, appState, "none")

\* Every variable keeps its type; the module attributes and the slots of the API
\* name providers that a build did install, also after builds that raised, and
\* main._app an application that a build did return.
BootstrapTypeOK ==
  /\ TelemetryTypeOK
  /\ environ \in Environments
  /\ settingsCache \in CachedSettings
  /\ appMemo \in 0 .. MaxBuilds
  /\ builds \in 0 .. MaxBuilds
  /\ appState \in [Builds -> AppStates]
  /\ readiness \in [Builds -> ReadinessState]
  /\ appSettings \in [Builds -> Exporters]
  /\ HandlesNamed

\* ReadinessState.pending
Pending(a) == {c \in {"settings", "observability"} :
                 \/ c = "settings" /\ ~readiness[a].settingsLoaded
                 \/ c = "observability" /\ ~readiness[a].observabilityReady}
Ready(a)   == Pending(a) = {}

BootstrapInit ==
  /\ TelemetryInit
  /\ environ \in Environments
  /\ settingsCache = "empty"
  /\ appMemo = 0
  /\ builds = 0
  /\ appState = [a \in Builds |-> "none"]
  /\ readiness = [a \in Builds |-> NothingReady]
  /\ appSettings = [a \in Builds |-> "none"]

-----------------------------------------------------------------------------
\* get_settings returns s: from the cache, or loaded and cached.  An exception
\* is not cached, so a failed load leaves the cache empty.
GetSettings(s) ==
  /\ \/ settingsCache = s
     \/ settingsCache = "empty" /\ environ = s
  /\ settingsCache' = s

\* get_settings raises ConfigurationError and create_app with it.
SettingsError ==
  /\ settingsCache = "empty" /\ environ = "invalid"
  /\ UNCHANGED bootstrapVars

AppBuilt(a, s) ==
  /\ appState' = [appState EXCEPT ![a] = "built"]
  /\ readiness' = [readiness EXCEPT ![a] =
                     [settingsLoaded |-> TRUE, observabilityReady |-> TRUE]]
  /\ appSettings' = [appSettings EXCEPT ![a] = s]

NoAppBuilt == UNCHANGED <<appState, readiness, appSettings>>

\* Mutant: create_app swallows the telemetry failure and returns the application.
CreateAppSwallowing(given, s, fault) ==
  /\ builds < MaxBuilds
  /\ IF given THEN UNCHANGED settingsCache ELSE GetSettings(s)
  /\ builds' = builds + 1
  /\ Configure(builds + 1, s, fault)
  /\ AppBuilt(builds + 1, s)
  /\ UNCHANGED environ

\* create_app with settings s, given by its caller or looked up; fault is where
\* it raises: in configure_observability or, "app", in what comes after it.
CreateApp(given, s, fault) ==
  /\ builds < MaxBuilds
  /\ IF given THEN UNCHANGED settingsCache ELSE GetSettings(s)
  /\ builds' = builds + 1
  /\ Configure(builds + 1, s, fault)
  /\ IF fault = "none" THEN AppBuilt(builds + 1, s) ELSE NoAppBuilt
  /\ UNCHANGED environ

\* Mutant: the application is memoised before its build has succeeded.
ResolveAppEarly(s, fault) ==
  /\ appMemo = 0
  /\ CreateApp(FALSE, s, fault)
  /\ appMemo' = builds + 1

\* main.app is read while nothing is memoised; a read that finds the memo
\* returns it and changes nothing.
ResolveApp(s, fault) ==
  /\ appMemo = 0
  /\ CreateApp(FALSE, s, fault)
  /\ appMemo' = IF fault = "none" THEN builds + 1 ELSE appMemo

DirectCreate(s, fault) ==
  /\ DirectBuilds
  /\ \E given \in BOOLEAN : CreateApp(given, s, fault)
  /\ UNCHANGED appMemo

-----------------------------------------------------------------------------
\* Mutant: entering the lifespan announces readiness again.
StartReady(a) ==
  /\ appState[a] \in {"built", "stopped"}
  /\ appState' = [appState EXCEPT ![a] = "running"]
  /\ readiness' = [readiness EXCEPT ![a].observabilityReady = TRUE]
  /\ UNCHANGED <<telemetryVars, environ, settingsCache, appMemo, builds, appSettings>>

\* The lifespan is entered; it does not touch readiness.
Start(a) ==
  /\ appState[a] \in {"built", "stopped"}
  /\ appState' = [appState EXCEPT ![a] = "running"]
  /\ UNCHANGED <<telemetryVars, environ, settingsCache, appMemo, builds,
                 readiness, appSettings>>

\* Mutant: the lifespan only announces that it is left.
StopKeepingProviders(a, fault) ==
  /\ appState[a] = "running"
  /\ appState' = [appState EXCEPT ![a] = "stopped"]
  /\ readiness' = [readiness EXCEPT ![a].observabilityReady = FALSE]
  /\ UNCHANGED <<telemetryVars, environ, settingsCache, appMemo, builds, appSettings>>

\* The lifespan is left: not ready first, then shutdown_observability, all in
\* one step of the event loop.
Stop(a, fault) ==
  /\ appState[a] = "running"
  /\ appState' = [appState EXCEPT ![a] = "stopped"]
  /\ readiness' = [readiness EXCEPT ![a].observabilityReady = FALSE]
  /\ Shutdown(fault)
  /\ UNCHANGED <<environ, settingsCache, appMemo, builds, appSettings>>

\* The instrumentation of an application ends a server span.  The lifespan is
\* no condition: an ASGI application serves whoever calls it.
ServeSpan(a) ==
  /\ a # 0 /\ appState[a] # "none"
  /\ EndSpan(appSettings[a])
  /\ UNCHANGED <<environ, settingsCache, appVars>>

WorkerFlush(n) ==
  /\ Flush(n)
  /\ UNCHANGED <<environ, settingsCache, appVars>>

-----------------------------------------------------------------------------
\* os.environ is edited: by a shell between runs, by monkeypatch in tests.
EditEnviron(s) ==
  /\ environ' = s
  /\ UNCHANGED <<telemetryVars, settingsCache, appVars>>

ResetSettingsCache ==
  /\ CacheResets
  /\ settingsCache' = "empty"
  /\ UNCHANGED <<telemetryVars, environ, appVars>>

BootstrapNext ==
  \/ SettingsError
  \/ \E s \in Exporters, fault \in Faults : ResolveApp(s, fault)
  \/ \E s \in Exporters, fault \in Faults : DirectCreate(s, fault)
  \/ \E a \in Builds : Start(a)
  \/ \E a \in Builds, fault \in Faults : Stop(a, fault)
  \/ \E a \in Builds : ServeSpan(a)
  \/ \E n \in Builds : WorkerFlush(n)
  \/ \E s \in Environments : EditEnviron(s)
  \/ ResetSettingsCache

BootstrapSpec == BootstrapInit /\ [][BootstrapNext]_bootstrapVars

-----------------------------------------------------------------------------
\* The spans of application a reach the destination its settings select.
Traced(a) == InstalledLive /\ destination[otelTracer] = appSettings[a]

Serving(a) == appState[a] = "running" /\ Ready(a)

\* "The process must never continue silently with telemetry disabled when
\* telemetry is configured active" (bootstrap.py): an application that runs and
\* reports ready, configured to export, has its spans going where it says.
NeverSilentlyUntraced ==
  \A a \in Builds : Serving(a) /\ appSettings[a] # "none" => Traced(a)

\* create_app initialises before it constructs, so whoever holds an application
\* that still reports ready holds one whose process has JSON logging and both
\* provider slots filled, and filled by builds no later than its own.
NoHalfConfiguredApp ==
  \A a \in Builds : Ready(a) => /\ loggingConfigured
                                /\ otelTracer \in 1 .. a
                                /\ otelMeter \in 1 .. a

\* A traced application that keeps serving loses its tracing in one way only:
\* the shutdown of another application of the same process.  No build, failed
\* build, configuration edit or cache reset takes it away.
OnlyAStopSilences ==
  [][\A a \in Builds :
       Serving(a) /\ Serving(a)' /\ Traced(a) /\ ~Traced(a)' =>
         \E b \in Builds \ {a} : appState[b] = "running" /\ appState'[b] = "stopped"
    ]_bootstrapVars

\* shutdown_observability: "Flush and shut down the providers".  Whenever it
\* releases the tracer provider, the provider the process exports through has
\* nothing left in its queue.
ShutdownFlushesInstalled ==
  [][tracerProvider # 0 /\ tracerProvider' = 0 => queued'[otelTracer] = 0]_bootstrapVars
=============================================================================
