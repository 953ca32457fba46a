---------------------------- MODULE BootstrapProofs ----------------------------
(***************************************************************************)
(* Theorems about module Bootstrap, for every number of builds and spans   *)
(* and every set of faults.                                                *)
(***************************************************************************)
EXTENDS Bootstrap, TLAPS

USE TelemetryAssumption, BootstrapAssumption DEF TelemetryAssumption, BootstrapAssumption

-----------------------------------------------------------------------------
(***************************************************************************)
(* What the operations of module Telemetry do to its types.                *)
(***************************************************************************)

\* A call of configure_observability keeps the types, raising or not.
LEMMA ConfigureType ==
  ASSUME TelemetryTypeOK, NEW n \in Builds, NEW e \in Exporters,
         NEW fault \in Faults, Configure(n, e, fault)
  PROVE  TelemetryTypeOK'
<1> USE DEF Builds
<1>1. InstallTracer(n, e) => /\ tracerProvider' \in 0 .. MaxBuilds
                             /\ otelTracer' \in 0 .. MaxBuilds
                             /\ tracers' \in [Builds -> ProviderStates]
                             /\ destination' \in [Builds -> Exporters]
  BY DEF TelemetryTypeOK, InstallTracer, SetOnce, ProviderStates
<1>2. InstallMeter(n) => /\ meterProvider' \in 0 .. MaxBuilds
                         /\ otelMeter' \in 0 .. MaxBuilds
                         /\ meters' \in [Builds -> ProviderStates]
  BY DEF TelemetryTypeOK, InstallMeter, SetOnce, ProviderStates
<1> QED
  BY <1>1, <1>2 DEF TelemetryTypeOK, Configure, KeepTracer, KeepMeter

\* So does shutdown_observability.
LEMMA ShutdownType ==
  ASSUME TelemetryTypeOK, NEW fault \in Faults, Shutdown(fault)
  PROVE  TelemetryTypeOK'
<1>1. /\ TakenDown(tracers, tracerProvider) \in [Builds -> ProviderStates]
      /\ TakenDown(meters, meterProvider) \in [Builds -> ProviderStates]
      /\ Flushed(tracerProvider) \in [Builds -> 0 .. MaxSpans]
  BY DEF TelemetryTypeOK, TakenDown, Flushed, ProviderStates
<1> QED
  BY <1>1 DEF TelemetryTypeOK, Shutdown, ShutdownTracer, ShutdownMeter

\* So do the end of a span and the batch worker.
LEMMA SpanType ==
  ASSUME TelemetryTypeOK,
         \/ \E e \in Exporters : EndSpan(e)
         \/ \E n \in Builds : Flush(n)
  PROVE  TelemetryTypeOK'
<1>1. CASE \E e \in Exporters : EndSpan(e)
  <2>1. queued' \in [Builds -> 0 .. MaxSpans]
    <3>1. CASE /\ InstalledLive
               /\ queued[otelTracer] < MaxSpans
               /\ queued' = [queued EXCEPT ![otelTracer] = @ + 1]
      <4>1. otelTracer \in Builds /\ queued[otelTracer] \in 0 .. MaxSpans
        BY <3>1 DEF TelemetryTypeOK, InstalledLive, Builds
      <4>2. queued[otelTracer] + 1 \in 0 .. MaxSpans
        BY <3>1, <4>1
      <4> QED BY <3>1, <4>2 DEF TelemetryTypeOK
    <3>2. CASE UNCHANGED queued
      BY <3>2 DEF TelemetryTypeOK
    <3> QED BY <1>1, <3>1, <3>2 DEF EndSpan
  <2>2. ignored' \in BOOLEAN
    BY <1>1 DEF TelemetryTypeOK, EndSpan
  <2> QED BY <1>1, <2>1, <2>2 DEF TelemetryTypeOK, EndSpan
<1>2. CASE \E n \in Builds : Flush(n)
  BY <1>2 DEF TelemetryTypeOK, Flush, Flushed, Builds
<1> QED BY <1>1, <1>2

-----------------------------------------------------------------------------
\* A step that builds nothing may drop a handle, and no more.
LEMMA HandlesKept ==
  ASSUME BootstrapTypeOK, UNCHANGED <<builds, appMemo, otelTracer, otelMeter>>,
         tracerProvider' \in {tracerProvider, 0}, meterProvider' \in {meterProvider, 0},
         \A n \in Builds : tracers[n] # "unborn" => tracers'[n] # "unborn",
         \A n \in Builds : meters[n] # "unborn" => meters'[n] # "unborn",
         \A n \in Builds : appState[n] # "none" => appState'[n] # "none"
  PROVE  HandlesNamed'
BY DEF BootstrapTypeOK, TelemetryTypeOK, HandlesNamed, Names, Builds

\* A call of create_app names what it installed and, if it is memoised, what it
\* returned; the handles it leaves alone name what they named.
LEMMA CreateAppNames ==
  ASSUME BootstrapTypeOK, NEW given \in BOOLEAN, NEW s \in Exporters,
         NEW fault \in Faults, CreateApp(given, s, fault),
         appMemo' = appMemo \/ (appMemo' = builds + 1 /\ fault = "none")
  PROVE  HandlesNamed'
<1> DEFINE n == builds + 1
<1>1. /\ n \in Builds /\ builds \in Nat /\ builds' = n /\ HandlesNamed
      /\ TelemetryTypeOK /\ appMemo \in 0 .. MaxBuilds
      /\ appState \in [Builds -> AppStates]
  BY DEF BootstrapTypeOK, CreateApp, Builds
<1>2. Names(tracerProvider, tracers, "unborn")' /\ Names(otelTracer, tracers, "unborn")'
  <2>1. CASE InstallTracer(n, s)
    BY <1>1, <2>1 DEF InstallTracer, SetOnce, HandlesNamed, Names, TelemetryTypeOK, Builds
  <2>2. CASE KeepTracer
    BY <1>1, <2>2 DEF KeepTracer, HandlesNamed, Names, TelemetryTypeOK, Builds
  <2> QED BY <2>1, <2>2 DEF CreateApp, Configure
<1>3. Names(meterProvider, meters, "unborn")' /\ Names(otelMeter, meters, "unborn")'
  <2>1. CASE InstallMeter(n)
    BY <1>1, <2>1 DEF InstallMeter, SetOnce, HandlesNamed, Names, TelemetryTypeOK, Builds
  <2>2. CASE KeepMeter
    BY <1>1, <2>2 DEF KeepMeter, HandlesNamed, Names, TelemetryTypeOK, Builds
  <2> QED BY <2>1, <2>2 DEF CreateApp, Configure
<1>4. Names(appMemo, appState, "none")'
  <2>1. CASE fault = "none"
    BY <1>1, <2>1 DEF CreateApp, AppBuilt, HandlesNamed, Names, Builds
  <2>2. CASE fault # "none"
    BY <1>1, <2>2 DEF CreateApp, NoAppBuilt, HandlesNamed, Names, Builds
  <2> QED BY <2>1, <2>2
<1> QED BY <1>2, <1>3, <1>4 DEF HandlesNamed

\* A call of create_app keeps the types whether or not it raises.
LEMMA CreateAppType ==
  ASSUME BootstrapTypeOK, NEW given \in BOOLEAN, NEW s \in Exporters,
         NEW fault \in Faults, CreateApp(given, s, fault),
         appMemo' = appMemo \/ (appMemo' = builds + 1 /\ fault = "none")
  PROVE  BootstrapTypeOK'
<1>1. builds + 1 \in Builds
  BY DEF BootstrapTypeOK, CreateApp, Builds
<1>2. TelemetryTypeOK'
  BY <1>1, ConfigureType DEF BootstrapTypeOK, CreateApp
<1>3. /\ appState' \in [Builds -> AppStates]
      /\ readiness' \in [Builds -> ReadinessState]
      /\ appSettings' \in [Builds -> Exporters]
  <2>1. CASE fault = "none"
    <3>1. AppBuilt(builds + 1, s)
      BY <2>1 DEF CreateApp
    <3>2. [settingsLoaded |-> TRUE, observabilityReady |-> TRUE] \in ReadinessState
      BY DEF ReadinessState
    <3> QED BY <1>1, <3>1, <3>2 DEF BootstrapTypeOK, AppBuilt, AppStates
  <2>2. CASE fault # "none"
    BY <2>2 DEF BootstrapTypeOK, CreateApp, NoAppBuilt
  <2> QED BY <2>1, <2>2
<1>4. HandlesNamed'
  BY CreateAppNames
<1> QED
  BY <1>1, <1>2, <1>3, <1>4
  DEF BootstrapTypeOK, CreateApp, GetSettings, CachedSettings, Builds

\* The initial state has the types.
LEMMA BootstrapInitType == BootstrapInit => BootstrapTypeOK
<1>1. TelemetryInit => TelemetryTypeOK
  <2>1. TelemetryInit => /\ tracers \in [Builds -> ProviderStates]
                         /\ meters \in [Builds -> ProviderStates]
    BY DEF TelemetryInit, ProviderStates
  <2>2. TelemetryInit => /\ destination \in [Builds -> Exporters]
                         /\ queued \in [Builds -> 0 .. MaxSpans]
    BY DEF TelemetryInit, Exporters
  <2>3. TelemetryInit => /\ tracerProvider \in 0 .. MaxBuilds
                         /\ meterProvider \in 0 .. MaxBuilds
                         /\ otelTracer \in 0 .. MaxBuilds
                         /\ otelMeter \in 0 .. MaxBuilds
    BY DEF TelemetryInit
  <2>4. TelemetryInit => loggingConfigured \in BOOLEAN /\ ignored \in BOOLEAN
    BY Zenon DEF TelemetryInit
  <2> QED BY <2>1, <2>2, <2>3, <2>4 DEF TelemetryTypeOK
<1>2. NothingReady \in ReadinessState
  BY DEF NothingReady, ReadinessState
<1>3. BootstrapInit => readiness \in [Builds -> ReadinessState]
  BY <1>2 DEF BootstrapInit
<1>4. BootstrapInit => /\ settingsCache \in CachedSettings
                       /\ appState \in [Builds -> AppStates]
                       /\ appSettings \in [Builds -> Exporters]
  BY DEF BootstrapInit, Exporters, CachedSettings, AppStates
<1>5. BootstrapInit => HandlesNamed
  BY DEF BootstrapInit, TelemetryInit, HandlesNamed, Names
<1> QED
  BY <1>1, <1>3, <1>4, <1>5 DEF BootstrapInit, BootstrapTypeOK

\* Every step keeps them.
LEMMA BootstrapStepType ==
  ASSUME BootstrapTypeOK, [BootstrapNext]_bootstrapVars
  PROVE  BootstrapTypeOK'
<1>1. CASE SettingsError \/ UNCHANGED bootstrapVars
  BY <1>1 DEF SettingsError, BootstrapTypeOK, TelemetryTypeOK, bootstrapVars,
              telemetryVars, HandlesNamed, Names
<1>2. ASSUME NEW s \in Exporters, NEW fault \in Faults, ResolveApp(s, fault)
      PROVE  BootstrapTypeOK'
  BY <1>2, CreateAppType DEF ResolveApp
<1>3. ASSUME NEW s \in Exporters, NEW fault \in Faults, DirectCreate(s, fault)
      PROVE  BootstrapTypeOK'
  BY <1>3, CreateAppType DEF DirectCreate
<1>4. ASSUME NEW a \in Builds, Start(a)
      PROVE  BootstrapTypeOK'
  <2>1. HandlesNamed'
    BY <1>4, HandlesKept DEF Start, telemetryVars, BootstrapTypeOK
  <2> QED
    BY <1>4, <2>1 DEF Start, BootstrapTypeOK, TelemetryTypeOK, telemetryVars, AppStates
<1>5. ASSUME NEW a \in Builds, NEW fault \in Faults, Stop(a, fault)
      PROVE  BootstrapTypeOK'
  <2>1. TelemetryTypeOK'
    BY <1>5, ShutdownType DEF Stop, BootstrapTypeOK
  <2>2. readiness' \in [Builds -> ReadinessState]
    BY <1>5 DEF Stop, BootstrapTypeOK, ReadinessState
  <2>3. HandlesNamed'
    BY <1>5, HandlesKept DEF Stop, Shutdown, ShutdownTracer, ShutdownMeter, TakenDown,
                             BootstrapTypeOK
  <2> QED BY <1>5, <2>1, <2>2, <2>3 DEF Stop, BootstrapTypeOK, AppStates
<1>6. ASSUME NEW a \in Builds, ServeSpan(a)
      PROVE  BootstrapTypeOK'
  <2>1. TelemetryTypeOK'
    BY <1>6, SpanType DEF ServeSpan, BootstrapTypeOK
  <2>2. HandlesNamed'
    BY <1>6, HandlesKept DEF ServeSpan, EndSpan, appVars
  <2> QED BY <1>6, <2>1, <2>2 DEF ServeSpan, appVars, BootstrapTypeOK
<1>7. ASSUME NEW n \in Builds, WorkerFlush(n)
      PROVE  BootstrapTypeOK'
  <2>1. TelemetryTypeOK'
    BY <1>7, SpanType DEF WorkerFlush, BootstrapTypeOK
  <2>2. HandlesNamed'
    BY <1>7, HandlesKept DEF WorkerFlush, Flush, appVars
  <2> QED BY <1>7, <2>1, <2>2 DEF WorkerFlush, appVars, BootstrapTypeOK
<1>8. CASE ResetSettingsCache \/ \E s \in Environments : EditEnviron(s)
  BY <1>8 DEF ResetSettingsCache, EditEnviron, appVars, telemetryVars,
              BootstrapTypeOK, TelemetryTypeOK, CachedSettings, HandlesNamed, Names
<1> QED
  BY <1>1, <1>2, <1>3, <1>4, <1>5, <1>6, <1>7, <1>8 DEF BootstrapNext

\* Type correctness: whatever builds raised and wherever, bootstrap's attributes
\* and the slots of the API name providers that a build did install, main._app an
\* application that a build did return, and the records of applications stay
\* within the states the lifespan and the probes know.
THEOREM BootstrapTypeCorrect == BootstrapSpec => []BootstrapTypeOK
<1>1. BootstrapTypeOK /\ [BootstrapNext]_bootstrapVars => BootstrapTypeOK'
  BY BootstrapStepType
<1> QED BY <1>1, BootstrapInitType, PTL DEF BootstrapSpec

-----------------------------------------------------------------------------
(***************************************************************************)
(* NeverSilentlyUntraced, for the use main.py is written for: applications *)
(* come from main.app alone and nothing clears the settings cache.  Builds *)
(* may fail and be repeated in any number; what makes the property         *)
(* inductive is that the installed provider is always one wired for the    *)
(* cached settings, that every application is the memoised one, and that a *)
(* provider is down only once that one has stopped reporting ready.        *)
(***************************************************************************)
MemoInv ==
  /\ BootstrapTypeOK
  /\ appMemo <= builds /\ otelTracer <= builds
  /\ \A a \in Builds : appState[a] # "none" => a = appMemo
  /\ \A a \in Builds : Ready(a) => a = appMemo
  /\ \A n \in Builds : tracers[n] = "down" => appMemo # 0 /\ ~Ready(appMemo)
  /\ otelTracer # 0 => /\ destination[otelTracer] = settingsCache
                       /\ tracers[otelTracer] # "unborn"
                       /\ settingsCache # "empty"
  /\ appMemo # 0 => /\ otelTracer # 0
                    /\ appSettings[appMemo] = settingsCache

\* The invariant is strong enough.
LEMMA MemoInvImplies == MemoInv => NeverSilentlyUntraced
  BY DEF MemoInv, NeverSilentlyUntraced, Serving, Traced, InstalledLive,
         BootstrapTypeOK, TelemetryTypeOK, ProviderStates, Builds

\* A read of main.app preserves it: the first successful build is memoised, and
\* the builds that failed before it left a provider wired for the same settings.
LEMMA MemoInvResolve ==
  ASSUME MemoInv, BootstrapTypeOK', NEW s \in Exporters, NEW fault \in Faults,
         ResolveApp(s, fault)
  PROVE  MemoInv'
<1>1. /\ appMemo = 0 /\ builds' = builds + 1 /\ builds + 1 \in Builds
      /\ builds \in Nat /\ otelTracer \in Nat /\ otelTracer <= builds
      /\ settingsCache' = s /\ s # "empty"
      /\ otelTracer # 0 => settingsCache = s
  BY DEF MemoInv, BootstrapTypeOK, TelemetryTypeOK, ResolveApp, CreateApp, GetSettings,
         Builds, Exporters
<1>2. \A n \in Builds : tracers[n] # "down" /\ tracers'[n] # "down"
  <2>1. \A n \in Builds : tracers[n] # "down"
    BY <1>1 DEF MemoInv
  <2> QED
    BY <1>1, <2>1 DEF ResolveApp, CreateApp, Configure, InstallTracer, KeepTracer,
                      MemoInv, BootstrapTypeOK, TelemetryTypeOK
<1>3. \A a \in Builds : appState[a] = "none" /\ ~Ready(a)
  BY <1>1 DEF MemoInv, Builds
<1>4. /\ otelTracer' # 0 => /\ otelTracer' <= builds'
                            /\ destination'[otelTracer'] = settingsCache'
                            /\ tracers'[otelTracer'] # "unborn"
      /\ fault = "none" => otelTracer' # 0
  <2>1. CASE InstallTracer(builds + 1, s)
    <3>1. CASE otelTracer = 0
      BY <1>1, <2>1, <3>1 DEF InstallTracer, SetOnce, MemoInv, BootstrapTypeOK, TelemetryTypeOK
    <3>2. CASE otelTracer # 0
      BY <1>1, <2>1, <3>2 DEF InstallTracer, SetOnce, MemoInv, BootstrapTypeOK, TelemetryTypeOK
    <3> QED BY <3>1, <3>2
  <2>2. CASE KeepTracer /\ fault # "none"
    BY <1>1, <2>2 DEF KeepTracer, MemoInv
  <2> QED BY <2>1, <2>2 DEF ResolveApp, CreateApp, Configure
<1>5. CASE fault = "none"
  <2>1. AppBuilt(builds + 1, s) /\ appMemo' = builds + 1
    BY <1>5 DEF ResolveApp, CreateApp
  <2>2. \A a \in Builds : appState'[a] # "none" => a = appMemo'
    BY <1>1, <1>3, <2>1 DEF AppBuilt, MemoInv, BootstrapTypeOK
  <2>3. \A a \in Builds : Ready(a)' => a = appMemo'
    BY <1>1, <1>3, <2>1 DEF AppBuilt, MemoInv, BootstrapTypeOK, Ready, Pending
  <2>4. appSettings'[appMemo'] = settingsCache'
    BY <1>1, <2>1 DEF AppBuilt, MemoInv, BootstrapTypeOK
  <2> QED BY <1>1, <1>2, <1>4, <1>5, <2>1, <2>2, <2>3, <2>4 DEF MemoInv
<1>6. CASE fault # "none"
  <2>1. UNCHANGED <<appState, readiness, appSettings, appMemo>>
    BY <1>6 DEF ResolveApp, CreateApp, NoAppBuilt
  <2> QED BY <1>1, <1>2, <1>3, <1>4, <2>1 DEF MemoInv, Ready, Pending
<1> QED BY <1>5, <1>6

\* The shutdown of an application preserves it: that application is the memoised
\* one and it stops reporting ready in the step that takes a provider down.
LEMMA MemoInvStop ==
  ASSUME MemoInv, BootstrapTypeOK', NEW a \in Builds, NEW fault \in Faults,
         Stop(a, fault)
  PROVE  MemoInv'
<1>1. a = appMemo /\ appMemo' = appMemo
  BY DEF Stop, MemoInv
<1>2. \A b \in Builds : Ready(b)' => b # a /\ Ready(b)
  <2>1. \A b \in Builds : b # a => readiness'[b] = readiness[b]
    BY DEF Stop, MemoInv, BootstrapTypeOK
  <2>2. readiness'[a].observabilityReady = FALSE
    BY DEF Stop, MemoInv, BootstrapTypeOK, ReadinessState
  <2> QED BY <2>1, <2>2 DEF Ready, Pending
<1>3. \A b \in Builds : ~Ready(b)'
  BY <1>1, <1>2 DEF MemoInv
<1>4. \A b \in Builds : appState'[b] # "none" => appState[b] # "none"
  BY DEF Stop, MemoInv, BootstrapTypeOK
<1>5. \A n \in Builds : tracers'[n] = "unborn" => tracers[n] = "unborn"
  BY DEF Stop, Shutdown, ShutdownTracer, TakenDown
<1>6. UNCHANGED <<otelTracer, destination, settingsCache, builds, appSettings>>
  BY DEF Stop, Shutdown
<1>7. otelTracer # 0 => otelTracer \in Builds
  BY DEF MemoInv, BootstrapTypeOK, TelemetryTypeOK, Builds
<1>8. \A n \in Builds : tracers'[n] = "down" => appMemo' # 0 /\ ~Ready(appMemo)'
  BY <1>1, <1>3 DEF Builds
<1> QED BY <1>1, <1>3, <1>4, <1>5, <1>6, <1>7, <1>8 DEF MemoInv

\* The steps of a process that takes its application from main.app alone and
\* never clears the settings cache.
MemoNext ==
  \/ SettingsError
  \/ \E s \in Exporters, fault \in Faults : ResolveApp(s, fault)
  \/ \E a \in Builds : Start(a) \/ ServeSpan(a) \/ WorkerFlush(a)
  \/ \E a \in Builds, fault \in Faults : Stop(a, fault)
  \/ \E s \in Environments : EditEnviron(s)

\* The invariant holds of a new process,
LEMMA MemoInvInit == BootstrapInit => MemoInv
  BY BootstrapInitType DEF BootstrapInit, TelemetryInit, MemoInv, NothingReady, Ready, Pending

\* and every one of those steps keeps it.
LEMMA MemoInvStep ==
  ASSUME MemoInv, [MemoNext]_bootstrapVars
  PROVE  MemoInv'
<1>1. BootstrapTypeOK'
  BY BootstrapStepType DEF MemoInv, MemoNext, BootstrapNext
<1>2. CASE SettingsError \/ UNCHANGED bootstrapVars
  BY <1>1, <1>2 DEF SettingsError, MemoInv, Ready, Pending, bootstrapVars, telemetryVars
<1>3. ASSUME NEW s \in Exporters, NEW fault \in Faults, ResolveApp(s, fault)
      PROVE  MemoInv'
  BY <1>1, <1>3, MemoInvResolve
<1>4. ASSUME NEW a \in Builds, Start(a)
      PROVE  MemoInv'
  <2>1. \A b \in Builds : appState'[b] # "none" => appState[b] # "none"
    BY <1>4 DEF Start, MemoInv, BootstrapTypeOK
  <2> QED
    BY <1>1, <1>4, <2>1 DEF Start, MemoInv, Ready, Pending, telemetryVars
<1>5. ASSUME NEW a \in Builds, NEW fault \in Faults, Stop(a, fault)
      PROVE  MemoInv'
  BY <1>1, <1>5, MemoInvStop
<1>6. CASE \/ \E a \in Builds : ServeSpan(a) \/ WorkerFlush(a)
           \/ \E s \in Environments : EditEnviron(s)
  BY <1>1, <1>6 DEF ServeSpan, EndSpan, WorkerFlush, Flush, EditEnviron, appVars,
                    telemetryVars, MemoInv, Ready, Pending
<1> QED BY <1>2, <1>3, <1>4, <1>5, <1>6 DEF MemoNext

\* "The process must never continue silently with telemetry disabled": in a
\* process that takes its application from main.app, whatever builds failed
\* before and however often its lifespan runs, an application that runs and
\* reports ready is traced to the destination its settings name.
THEOREM MemoNeverSilentlyUntraced ==
  ASSUME ~DirectBuilds, ~CacheResets
  PROVE  BootstrapSpec => []NeverSilentlyUntraced
<1>1. [BootstrapNext]_bootstrapVars => [MemoNext]_bootstrapVars
  BY DEF BootstrapNext, MemoNext, DirectCreate, ResetSettingsCache
<1>2. MemoInv /\ [BootstrapNext]_bootstrapVars => MemoInv'
  BY <1>1, MemoInvStep
<1> QED
  BY <1>2, MemoInvInit, MemoInvImplies, PTL DEF BootstrapSpec

-----------------------------------------------------------------------------
(***************************************************************************)
(* NoHalfConfiguredApp, however applications are built.                    *)
(***************************************************************************)
ConfiguredInv ==
  /\ BootstrapTypeOK
  /\ otelTracer <= builds /\ otelMeter <= builds
  /\ \A a \in Builds : appState[a] # "none" \/ Ready(a) => a <= builds
  /\ NoHalfConfiguredApp

\* A call of create_app preserves it.  A slot that a ready application counts on
\* is filled, so set-once keeps it; an application that is new has both filled.
LEMMA ConfiguredCreate ==
  ASSUME ConfiguredInv, BootstrapTypeOK', NEW given \in BOOLEAN,
         NEW s \in Exporters, NEW fault \in Faults, CreateApp(given, s, fault)
  PROVE  ConfiguredInv'
<1> DEFINE n == builds + 1
<1>1. /\ n \in Builds /\ n \in Nat /\ builds \in Nat /\ builds' = n
      /\ otelTracer \in Nat /\ otelMeter \in Nat
      /\ loggingConfigured' = TRUE
  BY DEF ConfiguredInv, BootstrapTypeOK, TelemetryTypeOK, CreateApp, Configure, Builds
<1>2. /\ otelTracer' \in {otelTracer, SetOnce(otelTracer, n)}
      /\ otelMeter' \in {otelMeter, SetOnce(otelMeter, n)}
      /\ fault = "none" => /\ otelTracer' = SetOnce(otelTracer, n)
                           /\ otelMeter' = SetOnce(otelMeter, n)
  BY DEF CreateApp, Configure, InstallTracer, InstallMeter, KeepTracer, KeepMeter
<1>3. /\ otelTracer' <= n /\ otelMeter' <= n
      /\ otelTracer # 0 => otelTracer' = otelTracer
      /\ otelMeter # 0 => otelMeter' = otelMeter
      /\ fault = "none" => otelTracer' \in 1 .. n /\ otelMeter' \in 1 .. n
  BY <1>1, <1>2 DEF SetOnce, ConfiguredInv
<1>4. \A a \in Builds : a # n => /\ appState'[a] = appState[a]
                                 /\ readiness'[a] = readiness[a]
  BY <1>1 DEF CreateApp, AppBuilt, NoAppBuilt, ConfiguredInv, BootstrapTypeOK
<1>5. fault # "none" => UNCHANGED <<appState, readiness>>
  BY DEF CreateApp, NoAppBuilt
<1>6. \A a \in Builds : (Ready(a)' => Ready(a)) \/ (a = n /\ fault = "none")
  <2> SUFFICES ASSUME NEW a \in Builds, ~(a = n /\ fault = "none")
               PROVE  Ready(a)' => Ready(a)
    OBVIOUS
  <2>1. readiness'[a] = readiness[a]
    BY <1>4, <1>5
  <2> QED BY <2>1 DEF Ready, Pending
<1>7. NoHalfConfiguredApp'
  <2> SUFFICES ASSUME NEW a \in Builds, Ready(a)'
               PROVE  otelTracer' \in 1 .. a /\ otelMeter' \in 1 .. a
    BY <1>1 DEF NoHalfConfiguredApp
  <2>1. CASE Ready(a)
    BY <1>3, <2>1 DEF ConfiguredInv, NoHalfConfiguredApp
  <2>2. CASE a = n /\ fault = "none"
    BY <1>3, <2>2
  <2> QED BY <1>6, <2>1, <2>2
<1>8. \A a \in Builds : appState'[a] # "none" \/ Ready(a)' => a <= n
  BY <1>1, <1>4, <1>5, <1>6 DEF ConfiguredInv, Builds
<1> QED BY <1>1, <1>3, <1>7, <1>8 DEF ConfiguredInv

\* The invariant is inductive.
LEMMA ConfiguredInvariant == BootstrapSpec => []ConfiguredInv
<1>1. BootstrapInit /\ BootstrapTypeOK => ConfiguredInv
  BY DEF BootstrapInit, TelemetryInit, ConfiguredInv, NoHalfConfiguredApp,
         NothingReady, Ready, Pending
<1>2. ConfiguredInv /\ BootstrapTypeOK' /\ [BootstrapNext]_bootstrapVars => ConfiguredInv'
  <2> SUFFICES ASSUME ConfiguredInv, BootstrapTypeOK', [BootstrapNext]_bootstrapVars
               PROVE  ConfiguredInv'
    OBVIOUS
  <2>1. ASSUME NEW s \in Exporters, NEW fault \in Faults,
               ResolveApp(s, fault) \/ DirectCreate(s, fault)
        PROVE  ConfiguredInv'
    BY <2>1, ConfiguredCreate DEF ResolveApp, DirectCreate
  <2>2. ASSUME NEW a \in Builds, Start(a)
        PROVE  ConfiguredInv'
    <3>1. \A b \in Builds : appState'[b] # "none" => appState[b] # "none"
      BY <2>2 DEF Start, ConfiguredInv, BootstrapTypeOK
    <3> QED BY <2>2, <3>1 DEF Start, ConfiguredInv, NoHalfConfiguredApp, Ready,
                              Pending, telemetryVars
  <2>3. ASSUME NEW a \in Builds, NEW fault \in Faults, Stop(a, fault)
        PROVE  ConfiguredInv'
    <3>1. \A b \in Builds : appState'[b] # "none" => appState[b] # "none"
      BY <2>3 DEF Stop, ConfiguredInv, BootstrapTypeOK
    <3>2. \A b \in Builds : Ready(b)' => Ready(b)
      BY <2>3 DEF Stop, ConfiguredInv, BootstrapTypeOK, ReadinessState, Ready, Pending
    <3> QED BY <2>3, <3>1, <3>2 DEF Stop, Shutdown, ConfiguredInv, NoHalfConfiguredApp
  <2>4. CASE SettingsError \/ ResetSettingsCache \/ UNCHANGED bootstrapVars
    BY <2>4 DEF SettingsError, ResetSettingsCache, bootstrapVars, appVars,
                telemetryVars, ConfiguredInv, NoHalfConfiguredApp, Ready, Pending
  <2>5. CASE \E a \in Builds : ServeSpan(a)
    <3>1. UNCHANGED <<loggingConfigured, otelTracer, otelMeter, appVars>>
      BY <2>5 DEF ServeSpan, EndSpan
    <3> QED BY <3>1 DEF appVars, ConfiguredInv, NoHalfConfiguredApp, Ready, Pending
  <2>6. CASE \/ \E m \in Builds : WorkerFlush(m)
             \/ \E s \in Environments : EditEnviron(s)
    BY <2>6 DEF WorkerFlush, Flush, EditEnviron, appVars, telemetryVars,
                ConfiguredInv, NoHalfConfiguredApp, Ready, Pending
  <2> QED BY <2>1, <2>2, <2>3, <2>4, <2>5, <2>6 DEF BootstrapNext
<1> QED BY <1>1, <1>2, BootstrapTypeCorrect, PTL DEF BootstrapSpec

\* Whoever holds an application that reports ready holds one whose process has
\* JSON logging and both provider slots filled by builds no later than its own,
\* whatever builds failed, however often and wherever applications are built.
THEOREM NoHalfConfigured == BootstrapSpec => []NoHalfConfiguredApp
<1>1. ConfiguredInv => NoHalfConfiguredApp
  BY DEF ConfiguredInv
<1> QED BY <1>1, ConfiguredInvariant, PTL

-----------------------------------------------------------------------------
\* A call of create_app, raising or not, leaves the tracing of an application
\* that exists: the slot it is traced through is filled and stays, and the call
\* writes the provider and the settings of its own build only.
LEMMA CreateKeepsTraced ==
  ASSUME ConfiguredInv, NEW given \in BOOLEAN, NEW s \in Exporters, NEW fault \in Faults,
         CreateApp(given, s, fault), NEW a \in Builds, appState[a] # "none", Traced(a)
  PROVE  Traced(a)'
<1> DEFINE n == builds + 1
<1>1. /\ n \in Builds /\ builds \in Nat /\ otelTracer \in Builds
      /\ otelTracer # n /\ a # n
  BY DEF ConfiguredInv, BootstrapTypeOK, TelemetryTypeOK, CreateApp, Traced, InstalledLive,
         Builds
<1>2. appSettings'[a] = appSettings[a]
  BY <1>1 DEF CreateApp, AppBuilt, NoAppBuilt, ConfiguredInv, BootstrapTypeOK
<1>3. /\ otelTracer' = otelTracer
      /\ tracers'[otelTracer] = tracers[otelTracer]
      /\ destination'[otelTracer] = destination[otelTracer]
  <2>1. CASE InstallTracer(n, s)
    BY <1>1, <2>1 DEF InstallTracer, SetOnce, ConfiguredInv, BootstrapTypeOK,
                      TelemetryTypeOK, Builds
  <2>2. CASE KeepTracer
    BY <2>2 DEF KeepTracer
  <2> QED BY <2>1, <2>2 DEF CreateApp, Configure
<1> QED BY <1>2, <1>3 DEF Traced, InstalledLive

\* A traced application that keeps serving loses its tracing only to the shutdown
\* of another application of its process: every other step, a failed build, an
\* edited environment and a cleared cache included, keeps the installed
\* provider, where it exports to and what the application was built for.
THEOREM OnlyAStopSilencesHolds == BootstrapSpec => OnlyAStopSilences
<1>1. ConfiguredInv /\ [BootstrapNext]_bootstrapVars =>
        [\A a \in Builds :
           Serving(a) /\ Serving(a)' /\ Traced(a) /\ ~Traced(a)' =>
             \E b \in Builds \ {a} : appState[b] = "running" /\ appState'[b] = "stopped"
        ]_bootstrapVars
  <2> SUFFICES ASSUME ConfiguredInv, BootstrapNext,
                      NEW a \in Builds, Serving(a), Serving(a)', Traced(a), ~Traced(a)'
               PROVE  \E b \in Builds \ {a} : appState[b] = "running" /\ appState'[b] = "stopped"
    OBVIOUS
  <2>1. ASSUME NEW b \in Builds, NEW fault \in Faults, Stop(b, fault)
        PROVE  \E c \in Builds \ {a} : appState[c] = "running" /\ appState'[c] = "stopped"
    <3>1. appState[b] = "running" /\ appState'[b] = "stopped"
      BY <2>1 DEF Stop, ConfiguredInv, BootstrapTypeOK
    <3>2. b # a
      BY <3>1 DEF Serving
    <3> QED BY <3>1, <3>2
  <2>2. ASSUME NEW s \in Exporters, NEW fault \in Faults,
               ResolveApp(s, fault) \/ DirectCreate(s, fault)
        PROVE  FALSE
    <3>1. PICK given \in BOOLEAN : CreateApp(given, s, fault)
      BY <2>2 DEF ResolveApp, DirectCreate
    <3>2. appState[a] # "none"
      BY DEF Serving
    <3> QED BY <3>1, <3>2, CreateKeepsTraced
  <2>3. ASSUME UNCHANGED <<otelTracer, tracers, destination, appSettings>>
        PROVE  FALSE
    BY <2>3 DEF Traced, InstalledLive
  <2>4. ASSUME \/ SettingsError \/ ResetSettingsCache
               \/ \E b \in Builds : Start(b) \/ ServeSpan(b) \/ WorkerFlush(b)
               \/ \E s \in Environments : EditEnviron(s)
        PROVE  UNCHANGED <<otelTracer, tracers, destination, appSettings>>
    BY <2>4 DEF SettingsError, ResetSettingsCache, Start, ServeSpan, EndSpan, WorkerFlush,
                Flush, EditEnviron, bootstrapVars, appVars, telemetryVars
  <2> QED BY <2>1, <2>2, <2>3, <2>4 DEF BootstrapNext
<1> QED BY <1>1, ConfiguredInvariant, PTL DEF BootstrapSpec, OnlyAStopSilences
=============================================================================
