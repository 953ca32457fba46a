---------------------------- MODULE ApiServerProofs ----------------------------
(***************************************************************************)
(* Theorems about module ApiServer, for every set of requests, every bound *)
(* on builds and spans and every set of faults.                            *)
(***************************************************************************)
EXTENDS ApiServer, BootstrapProofs

USE TelemetryAssumption, BootstrapAssumption DEF TelemetryAssumption, BootstrapAssumption

-----------------------------------------------------------------------------
(***************************************************************************)
(* The inductive invariant.  GracefulStopLosesNothing and FailureIsVisible *)
(* speak of the end of the process; what makes them inductive is what the  *)
(* process is at every phase before: nothing at all until uvicorn resolves *)
(* main.app, then one application, loaded for the environment, whose own   *)
(* provider is the installed and the only one, until the lifespan is left. *)
(***************************************************************************)
\* The phases in which the lifespan of an application lies ahead or is on.
Up == {"startup", "serving", "draining", "shutdown"}

Fresh ==
  /\ appMemo = 0 /\ builds = 0
  /\ otelTracer = 0 /\ tracerProvider = 0
  /\ settingsCache = "empty"
  /\ \A n \in Builds : queued[n] = 0 /\ appState[n] = "none"
  /\ ~ignored /\ InFlight = {}

LoadedForEnvironment ==
  appMemo # 0 => /\ mode = "api" /\ environ # "invalid"
                 /\ settingsCache = environ
                 /\ appSettings[appMemo] = environ

HoldsApp ==
  /\ phase \in Up \cup {"exiting"} \/ InFlight # {} => appMemo # 0
  /\ phase = "startup" => appState[appMemo] = "built"
  /\ phase \in {"serving", "draining", "shutdown"} => appState[appMemo] = "running"
  /\ phase = "exiting" => appState[appMemo] # "built"
  /\ phase = "exited" /\ exitCode = 0 => appMemo # 0 /\ appState[appMemo] # "built"

OwnProvider ==
  /\ otelTracer = appMemo /\ tracerProvider = appMemo
  /\ tracers[appMemo] = "live"
  /\ \A n \in Builds \ {appMemo} : queued[n] = 0
  /\ ~ignored

SpansKept ==
  /\ phase \in Up => OwnProvider
  /\ phase = "exiting" => \/ LifespanLeft /\ NothingQueued /\ ~InstalledLive
                          \/ LifespanSkipped /\ OwnProvider
  /\ ~aborted /\ phase \in {"shutdown", "exiting"} => InFlight = {}
  /\ LossExplained

ServerInv ==
  /\ ServerTypeOK
  /\ phase \in {"entrypoint", "loading"} => Fresh
  /\ phase = "loading" => mode = "api"
  /\ LoadedForEnvironment
  /\ HoldsApp
  /\ SpansKept

-----------------------------------------------------------------------------
\* The invariant is strong enough for a process that is stopped in order.
LEMMA ServerInvLosesNothing == ServerInv => GracefulStopLosesNothing
  BY DEF ServerInv, SpansKept, LossExplained, LifespanSkipped, NothingQueued,
         GracefulStopLosesNothing

\* And for one that fails.
LEMMA ServerInvVisible == ServerInv => FailureIsVisible
  BY DEF ServerInv, LoadedForEnvironment, HoldsApp, FailureIsVisible

\* It holds where docker-entrypoint.sh starts.
LEMMA ServerInvInit == ServerInit => ServerInv
<1> SUFFICES ASSUME ServerInit PROVE ServerInv
  OBVIOUS
<1>1. ServerTypeOK
  <2>1. BootstrapTypeOK
    BY BootstrapInitType DEF ServerInit
  <2>2. /\ mode \in Modes /\ phase \in Phases
        /\ exitCode \in ExitCodes \cup {-1} /\ (exitCode # -1 <=> phase = "exited")
    BY DEF ServerInit, Phases
  <2>3. /\ route \in [Requests -> Routes]
        /\ conn \in [Requests -> ConnStates]
        /\ answer \in [Requests -> Answers]
    BY DEF ServerInit, ConnStates, Answers
  <2>4. aborted \in BOOLEAN
    BY Zenon DEF ServerInit
  <2> QED BY <2>1, <2>2, <2>3, <2>4 DEF ServerTypeOK
<1>2. /\ phase = "entrypoint"
      /\ InFlight = {}
  BY DEF ServerInit, InFlight
<1>3. Fresh
  BY <1>2 DEF ServerInit, BootstrapInit, TelemetryInit, Fresh
<1> QED
  BY <1>1, <1>2, <1>3 DEF ServerInv, Fresh, LoadedForEnvironment, HoldsApp, SpansKept, LossExplained, Up

-----------------------------------------------------------------------------
\* Only Accept takes a request into flight.
LEMMA InFlightShrinks ==
  ASSUME conn \in [Requests -> ConnStates],
         \/ UNCHANGED conn
         \/ \E r \in Requests : conn' = [conn EXCEPT ![r] = "closed"]
         \/ \E r \in Requests : conn[r] = "open" /\ conn' = [conn EXCEPT ![r] = "replied"]
  PROVE  InFlight' \subseteq InFlight
  BY DEF InFlight

\* The steps that touch neither the application nor the providers: the types.
LEMMA OuterStepType ==
  ASSUME ServerTypeOK, UNCHANGED bootstrapVars,
         \/ Dispatch \/ Signal \/ Drained \/ GracefulTimeout \/ ForceExit \/ Kill
         \/ \E r \in Requests : Accept(r) \/ Handle(r)
  PROVE  ServerTypeOK'
<1>1. BootstrapTypeOK'
  BY BootstrapStepType DEF ServerTypeOK
<1>2. CASE Dispatch \/ Signal \/ Drained \/ GracefulTimeout \/ ForceExit \/ Kill
  <2>1. phase' \in Phases /\ aborted' \in BOOLEAN
    BY <1>2 DEF ServerTypeOK, Dispatch, Signal, Drained, GracefulTimeout, ForceExit, Kill, Phases
  <2>2. exitCode' \in ExitCodes \cup {-1} /\ (exitCode' # -1 <=> phase' = "exited")
    BY <1>2 DEF ServerTypeOK, Dispatch, Signal, Drained, GracefulTimeout, ForceExit, Kill,
                ExitCodes, Ended
  <2>3. UNCHANGED <<mode, route, conn, answer>>
    BY <1>2 DEF Dispatch, Signal, Drained, GracefulTimeout, ForceExit, Kill, requestVars
  <2> QED BY <1>1, <2>1, <2>2, <2>3 DEF ServerTypeOK
<1>3. CASE \E r \in Requests : Accept(r) \/ Handle(r)
  <2>1. conn' \in [Requests -> ConnStates] /\ answer' \in [Requests -> Answers]
    BY <1>3 DEF ServerTypeOK, Accept, Handle, Probe, ConnStates, Answers
  <2> QED BY <1>1, <1>3, <2>1 DEF ServerTypeOK, Accept, Handle
<1> QED BY <1>2, <1>3

\* The same steps keep the invariant.  Drained is what makes a shutdown begin
\* with nothing in flight; a drain that is cut short says so in aborted.
LEMMA OuterStep ==
  ASSUME ServerInv,
         \/ Dispatch \/ Signal \/ Drained \/ GracefulTimeout \/ ForceExit \/ Kill
         \/ \E r \in Requests : Accept(r) \/ Handle(r)
  PROVE  ServerInv'
<1>1. UNCHANGED bootstrapVars /\ UNCHANGED mode
  BY DEF Dispatch, Signal, Drained, GracefulTimeout, ForceExit, Kill, Accept, Handle
<1>2. ServerTypeOK'
  BY <1>1, OuterStepType DEF ServerInv
<1>3. LoadedForEnvironment'
  BY <1>1 DEF ServerInv, LoadedForEnvironment, bootstrapVars
<1> USE DEF ServerInv, Fresh, HoldsApp, SpansKept, LossExplained, OwnProvider, NothingQueued,
            LifespanLeft, LifespanSkipped, InstalledLive, Up, bootstrapVars, telemetryVars
<1>4. CASE Dispatch \/ Signal \/ Drained \/ GracefulTimeout \/ ForceExit \/ Kill
  <2>1. InFlight' = InFlight
    BY <1>4 DEF Dispatch, Signal, Drained, GracefulTimeout, ForceExit, Kill, requestVars, InFlight
  <2>2. CASE Dispatch \/ Kill
    BY <1>1, <1>2, <1>3, <2>1, <2>2 DEF Dispatch, Kill, Ended
  <2>3. CASE Signal \/ Drained \/ GracefulTimeout
    BY <1>1, <1>2, <1>3, <2>1, <2>3 DEF Signal, Drained, GracefulTimeout
  <2>4. CASE ForceExit
    BY <1>1, <1>2, <1>3, <2>1, <2>4 DEF ForceExit
  <2> QED BY <1>4, <2>2, <2>3, <2>4
<1>5. CASE \E r \in Requests : Accept(r) \/ Handle(r)
  <2>1. /\ UNCHANGED <<phase, exitCode, aborted>>
        /\ phase \in {"serving", "draining"}
    BY <1>5 DEF Accept, Handle
  <2>2. HoldsApp'
    BY <1>1, <2>1
  <2>3. SpansKept'
    BY <1>1, <2>1
  <2> QED BY <1>1, <1>2, <1>3, <2>1, <2>2, <2>3
<1> QED BY <1>4, <1>5

-----------------------------------------------------------------------------
\* uvicorn resolves main.app: in a fresh process a build that succeeds installs
\* its own provider and is memoised with the settings of the environment; one
\* that fails leaves no application, and the process ends with code 1.
LEMMA LoadStep ==
  ASSUME ServerInv, LoadApp
  PROVE  ServerInv'
<1>1. Fresh /\ mode = "api" /\ phase = "loading" /\ ServerTypeOK /\ exitCode = -1
  BY DEF ServerInv, LoadApp, ServerTypeOK
<1>2. UNCHANGED <<mode, aborted, route, conn, answer>> /\ InFlight' = InFlight
  BY DEF LoadApp, requestVars, InFlight
<1>3. CASE SettingsError /\ LoadFailed
  <2>1. UNCHANGED bootstrapVars
    BY <1>3 DEF SettingsError
  <2>2. BootstrapTypeOK'
    BY <1>1, <2>1, BootstrapStepType DEF ServerTypeOK
  <2>3. ServerTypeOK'
    BY <1>1, <1>2, <1>3, <2>2 DEF ServerTypeOK, LoadFailed, Phases, ExitCodes
  <2> QED
    BY <1>1, <1>2, <1>3, <2>1, <2>3
    DEF ServerInv, LoadFailed, Fresh, LoadedForEnvironment, HoldsApp, SpansKept,
        LossExplained, NothingQueued, Up, bootstrapVars, telemetryVars
<1>4. ASSUME NEW s \in Exporters, NEW fault \in Faults, ResolveApp(s, fault),
             IF fault = "none" THEN phase' = "startup" /\ UNCHANGED exitCode
                               ELSE LoadFailed
      PROVE  ServerInv'
  <2>1. BootstrapTypeOK'
    BY <1>1, <1>4, BootstrapStepType DEF ServerTypeOK, BootstrapNext
  <2>2. ServerTypeOK'
    BY <1>1, <1>2, <1>4, <2>1 DEF ServerTypeOK, LoadFailed, Phases, ExitCodes
  <2>3. /\ environ = s /\ environ' = s /\ settingsCache' = s /\ s # "invalid"
        /\ 1 \in Builds
        /\ Configure(1, s, fault)
        /\ IF fault = "none" THEN AppBuilt(1, s) ELSE NoAppBuilt
        /\ appMemo' = IF fault = "none" THEN 1 ELSE 0
    <3>1. builds + 1 = 1 /\ 1 \in Builds
      BY <1>1 DEF Fresh, Builds
    <3>2. /\ environ = s /\ environ' = s /\ settingsCache' = s /\ s # "invalid"
      BY <1>1, <1>4 DEF Fresh, ResolveApp, CreateApp, GetSettings, Exporters
    <3>3. /\ Configure(builds + 1, s, fault)
          /\ IF fault = "none" THEN AppBuilt(builds + 1, s) ELSE NoAppBuilt
          /\ appMemo' = IF fault = "none" THEN builds + 1 ELSE 0
      BY <1>1, <1>4 DEF Fresh, ResolveApp, CreateApp
    <3> QED BY <3>1, <3>2, <3>3, Zenon
  <2>4. UNCHANGED <<queued, ignored>>
    BY <2>3 DEF Configure
  <2>5. CASE fault = "none"
    <3>1. otelTracer' = 1 /\ tracerProvider' = 1 /\ tracers'[1] = "live"
      BY <1>1, <2>3, <2>5 DEF Fresh, Configure, InstallTracer, SetOnce, ServerTypeOK,
                              BootstrapTypeOK, TelemetryTypeOK
    <3>2. appState'[1] = "built" /\ appSettings'[1] = s
      BY <1>1, <2>3, <2>5 DEF AppBuilt, ServerTypeOK, BootstrapTypeOK
    <3> QED
      BY <1>1, <1>2, <1>4, <2>2, <2>3, <2>4, <2>5, <3>1, <3>2
      DEF ServerInv, Fresh, LoadedForEnvironment, HoldsApp, SpansKept, LossExplained,
          OwnProvider, Up
  <2>6. CASE fault # "none"
    <3>1. phase' = "exited" /\ exitCode' = 1 /\ appMemo' = 0
      BY <1>4, <2>3, <2>6 DEF LoadFailed
    <3> QED
      BY <1>1, <1>2, <2>2, <2>4, <3>1
      DEF ServerInv, Fresh, LoadedForEnvironment, HoldsApp, SpansKept, LossExplained,
          NothingQueued, Up
  <2> QED BY <2>5, <2>6
<1> QED BY <1>3, <1>4 DEF LoadApp

\* The lifespan is entered.
LEMMA StartupStep ==
  ASSUME ServerInv, LifespanStartup
  PROVE  ServerInv'
<1>1. /\ phase = "startup" /\ phase' = "serving" /\ Start(appMemo)
      /\ UNCHANGED <<mode, exitCode, aborted, route, conn, answer>>
      /\ appMemo \in Builds /\ ServerTypeOK
  BY DEF LifespanStartup, requestVars, ServerInv, HoldsApp, Up, ServerTypeOK,
         BootstrapTypeOK, Builds
<1>2. /\ UNCHANGED <<telemetryVars, environ, settingsCache, appMemo, builds, appSettings>>
      /\ appState'[appMemo] = "running"
  BY <1>1 DEF Start, ServerTypeOK, BootstrapTypeOK
<1>3. ServerTypeOK'
  <2>1. BootstrapTypeOK'
    BY <1>1, BootstrapStepType DEF ServerTypeOK, BootstrapNext
  <2> QED BY <1>1, <2>1 DEF ServerTypeOK, Phases
<1>4. InFlight' = InFlight
  BY <1>1 DEF InFlight
<1> QED
  BY <1>1, <1>2, <1>3, <1>4
  DEF ServerInv, LoadedForEnvironment, HoldsApp, SpansKept, LossExplained, OwnProvider, Up,
      telemetryVars

-----------------------------------------------------------------------------
\* A server span ends.  While the lifespan is on, its provider is live and takes
\* it; after that a span can only be that of a request the abort cancelled.
LEMMA SpanStep ==
  ASSUME ServerInv, NEW r \in Requests, Respond(r) \/ Cancelled(r)
  PROVE  ServerInv'
<1>1. /\ phase \in Up \cup {"exiting"} /\ UNCHANGED <<mode, phase, exitCode, aborted, route, answer>>
      /\ conn' = [conn EXCEPT ![r] = "closed"] /\ InFlight # {}
      /\ appMemo # 0 /\ EndSpan(appSettings[appMemo])
      /\ UNCHANGED <<environ, settingsCache, appVars>>
      /\ ServerTypeOK
  BY DEF Respond, Cancelled, CloseSpan, ServeSpan, ServerInv, Up, InFlight
<1>2. appMemo \in Builds
  BY <1>1 DEF ServerTypeOK, BootstrapTypeOK, Builds
<1>3. ServerTypeOK'
  <2>1. ServeSpan(appMemo)
    BY DEF Respond, Cancelled, CloseSpan
  <2>2. BootstrapTypeOK'
    BY <1>1, <1>2, <2>1, BootstrapStepType DEF ServerTypeOK, BootstrapNext
  <2>3. conn' \in [Requests -> ConnStates]
    BY <1>1 DEF ServerTypeOK, ConnStates
  <2> QED BY <1>1, <2>2, <2>3 DEF ServerTypeOK
<1>4. InFlight' \subseteq InFlight
  BY <1>1, InFlightShrinks DEF ServerTypeOK
<1>5. LoadedForEnvironment' /\ HoldsApp'
  BY <1>1, <1>4 DEF ServerInv, LoadedForEnvironment, HoldsApp, appVars, Up
<1>6. UNCHANGED <<otelTracer, tracerProvider, tracers, appMemo, appState>>
  BY <1>1 DEF EndSpan, appVars
<1>7. SpansKept'
  <2>1. CASE OwnProvider /\ (phase \in Up \/ (phase = "exiting" /\ LifespanSkipped))
    <3>1. InstalledLive
      BY <1>1, <2>1 DEF OwnProvider, InstalledLive
    <3>2. ignored' = ignored /\ \A n \in Builds \ {otelTracer} : queued'[n] = queued[n]
      BY <1>1, <3>1 DEF EndSpan, ServerTypeOK, BootstrapTypeOK, TelemetryTypeOK
    <3>3. OwnProvider' /\ ~ignored'
      BY <1>6, <2>1, <3>2 DEF OwnProvider
    <3>4. phase = "exiting" => LifespanSkipped'
      BY <1>1, <1>6, <2>1 DEF LifespanSkipped, Up
    <3>5. ~aborted => phase \notin {"shutdown", "exiting"}
      BY <1>1 DEF ServerInv, SpansKept
    <3>6. phase' = phase /\ phase # "exited" /\ (aborted' <=> aborted)
      BY <1>1, <2>1 DEF Up
    <3>7. LossExplained'
      BY <3>3, <3>6 DEF LossExplained
    <3> QED
      BY <3>3, <3>4, <3>5, <3>6, <3>7 DEF SpansKept
  <2>2. CASE phase = "exiting" /\ LifespanLeft /\ NothingQueued /\ ~InstalledLive
    <3>1. queued' = queued /\ ~InstalledLive'
      BY <1>1, <1>6, <2>2 DEF EndSpan, InstalledLive
    <3>2. aborted
      BY <1>1, <2>2 DEF ServerInv, SpansKept
    <3> QED
      BY <1>1, <1>6, <2>2, <3>1, <3>2
      DEF SpansKept, LossExplained, LifespanLeft, NothingQueued, Up
  <2> QED BY <1>1, <2>1, <2>2 DEF ServerInv, SpansKept
<1> QED BY <1>1, <1>3, <1>5, <1>7 DEF ServerInv, Up

\* The lifespan is left: the one queue that may hold spans is flushed, whether
\* or not a provider's shutdown raises.
LEMMA ShutdownStep ==
  ASSUME ServerInv, NEW fault \in Faults, LifespanShutdown(fault)
  PROVE  ServerInv'
<1>1. /\ phase = "shutdown" /\ phase' = "exiting" /\ Stop(appMemo, fault)
      /\ UNCHANGED <<mode, exitCode, aborted, route, conn, answer>>
      /\ ServerTypeOK /\ appMemo \in Builds
  BY DEF LifespanShutdown, requestVars, ServerInv, HoldsApp, Up, ServerTypeOK,
         BootstrapTypeOK, Builds
<1>2. ServerTypeOK'
  <2>1. BootstrapTypeOK'
    BY <1>1, BootstrapStepType DEF ServerTypeOK, BootstrapNext
  <2> QED BY <1>1, <2>1 DEF ServerTypeOK, Phases
<1>3. /\ UNCHANGED <<environ, settingsCache, appMemo, appSettings, ignored>>
      /\ appState'[appMemo] = "stopped"
      /\ queued' = Flushed(tracerProvider)
  BY <1>1 DEF Stop, Shutdown, ShutdownTracer, ServerTypeOK, BootstrapTypeOK
<1>4. InFlight' = InFlight
  BY <1>1 DEF InFlight
<1>5. LoadedForEnvironment' /\ HoldsApp'
  BY <1>1, <1>3, <1>4 DEF ServerInv, LoadedForEnvironment, HoldsApp, Up
<1>6. SpansKept'
  <2>1. OwnProvider /\ ~ignored
    BY <1>1 DEF ServerInv, SpansKept, OwnProvider, Up
  <2>2. NothingQueued'
    BY <1>3, <2>1 DEF OwnProvider, NothingQueued, Flushed
  <2>3. ~InstalledLive'
    BY <1>1, <2>1 DEF OwnProvider, Stop, Shutdown, ShutdownTracer, TakenDown, InstalledLive,
                      ServerTypeOK, BootstrapTypeOK, TelemetryTypeOK
  <2>4. LifespanLeft'
    BY <1>1, <1>3 DEF LifespanLeft, Builds
  <2>5. ~aborted => InFlight = {}
    BY <1>1 DEF ServerInv, SpansKept
  <2> QED
    BY <1>1, <1>3, <1>4, <2>1, <2>2, <2>3, <2>4, <2>5 DEF SpansKept, LossExplained, Up
<1> QED BY <1>1, <1>2, <1>5, <1>6 DEF ServerInv

\* The SDK's atexit hooks keep the types.
LEMMA AtExitType ==
  ASSUME TelemetryTypeOK, AtExit
  PROVE  TelemetryTypeOK'
<1>1. tracers' \in [Builds -> ProviderStates] /\ meters' \in [Builds -> ProviderStates]
  BY DEF TelemetryTypeOK, AtExit, ProviderStates
<1>2. queued' \in [Builds -> 0 .. MaxSpans]
  BY DEF AtExit
<1>3. ignored' \in BOOLEAN /\ loggingConfigured' \in BOOLEAN
  BY Zenon DEF TelemetryTypeOK, AtExit
<1> QED BY <1>1, <1>2, <1>3 DEF TelemetryTypeOK, AtExit

\* The process exits, with the atexit hooks or without them.
LEMMA ExitStep ==
  ASSUME ServerInv, Exit
  PROVE  ServerInv'
<1>1. /\ phase = "exiting" /\ phase' = "exited" /\ exitCode' \in {0, 143}
      /\ UNCHANGED <<environ, settingsCache, appVars, mode, aborted, route, conn, answer>>
      /\ ServerTypeOK
  BY DEF Exit, requestVars, ServerInv
<1>2. AtExit \/ UNCHANGED telemetryVars
  BY DEF Exit
<1>3. ServerTypeOK'
  <2>1. TelemetryTypeOK'
    <3>1. CASE AtExit
      BY <1>1, <3>1, AtExitType DEF ServerTypeOK, BootstrapTypeOK
    <3>2. CASE UNCHANGED telemetryVars
      BY <1>1, <3>2 DEF ServerTypeOK, BootstrapTypeOK, TelemetryTypeOK, telemetryVars
    <3> QED BY <1>2, <3>1, <3>2
  <2>2. BootstrapTypeOK'
    <3>1. HandlesNamed'
      BY <1>1, <1>2, HandlesKept DEF ServerTypeOK, AtExit, appVars, telemetryVars
    <3> QED BY <1>1, <2>1, <3>1 DEF ServerTypeOK, BootstrapTypeOK, appVars
  <2> QED BY <1>1, <2>2 DEF ServerTypeOK, Phases, ExitCodes
<1>4. ignored' = ignored /\ \A n \in Builds : queued'[n] \in {0, queued[n]}
  BY <1>2 DEF AtExit, telemetryVars
<1>5. InFlight' = InFlight
  BY <1>1 DEF InFlight
<1>6. exitCode' = 143 \/ NothingQueued'
  BY DEF Exit, AtExit, NothingQueued
<1>7. NothingQueued => NothingQueued'
  BY <1>4 DEF NothingQueued
<1> QED
  BY <1>1, <1>3, <1>4, <1>5, <1>6, <1>7
  DEF ServerInv, LoadedForEnvironment, HoldsApp, SpansKept, LossExplained, LifespanLeft,
      LifespanSkipped, Up, appVars

\* The batch worker empties a queue.
LEMMA ExportStep ==
  ASSUME ServerInv, NEW n \in Builds, Export(n)
  PROVE  ServerInv'
<1>1. /\ UNCHANGED <<mode, phase, exitCode, aborted, route, conn, answer>>
      /\ UNCHANGED <<environ, settingsCache, appVars, otelTracer, tracerProvider, tracers, ignored>>
      /\ queued' = Flushed(n) /\ WorkerFlush(n) /\ ServerTypeOK
  BY DEF Export, WorkerFlush, Flush, requestVars, ServerInv
<1>2. ServerTypeOK'
  <2>1. BootstrapTypeOK'
    BY <1>1, BootstrapStepType DEF ServerTypeOK, BootstrapNext
  <2> QED BY <1>1, <2>1 DEF ServerTypeOK
<1>3. \A m \in Builds : queued'[m] \in {0, queued[m]}
  BY <1>1 DEF Flushed
<1>4. InFlight' = InFlight
  BY <1>1 DEF InFlight
<1> QED
  BY <1>1, <1>2, <1>3, <1>4
  DEF ServerInv, Fresh, LoadedForEnvironment, HoldsApp, SpansKept, LossExplained,
      OwnProvider, NothingQueued, LifespanLeft, LifespanSkipped, InstalledLive, Up, appVars

-----------------------------------------------------------------------------
\* The invariant is inductive.
LEMMA ServerInvariant == ServerSpec => []ServerInv
<1>1. ServerInv /\ [ServerNext]_serverVars => ServerInv'
  <2> SUFFICES ASSUME ServerInv, [ServerNext]_serverVars PROVE ServerInv'
    OBVIOUS
  <2>1. CASE UNCHANGED serverVars
    <3>1. BootstrapTypeOK'
      BY <2>1, BootstrapStepType DEF ServerInv, ServerTypeOK, serverVars
    <3> QED
      BY <2>1, <3>1
      DEF serverVars, bootstrapVars, telemetryVars, ServerInv, ServerTypeOK, Fresh, InFlight,
          LoadedForEnvironment, HoldsApp, SpansKept, LossExplained, OwnProvider, NothingQueued,
          LifespanLeft, LifespanSkipped, InstalledLive
  <2>2. CASE Server
    BY <2>2, OuterStep, LoadStep, StartupStep, SpanStep, ShutdownStep, ExitStep DEF Server
  <2>3. CASE Outside
    BY <2>3, OuterStep, ExportStep DEF Outside
  <2> QED BY <2>1, <2>2, <2>3 DEF ServerNext
<1> QED BY <1>1, ServerInvInit, PTL DEF ServerSpec

\* Type correctness: among the rest, the process has an exit code once it exited
\* and none before.
THEOREM ServerTypeCorrect == ServerSpec => []ServerTypeOK
BY ServerInvariant, PTL DEF ServerInv

\* A process that is stopped in order loses no span, whatever faults its
\* shutdown meets and whether or not the signal raised again lets the atexit
\* hooks run: the provider is taken down only when every request has been
\* answered, and taking it down empties the only queue in use.
THEOREM GracefulStopHolds == ServerSpec => []GracefulStopLosesNothing
BY ServerInvariant, ServerInvLosesNothing, PTL

\* A process that is cut short loses spans in two ways only: to a graceful timeout
\* those of cancelled requests that end after the lifespan, and to a second signal
\* those still queued when the signal raised again ends the process.
THEOREM LossExplainedHolds == ServerSpec => []LossExplained
BY ServerInvariant, PTL DEF ServerInv, SpansKept

\* "A misconfigured process fails at startup rather than at first use": requests
\* are accepted only by an application built for the environment's settings, and
\* a process that exits with 0 has run one.
THEOREM FailureIsVisibleHolds == ServerSpec => []FailureIsVisible
BY ServerInvariant, ServerInvVisible, PTL

-----------------------------------------------------------------------------
(***************************************************************************)
(* The properties of module Bootstrap in the process it is deployed in.    *)
(***************************************************************************)
\* Until it exits, the process makes the steps of a process that uses main.app
\* only.  The SDK's atexit hooks are the one exception.
LEMMA ServerStepsAreMemoSteps ==
  ASSUME ServerInv, [ServerNext]_serverVars, ~Exit
  PROVE  [MemoNext]_bootstrapVars
<1>1. phase \in Up \cup {"exiting"} \/ InFlight # {} => appMemo \in Builds
  BY DEF ServerInv, HoldsApp, ServerTypeOK, BootstrapTypeOK, Builds
<1>2. CASE \/ Dispatch \/ Signal \/ Drained \/ GracefulTimeout \/ ForceExit \/ Kill
           \/ \E r \in Requests : Accept(r) \/ Handle(r)
           \/ UNCHANGED serverVars
  BY <1>2 DEF Dispatch, Signal, Drained, GracefulTimeout, ForceExit, Kill, Accept, Handle,
              serverVars
<1>3. CASE LoadApp
  BY <1>3 DEF LoadApp, MemoNext
<1>4. CASE LifespanStartup
  BY <1>1, <1>4 DEF LifespanStartup, MemoNext, Up
<1>5. CASE \E r \in Requests : Respond(r) \/ Cancelled(r)
  BY <1>1, <1>5 DEF Respond, Cancelled, CloseSpan, MemoNext, Up
<1>6. CASE \E fault \in Faults : LifespanShutdown(fault)
  BY <1>1, <1>6 DEF LifespanShutdown, MemoNext, Up
<1>7. CASE \E n \in Builds : Export(n)
  BY <1>7 DEF Export, MemoNext
<1> QED
  BY <1>2, <1>3, <1>4, <1>5, <1>6, <1>7 DEF ServerNext, Server, Outside

\* "The process must never continue silently with telemetry disabled", of the
\* deployed process and without assumptions on who builds applications: until
\* it exits, aborted or not, the application it runs and reports ready is traced
\* to the destination its settings name.
THEOREM DeployedNeverSilentlyUntraced ==
  ServerSpec => [](phase # "exited" => NeverSilentlyUntraced)
<1> DEFINE I == phase # "exited" => MemoInv
<1>1. ServerInit => I
  BY MemoInvInit DEF ServerInit
<1>2. ServerInv /\ I /\ [ServerNext]_serverVars => I'
  <2> SUFFICES ASSUME ServerInv, I, [ServerNext]_serverVars, phase' # "exited"
               PROVE  MemoInv'
    OBVIOUS
  <2>1. ~Exit
    BY DEF Exit
  <2>2. phase # "exited"
    <3>1. CASE UNCHANGED serverVars
      BY <3>1 DEF serverVars
    <3>2. CASE Server
      BY <2>1, <3>2 DEF Server, Dispatch, LoadApp, LifespanStartup, Handle, Respond, Cancelled,
                        Drained, LifespanShutdown
    <3>3. CASE Outside
      BY <3>3 DEF Outside, Accept, Signal, GracefulTimeout, ForceExit, Kill, Export, Ended
    <3> QED BY <3>1, <3>2, <3>3 DEF ServerNext
  <2> QED BY <2>1, <2>2, ServerStepsAreMemoSteps, MemoInvStep
<1>3. I => (phase # "exited" => NeverSilentlyUntraced)
  BY MemoInvImplies
<1> QED BY <1>1, <1>2, <1>3, ServerInvariant, PTL DEF ServerSpec

-----------------------------------------------------------------------------
\* Every request is answered in a phase in which the application reports ready,
\* because only the lifespan's end takes readiness back.
AnswersReady ==
  /\ phase \in Up => Ready(appMemo)
  /\ \A r \in Requests : answer[r] # "not_ready"

\* A build that succeeds reports ready at once.
LEMMA ReadyOnceBuilt ==
  ASSUME ServerInv, NEW s \in Exporters, ResolveApp(s, "none"), "none" \in Faults
  PROVE  Ready(appMemo)'
<1>1. /\ appMemo' = builds + 1 /\ builds + 1 \in Builds
      /\ AppBuilt(builds + 1, s)
      /\ readiness \in [Builds -> ReadinessState]
  BY DEF ResolveApp, CreateApp, ServerInv, ServerTypeOK, BootstrapTypeOK, Builds
<1>2. readiness'[appMemo'] = [settingsLoaded |-> TRUE, observabilityReady |-> TRUE]
  BY <1>1 DEF AppBuilt
<1> QED BY <1>2 DEF Ready, Pending

\* /readyz never says "not_ready" over the whole life of the process, the drain
\* included: the readiness that main.py takes back for "a draining process" is
\* taken back when nobody is left to ask.  Run api_drain shows one such answer;
\* this is every answer.
THEOREM ReadyzNeverSaysNotReady ==
  ServerSpec => [](\A r \in Requests : answer[r] # "not_ready")
<1>1. ServerInit => AnswersReady
  BY DEF ServerInit, AnswersReady, Up
<1>2. ServerInv /\ AnswersReady /\ [ServerNext]_serverVars => AnswersReady'
  <2> SUFFICES ASSUME ServerInv, AnswersReady, [ServerNext]_serverVars
               PROVE  AnswersReady'
    OBVIOUS
  <2> USE DEF AnswersReady, Up
  <2>1. CASE LoadApp
    <3>1. CASE LoadFailed
      BY <2>1, <3>1 DEF LoadApp, LoadFailed, requestVars
    <3>2. CASE \E s \in Exporters, fault \in Faults : ResolveApp(s, fault) /\ fault = "none"
      BY <2>1, <3>2, ReadyOnceBuilt DEF LoadApp, requestVars
    <3> QED BY <2>1, <3>1, <3>2 DEF LoadApp
  <2>2. ASSUME NEW r \in Requests, Handle(r)
        PROVE  AnswersReady'
    <3>1. UNCHANGED <<phase, appMemo, readiness>> /\ phase \in Up
      BY <2>2 DEF Handle, bootstrapVars
    <3>2. Probe(r) # "not_ready"
      BY <3>1 DEF Probe
    <3>3. \A q \in Requests : answer'[q] # "not_ready"
      BY <2>2, <3>2 DEF Handle, ServerInv, ServerTypeOK
    <3> QED BY <3>1, <3>3 DEF Ready, Pending
  <2>3. CASE \E fault \in Faults : LifespanShutdown(fault)
    BY <2>3 DEF LifespanShutdown, requestVars
  <2>4. CASE \/ Dispatch \/ LifespanStartup \/ Drained \/ Exit \/ UNCHANGED serverVars
             \/ \E r \in Requests : Respond(r) \/ Cancelled(r)
             \/ Outside
    <3>1. UNCHANGED <<appMemo, readiness, answer>>
      BY <2>4 DEF Dispatch, LifespanStartup, Start, Drained, Exit, Respond, Cancelled,
                  CloseSpan, ServeSpan, Outside, Accept, Signal, GracefulTimeout, ForceExit,
                  Kill, Export, WorkerFlush, requestVars, serverVars, bootstrapVars, appVars
    <3>2. phase' \in Up => phase \in Up
      BY <2>4 DEF Dispatch, LifespanStartup, Drained, Exit, Respond, Cancelled, CloseSpan,
                  Outside, Accept, Signal, GracefulTimeout, ForceExit, Kill, Export, serverVars
    <3> QED BY <3>1, <3>2 DEF Ready, Pending
  <2> QED BY <2>1, <2>2, <2>3, <2>4 DEF ServerNext, Server
<1>3. AnswersReady => \A r \in Requests : answer[r] # "not_ready"
  BY DEF AnswersReady
<1> QED BY <1>1, <1>2, <1>3, ServerInvariant, PTL DEF ServerSpec

-----------------------------------------------------------------------------
\* The module attribute names the installed provider or none.
HandleIsInstalled == tracerProvider \in {0, otelTracer}

\* "Flush and shut down the providers": in the deployed process the provider a
\* shutdown takes down is the one the process exports through, so that nothing
\* is left in its queue.  Elsewhere a second build parts the two variables.
THEOREM DeployedShutdownFlushes == ServerSpec => ShutdownFlushesInstalled
<1>1. ServerInit => HandleIsInstalled
  BY DEF ServerInit, BootstrapInit, TelemetryInit, HandleIsInstalled
<1>2. ServerInv /\ HandleIsInstalled /\ [ServerNext]_serverVars =>
        HandleIsInstalled' /\ [tracerProvider # 0 /\ tracerProvider' = 0
                                 => queued'[otelTracer] = 0]_bootstrapVars
  <2> SUFFICES ASSUME ServerInv, HandleIsInstalled, [ServerNext]_serverVars
               PROVE  /\ HandleIsInstalled'
                      /\ tracerProvider # 0 /\ tracerProvider' = 0 => queued'[otelTracer] = 0
    OBVIOUS
  <2>1. CASE LoadApp
    <3>1. Fresh
      BY <2>1 DEF LoadApp, ServerInv
    <3>2. \/ UNCHANGED <<tracerProvider, otelTracer>>
          \/ tracerProvider' = builds + 1 /\ otelTracer' = SetOnce(otelTracer, builds + 1)
      BY <2>1 DEF LoadApp, SettingsError, bootstrapVars, telemetryVars, ResolveApp, CreateApp,
                  Configure, InstallTracer, KeepTracer
    <3> QED BY <3>1, <3>2 DEF Fresh, SetOnce, HandleIsInstalled
  <2>2. ASSUME NEW fault \in Faults, LifespanShutdown(fault)
        PROVE  /\ HandleIsInstalled'
               /\ tracerProvider # 0 /\ tracerProvider' = 0 => queued'[otelTracer] = 0
    <3>1. /\ queued' = Flushed(tracerProvider) /\ otelTracer' = otelTracer
          /\ tracerProvider' \in {tracerProvider, 0}
      BY <2>2 DEF LifespanShutdown, Stop, Shutdown, ShutdownTracer
    <3>2. tracerProvider # 0 => queued'[tracerProvider] = 0
      BY <3>1 DEF Flushed, ServerInv, ServerTypeOK, BootstrapTypeOK, TelemetryTypeOK, Builds
    <3> QED BY <3>1, <3>2 DEF HandleIsInstalled
  <2>3. CASE \/ Dispatch \/ LifespanStartup \/ Drained \/ Exit \/ UNCHANGED serverVars
             \/ \E r \in Requests : Handle(r) \/ Respond(r) \/ Cancelled(r)
             \/ Outside
    <3>1. UNCHANGED <<tracerProvider, otelTracer>>
      BY <2>3 DEF Dispatch, LifespanStartup, Start, Drained, Exit, AtExit, Handle, Respond,
                  Cancelled, CloseSpan, ServeSpan, EndSpan, Outside, Accept, Signal,
                  GracefulTimeout, ForceExit, Kill, Export, WorkerFlush, Flush, serverVars,
                  bootstrapVars, telemetryVars
    <3> QED BY <3>1 DEF HandleIsInstalled
  <2> QED BY <2>1, <2>2, <2>3 DEF ServerNext, Server
<1> QED BY <1>1, <1>2, ServerInvariant, PTL DEF ServerSpec, ShutdownFlushesInstalled
=============================================================================
