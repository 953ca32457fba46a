------------------------------- MODULE ApiServer -------------------------------
(***************************************************************************)
(* The deployed process of mode "api": docker-entrypoint.sh hands over to  *)
(* uvicorn, which resolves knowhub.api.main:app, runs the lifespan of      *)
(* module Bootstrap around the requests it serves, and drains them when it *)
(* is told to stop.  uvicorn is not in the repository; it is modelled from *)
(* what main.py and the entrypoint rely on it for.                         *)
(***************************************************************************)
EXTENDS Bootstrap, Integers

CONSTANT Requests  \* the requests that may arrive

VARIABLES
  mode,      \* $1 of docker-entrypoint.sh
  phase,     \* where the process is between exec and exit
  exitCode,  \* of the process, -1 before it ends
  aborted,   \* the drain was cut short: second signal or graceful timeout
  route,     \* the route every request asks for
  conn,      \* idle -> open -> replied -> closed
  answer     \* what the probe said

serverVars == <<bootstrapVars, mode, phase, exitCode, aborted, route, conn, answer>>

Modes      == {"api", "", "worker"}
Phases     == {"entrypoint", "loading", "startup", "serving", "draining",
               "shutdown", "exiting", "exited", "killed"}
Ended      == {"exited", "killed"}
ExitCodes  == {0, 1, 64, 143}
Routes     == {"healthz", "readyz"}
ConnStates == {"idle", "open", "replied", "closed"}
Answers    == {"none", "ok", "ready", "not_ready"}

\* Every variable keeps its type, and the process has an exit code once it exited.
ServerTypeOK ==
  /\ BootstrapTypeOK
  /\ mode \in Modes
  /\ phase \in Phases
  /\ exitCode \in ExitCodes \cup {-1} /\ (exitCode # -1 <=> phase = "exited")
  /\ aborted \in BOOLEAN
  /\ route \in [Requests -> Routes]
  /\ conn \in [Requests -> ConnStates]
  /\ answer \in [Requests -> Answers]

InFlight == {r \in Requests : conn[r] \in {"open", "replied"}}

ServerInit ==
  /\ BootstrapInit
  /\ mode \in Modes
  /\ phase = "entrypoint"
  /\ exitCode = -1
  /\ aborted = FALSE
  /\ route \in [Requests -> Routes]
  /\ conn = [r \in Requests |-> "idle"]
  /\ answer = [r \in Requests |-> "none"]

requestVars == <<route, conn, answer>>

-----------------------------------------------------------------------------
\* Mutant: a refused mode ends the script without its exit code.
DispatchUnterminated ==
  /\ phase = "entrypoint"
  /\ phase' = IF mode = "api" THEN "loading" ELSE "exited"
  /\ UNCHANGED <<bootstrapVars, mode, exitCode, aborted, requestVars>>

\* Mutant: a refused mode ends the script as if it had run.
DispatchQuietly ==
  /\ phase = "entrypoint"
  /\ IF mode = "api" THEN phase' = "loading" /\ UNCHANGED exitCode
                     ELSE phase' = "exited" /\ exitCode' = 0
  /\ UNCHANGED <<bootstrapVars, mode, aborted, requestVars>>

\* docker-entrypoint.sh: "api" becomes uvicorn, anything else is refused.
Dispatch ==
  /\ phase = "entrypoint"
  /\ IF mode = "api" THEN phase' = "loading" /\ UNCHANGED exitCode
                     ELSE phase' = "exited" /\ exitCode' = 64
  /\ UNCHANGED <<bootstrapVars, mode, aborted, requestVars>>

\* uvicorn resolves main.app; what create_app raises ends the process.
LoadFailed == phase' = "exited" /\ exitCode' = 1

\* Mutant: a load that raised is tried again in the same process.
LoadAppRetrying ==
  /\ phase = "loading"
  /\ \/ SettingsError /\ UNCHANGED <<phase, exitCode>>
     \/ \E s \in Exporters, fault \in Faults :
          /\ ResolveApp(s, fault)
          /\ phase' = IF fault = "none" THEN "startup" ELSE phase
          /\ UNCHANGED exitCode
  /\ UNCHANGED <<mode, aborted, requestVars>>

LoadApp ==
  /\ phase = "loading"
  /\ \/ SettingsError /\ LoadFailed
     \/ \E s \in Exporters, fault \in Faults :
          /\ ResolveApp(s, fault)
          /\ IF fault = "none" THEN phase' = "startup" /\ UNCHANGED exitCode
                               ELSE LoadFailed
  /\ UNCHANGED <<mode, aborted, requestVars>>

LifespanStartup ==
  /\ phase = "startup"
  /\ Start(appMemo)
  /\ phase' = "serving"
  /\ UNCHANGED <<mode, exitCode, aborted, requestVars>>

-----------------------------------------------------------------------------
\* A request is accepted; a draining server has closed its sockets.
Accept(r) ==
  /\ phase = "serving" /\ conn[r] = "idle"
  /\ conn' = [conn EXCEPT ![r] = "open"]
  /\ UNCHANGED <<bootstrapVars, mode, phase, exitCode, aborted, route, answer>>

\* healthz and readyz: the state they report is read when they run.
Probe(r) == IF route[r] = "healthz" THEN "ok"
            ELSE IF Ready(appMemo) THEN "ready" ELSE "not_ready"

\* Mutant: a probe is answered only while the server takes requests.
HandleUndrained(r) ==
  /\ phase = "serving" /\ conn[r] = "open"
  /\ answer' = [answer EXCEPT ![r] = Probe(r)]
  /\ conn' = [conn EXCEPT ![r] = "replied"]
  /\ UNCHANGED <<bootstrapVars, mode, phase, exitCode, aborted, route>>

Handle(r) ==
  /\ phase \in {"serving", "draining"} /\ conn[r] = "open"
  /\ answer' = [answer EXCEPT ![r] = Probe(r)]
  /\ conn' = [conn EXCEPT ![r] = "replied"]
  /\ UNCHANGED <<bootstrapVars, mode, phase, exitCode, aborted, route>>

\* The server span of a request ends, and the connection with it.
CloseSpan(r) ==
  /\ ServeSpan(appMemo)
  /\ conn' = [conn EXCEPT ![r] = "closed"]
  /\ UNCHANGED <<mode, phase, exitCode, aborted, route, answer>>

Respond(r) ==
  /\ phase \in {"serving", "draining"} /\ conn[r] = "replied"
  /\ CloseSpan(r)

-----------------------------------------------------------------------------
\* The first SIGTERM or SIGINT.
Signal ==
  /\ phase = "serving"
  /\ phase' = "draining"
  /\ UNCHANGED <<bootstrapVars, mode, exitCode, aborted, requestVars>>

\* Every request accepted has been answered: only now does uvicorn send
\* lifespan.shutdown.
Drained ==
  /\ phase = "draining" /\ InFlight = {}
  /\ phase' = "shutdown"
  /\ UNCHANGED <<bootstrapVars, mode, exitCode, aborted, requestVars>>

\* The drain is cut short.  The graceful timeout cancels the requests and goes
\* on to the lifespan; a second SIGINT skips the lifespan.
GracefulTimeout ==
  /\ phase = "draining" /\ InFlight # {}
  /\ phase' = "shutdown" /\ aborted' = TRUE
  /\ UNCHANGED <<bootstrapVars, mode, exitCode, requestVars>>

ForceExit ==
  /\ phase = "draining"
  /\ phase' = "exiting" /\ aborted' = TRUE
  /\ UNCHANGED <<bootstrapVars, mode, exitCode, requestVars>>

\* A cancelled request unwinds and its span ends, before or after the lifespan.
Cancelled(r) ==
  /\ phase \in {"shutdown", "exiting"} /\ r \in InFlight
  /\ CloseSpan(r)

\* Mutant: the lifespan waits for the export worker before it shuts it down.
LifespanShutdownWaiting(fault) ==
  /\ phase = "shutdown" /\ \A n \in Builds : queued[n] = 0
  /\ Stop(appMemo, fault)
  /\ phase' = "exiting"
  /\ UNCHANGED <<mode, exitCode, aborted, requestVars>>

\* The lifespan is left.  uvicorn logs what it raises and exits all the same.
LifespanShutdown(fault) ==
  /\ phase = "shutdown"
  /\ Stop(appMemo, fault)
  /\ phase' = "exiting"
  /\ UNCHANGED <<mode, exitCode, aborted, requestVars>>

\* uvicorn raises the signals it caught again.  Outside a container's PID 1 a
\* SIGTERM then ends the process before Python's atexit hooks run.
Exit ==
  /\ phase = "exiting" /\ InFlight = {}
  /\ phase' = "exited"
  /\ \/ exitCode' = 0 /\ AtExit
     \/ exitCode' = 143 /\ UNCHANGED telemetryVars
  /\ UNCHANGED <<environ, settingsCache, appVars, mode, aborted, requestVars>>

\* SIGKILL, or the machine is gone.
Kill ==
  /\ phase \notin Ended
  /\ phase' = "killed"
  /\ UNCHANGED <<bootstrapVars, mode, exitCode, aborted, requestVars>>

\* The batch worker of a live provider exports while the process lives.
Export(n) ==
  /\ phase \notin Ended
  /\ WorkerFlush(n)
  /\ UNCHANGED <<mode, phase, exitCode, aborted, requestVars>>

Server ==
  \/ Dispatch \/ LoadApp \/ LifespanStartup
  \/ \E r \in Requests : Handle(r) \/ Respond(r) \/ Cancelled(r)
  \/ Drained \/ \E fault \in Faults : LifespanShutdown(fault)
  \/ Exit

Outside ==
  \/ \E r \in Requests : Accept(r)
  \/ Signal \/ GracefulTimeout \/ ForceExit \/ Kill
  \/ \E n \in Builds : Export(n)

ServerNext == Server \/ Outside

\* The event loop runs what can run: the probes do no I/O, so every request the
\* server took on finishes.  Nothing is assumed of clients and signals.
ServerFairness ==
  /\ WF_serverVars(Dispatch) /\ WF_serverVars(LoadApp)
  /\ WF_serverVars(LifespanStartup)
  /\ \A r \in Requests : /\ WF_serverVars(Handle(r))
                         /\ WF_serverVars(Respond(r))
                         /\ WF_serverVars(Cancelled(r))
  /\ WF_serverVars(Drained)
  /\ WF_serverVars(\E fault \in Faults : LifespanShutdown(fault))
  /\ WF_serverVars(Exit)

ServerSpec == ServerInit /\ [][ServerNext]_serverVars /\ ServerFairness

-----------------------------------------------------------------------------
\* A process that was neither killed nor cut short loses no span: none met a
\* provider already shut down, and none is left in a queue when it exits, even
\* when the signal raised again keeps the atexit hooks from running.
GracefulStopLosesNothing ==
  ~aborted /\ phase # "killed" =>
    ~ignored /\ (phase = "exited" => \A n \in Builds : queued[n] = 0)

NothingQueued   == \A n \in Builds : queued[n] = 0
LifespanLeft    == appMemo # 0 /\ appState[appMemo] = "stopped"
LifespanSkipped == aborted /\ appMemo # 0 /\ appState[appMemo] = "running"

\* A stop that is cut short loses spans in two ways and no other.  A span that
\* ends too late is that of a request the graceful timeout cancelled, unwound
\* after the lifespan; one that is left in a queue belongs to a process whose
\* lifespan a second signal skipped and whose atexit hooks the signal raised
\* again kept from running.
LossExplained ==
  /\ ignored => aborted /\ LifespanLeft
  /\ phase = "exited" => NothingQueued \/ (LifespanSkipped /\ exitCode = 143)

\* "A misconfigured process fails at startup rather than at first use": requests
\* are accepted only when the settings loaded and telemetry was initialised for
\* them, and a process that never came that far says so in its exit code.
FailureIsVisible ==
  /\ InFlight # {} => /\ mode = "api" /\ environ # "invalid"
                      /\ appMemo # 0 /\ settingsCache = environ
                      /\ appSettings[appMemo] = environ
  /\ phase = "exited" /\ exitCode = 0 => appMemo # 0 /\ appState[appMemo] # "built"

\* "A draining process reports not-ready while it finishes in flight" (main.py).
DrainReportsNotReady ==
  phase = "draining" /\ InFlight # {} => ~Ready(appMemo)

\* Whatever is accepted is answered, unless the drain is cut short or the
\* process killed: a stop signal alone costs no client its answer.
AcceptedIsAnswered ==
  \A r \in Requests :
    conn[r] = "open" ~> answer[r] # "none" \/ aborted \/ phase = "killed"

\* A process told to stop ends.
StopEnds == phase = "draining" ~> phase \in Ended
=============================================================================
