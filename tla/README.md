# A model of the KnowHub backend

TLA+ modules, TLC configurations and TLAPS proofs for `knowhub-backend` at
milestone M00: the bootstrap of configuration, telemetry and the HTTP
application, the life of the API process, the layers a request passes, one load
of the settings, the boundary a span leaves the process through, the logging
tree, the dependency check with the migrations it goes before, and the CI
workflow. Every definition is translated from the Python source, the shell
entrypoint or the workflow file; `PROJECT.json` gives the lines behind each
definition. Paths below are relative to the repository (`src/` in
`PROJECT.json`).

## 1. Inventory

| Component | Code | State it keeps | Operations |
|---|---|---|---|
| telemetry bootstrap | `src/knowhub/observability/bootstrap.py` | `_tracer_provider`, `_meter_provider`; behind them the set-once provider slots of the OpenTelemetry API and every provider's export queue | `configure_observability`, `shutdown_observability` |
| application bootstrap | `src/knowhub/api/main.py` | `_app`, `app.state.readiness`, `app.state.settings` | `create_app`, module `__getattr__`, `_lifespan`, `_handle_unexpected_error` |
| probes | `src/knowhub/api/health.py` | `ReadinessState` | `pending`, `/healthz`, `/readyz` |
| process modes | `docker-entrypoint.sh`, uvicorn | the process, its connections, its exit code | dispatch, start, drain, exit |
| correlation identifiers | `src/knowhub/observability/correlation.py` | the context variable `_correlation_id` | validate, coerce, set, bind, reset |
| correlation middleware | `src/knowhub/api/middleware.py` | the ASGI scope, the response header, a span attribute | `__call__`, `send_with_correlation` |
| structured logging | `src/knowhub/observability/logging.py` | handlers and filters of the root logger | `configure_logging`, `CorrelationFilter`, `JsonFormatter` |
| settings | `src/knowhub/config/settings.py` | the `lru_cache` of `get_settings` | one load: sources, namespace guard, sections, floors; `reset_settings_cache` |
| span safety | `src/knowhub/observability/span_safety.py` | none (pure) | `sanitise_span`, `SafeSpanExporter.export` |
| secret references | `src/knowhub/config/secrets.py` | none | parse, resolve from the environment |
| feature flags | `src/knowhub/config/feature_flags.py` | none; no flag is defined | `is_enabled` |
| migration environment | `migrations/env.py`, `alembic.ini` | the logging configuration it replaces | URL, offline and online run |
| dependency check | `scripts/check_dependencies.py` | none | three probes, an exit code |
| test-run gate, CI | `scripts/assert_test_run.py`, `.github/workflows/ci.yml` | the job graph | counts, `needs` |
| image, local services | `Dockerfile`, `docker-compose.dev.yml` | none of their own | build, health checks |

**How they interact.** `docker-entrypoint.sh api` becomes uvicorn, which reads
the attribute `knowhub.api.main:app`. That read calls `create_app`, which calls
`get_settings` (cached), `configure_observability` (which fills the provider
slots of the process) and only then constructs the application, its middleware
and its instrumentation. uvicorn enters the lifespan, serves requests as tasks
of one event loop, drains them when a signal arrives, leaves the lifespan
(readiness off, providers shut down), and raises the signal again. A request
meets, from the outside in, OpenTelemetry's server span, Starlette's
server-error boundary, the correlation middleware and the endpoint; log records
read the context variable, the error handler reads the scope.

A span that ends is queued by a batch processor and handed, through the
`SafeSpanExporter`, to the configured exporter. Log records of every logger of
the process climb to the root handler that `configure_logging` installed, unless
uvicorn gave a logger handlers of its own or the migration environment's
`fileConfig` replaced that handler. `check_dependencies.py` and `migrations/env.py`
read the same settings and resolve the same secret reference, each for itself,
and reach the database by different ways: the single fields, and one URL. CI
starts the services, runs the check, the suites and, behind each suite,
`assert_test_run.py`, in jobs that need one another.

**What is hard.** Process-wide state that can be set only once, written by
builds that may fail half-way and be repeated; a module handle and an installed
provider that are two variables for one idea; shutdown that may raise; a
lifespan that ends after the drain and not before it; a stop signal racing
requests, a timeout and a second signal; context variables that a task inherits
from whichever task created it; an error handler that runs outside the
middleware whose context it needs; cancellation at every `await`; sources of
configuration that overlap leaf by leaf, and validators whose order decides
which error is seen; spans rewritten only when they failed; several parties that
configure one logging tree in any order; services and secrets that change
between a check and what relies on it; a suite that skips itself and passes;
tear-downs that must run whatever happened before. `PROJECT.json` lists each hazard with its line.

**What makes each part correct**

* telemetry and application bootstrap: nobody is handed a half-configured
  application; a ready application that should export is traced; only a stop
  takes tracing away; a stop flushes what the process exports through.
* process: an orderly stop loses no span, and what another one loses is accounted
  for; a failed start is visible; accepted
  requests are answered; a stop ends; a draining process is not ready.
* request layers: one canonical identifier on every record, response and span;
  contexts restored on every way out; every request answered, once; every failure
  reported once.
* settings: the documented precedence, leaf by leaf; no misspelled name
  ignored; nothing outside the namespace noticed; floors hold; a load that fails
  names each offender.
* span safety: no free text of an error reaches the exporter, and every fact
  that may be kept is kept, in its order.
* logging: a JSON line says what it must about its context and its exception,
  whatever the caller adds; nobody is silenced; every written record is stamped.
* dependency check and migrations: a pass means every service was good when
  asked; an engine has the configured parts and is disposed of; a migration with
  nothing changed since a pass connects; a check ends.
* CI: success means tests were executed; the image is built only behind every
  gate; no job concludes before it tried to remove what it started; every run
  concludes.

## 2. Modules

| Module | Models | Composes |
|---|---|---|
| `Telemetry` | provider slots, handles and queues of one process; the two functions of `bootstrap.py` as operators | |
| `Bootstrap` | settings cache, `create_app`, `main.app`, lifespan, readiness | extends `Telemetry` |
| `ApiServer` | the deployed process around it: dispatch, load, serve, drain, exit | extends `Bootstrap` |
| `CorrelationIds` | what is a valid identifier; coercion | |
| `RequestServing` | the layers of a request, requests interleaved | extends `CorrelationIds`, implements `RequestContract` |
| `RequestContract` | the abstract promise: admitted once, labelled once, failure recorded before it is told | |
| `MCRequestServing` | constants for TLC | |
| `Settings` | one load of the settings and the documented reference | |
| `MCSettings` | constants for TLC | |
| `SpanSafety` | spans recorded, ended, queued, sanitised and handed over | |
| `Logging` | the logging tree, who configures it, and what becomes of a call | |
| `MCLogging` | the levels of `alembic.ini`, for TLC | |
| `DatabaseUrl` | references to secrets, the URL composed, the URL read back | |
| `Dependencies` | the check and a migration among services that change | extends `DatabaseUrl` |
| `MCDependencies` | databases and secrets for TLC | |
| `CiPipeline` | one run of the workflow with its gates and tear-downs | |
| `MCCiPipeline` | the thresholds of the suites for TLC, scaled down | |
| `BootstrapProofs`, `ApiServerProofs`, `RequestServingProofs`, `SettingsProofs`, `SpanSafetyProofs`, `LoggingProofs`, `DependenciesProofs`, `CiPipelineProofs` | theorems | each extends the module it is about; `ApiServerProofs` also `BootstrapProofs` |

Operators whose comment begins with "Mutant:" are faulty variants of the
operator that follows them. They are used by no specification; `PROJECT.json`
pairs each property with those that break it.

### State and actions

`Telemetry` numbers providers by the call of `configure_observability` that
builds them, 0 being Python's `None`. `tracerProvider` and `meterProvider` are
the module attributes, `otelTracer` and `otelMeter` the slots of the
OpenTelemetry API: `SetOnce` is that API's refusal of a second provider.
`Configure(n, exporter, fault)` is one call, `fault` the place where it raises
("app" is none of its own: it returns, and the factory raises after it);
what was installed before the fault stays. `Shutdown(fault)` leaves the handle
in place when a provider's shutdown raises, as the Python does. `queued` counts
finished spans in a batch processor, and `ignored` remembers that a span that
was to be exported met a provider already down.

`Bootstrap` adds what a build reads and produces. `GetSettings` and
`SettingsError` are the cached function: an exception is not cached.
`CreateApp(given, s, fault)` is the whole factory, with settings passed in or
looked up, which may raise while it constructs the application, with both
providers installed; `ResolveApp` is the first successful read of `main.app` and the
failed ones before it; `DirectCreate` is everybody else. `Start` and `Stop` are
the two halves of the lifespan. There is no suspension point in the second
half, so it is one action. Two constants say who uses the package:
`DirectBuilds` (code other than `main.app` builds applications) and
`CacheResets` (something calls `reset_settings_cache`).

`ApiServer` wraps those actions in the phases of the process. uvicorn, the
kernel's signals and asyncio are not in the repository and are modelled from
how `main.py` and the entrypoint rely on them: `lifespan.shutdown` follows the
drain; the graceful timeout cancels requests and goes on to the lifespan; a
second SIGINT skips it; the signal is raised again at the end, and may end the
process before atexit hooks run. Its spans fit the queue of the batch processor;
that a full queue forgets spans is in `SpanSafety`, at the boundary.

`RequestServing` has one record of state per request. An action is the code
between two suspension points of a task; an exception passes from the endpoint
through the `finally` of the middleware to the error handler without one, so
`Raise` is one action. `Arrive` starts a task in a copy of the context of its
creator, which for a request read behind another on the same connection is the
context of that other request. An inbound header is described by what the
checks distinguish: whether it is there, the canonical identifier it begins
with, what follows, and its length. `records` holds KnowHub's own records of
a task: the exception that the server-error boundary raises again is logged a
second time by uvicorn, without an identifier, and that record is outside.

`Settings` has a single action, `Load`. The eight input variables are the sources
of one load: explicit arguments, the environment and `.env` leaf by leaf, whole
sections as JSON in either (`envWhole`, `dotenvWhole`), bare names, and names
that match nothing; a leaf's value is given by the merge of the sources, then by the
section's own look-up, then by the default. `Documented` is the reference: the
narrowest layer that supplies the leaf. Numbers and strings are abstracted to
values that are ordered ("low", "high"), not comparable ("other"), not
parsable ("bad") or absent.

`SpanSafety` keeps, for every span, what was recorded, its phase and what was
handed over. A text is told apart only by its origin: none, arbitrary, or the
fixed safe one; the attributes of an event are the set of their keys.
`Sanitised` is `sanitise_span`; the limit on events, the rules of `set_status`
and the queue are those of the SDK, from how the code relies on them. A shutdown
hands over what waits; a span that ends after it is lost.

`Logging` keeps the tree: handlers, levels, which loggers exist, are disabled or
have handlers of their own, and who configured last. `Configure` is
`configure_logging`, `FileConfig` the one line of `env.py`, `ServerConfig` what
uvicorn does before it imports the application. `Log` is one call and the fate of
its record; of a JSON line, `fields` says where each field comes from.

`Dependencies` runs one check at a time and one migration at a time, again and
again and also side by side, while `ServiceChanges` changes what they meet at any
time. `Rotate` changes the secret and the server's password with it while neither
runs, since a process sees the environment it was started with: an assumption
about operators, not a guard of the code. The three probes are three actions, so
that a service may change between them.
`StartMigration`, `ConnectMigration` and `RunMigration` are the engine made, the
connection and the revisions in one transaction. In `DatabaseUrl` a text is a
value and the reserved character it contains, if any: `Dsn` composes without
quoting, `Misreads` lists what SQLAlchemy then reads differently.

`CiPipeline` has a state per job, the number of steps behind it, and what the
steps start. Steps that only succeed or fail are joined with their neighbours.
`Pytest` writes any report the suite may write: without a database, the
integration suite skips all its tests. `Assert` is `assert_test_run.py`.
`Perform` is every other step. A command that starts or removes something and
fails has done its work or not, so a tear-down may leave its service behind
("kept"); `Forgiven` is the step whose `|| true` hides that.
`Cancel` (a newer run of the same ref) and `PostgresGone` may come at any time.

## 3. Runs

| Run | Question | Result |
|---|---|---|
| `bootstrap_memo` | Used through `main.app` only, with any mix of faults and retries: is a ready application always traced? | holds |
| `bootstrap_library` | With direct builds, given settings and cache resets: can a half-configured application be seen, can a build silence another application? | neither |
| `api_lifecycle` | What an orderly stop keeps, what one that is cut short loses, what a failed start shows, whether requests and stops end, whether a stop flushes what the process exports through | holds |
| `api_drain` | Is a draining process not ready? | violated |
| `request_serving` | Identifiers, contexts, failures, answers and the contract over interleaved requests | holds |
| `settings_load` | Does a load give what the documentation says, and does one that fails name every offender? | holds |
| `settings_bare` | Is everything outside the namespace ignored? | violated |
| `span_export` | Does free text of an error reach the exporter; do the facts? | no; yes |
| `logging_tree` | Over every order of configurations: are JSON lines honest, is anybody silenced, is every record stamped? | yes, no, yes |
| `dependencies_preflight` | What an exit code means and predicts, whether engines have the configured parts, whether checks end | holds |
| `dependencies_url` | The same about engines, with reserved characters in the parts | violated |
| `ci_run` | What a success of the workflow means, whether every gate is in the way of the image, whether tear-downs are tried and their failures seen, whether runs end | holds |

### Where code and documentation part

Three of the runs find a documented statement that the code does not keep. The
source lines are in `PROJECT.json`, "findings".

1. *The drain says ready* (`api_drain`). `main.py`, `health.py` and the
   entrypoint say otherwise, but the lifespan is left when the drain is over.
2. *Sections read bare names* (`settings_bare`). A host's `PORT` is taken for
   the database port. The run shows one that is no port number: the load fails,
   although the one required setting is in `.env` and nothing in KnowHub's
   namespace is wrong.
3. *The URL is not quoted* (`dependencies_url`). A reserved character in the
   user, the password, the host or the name makes an engine for something else
   than what is configured. In the run the secret is what the server takes and the
   server is good: the check, which passes single fields, would connect, while the
   engine has another password and another host.

Further configurations are kept beside the runs, each with the one property it
shows violated. They are not part of `PROJECT.json`; they are started the same
way, `tlc -config <file> <module>`.

| Configuration | Module | Property | What it shows |
|---|---|---|---|
| `Bootstrap_restart.cfg` | `Bootstrap` | `NeverSilentlyUntraced` | A second application in one process is silently untraced: the API refuses the second provider with a log line. In the image this does not happen, because `main.app` memoises: that is `bootstrap_memo`, and it is proved |
| `Bootstrap_shutdown.cfg` | `Bootstrap` | `ShutdownFlushesInstalled` | The handle names the last provider built, the slot the first: the wrong one is flushed |
| `MCSettings_dotenv.cfg` | `MCSettings` | `OutsideIgnored` | A foreign name in `.env` is rejected, not ignored |
| `MCSettings_lookalike.cfg` | `MCSettings` | `MisspelledNeverIgnored` | `KNOWHUB_DATABASE_HOST` in `.env` has no effect and no error: it begins like a section |
| `MCSettings_json.cfg` | `MCSettings` | `FailsAsConfigurationError` | A section given as malformed JSON ends the load in pydantic's `SettingsError`, where `get_settings` documents `ConfigurationError` |
| `SpanSafety_counts.cfg` | `SpanSafety` | `OnlyPayloadChanges` | A rebuilt span no longer says how many events the SDK's limit had dropped |
| `Logging_server.cfg` | `MCLogging` | `ServerRecordsStamped` | uvicorn's own loggers keep their handlers and write plain, unstamped lines |
| `Logging_fields.cfg` | `MCLogging` | `FixedFieldsStand` | An extra field named `level`, `logger` or `timestamp` replaces the fixed one |
| `Logging_migrations.cfg` | `MCLogging` | `ConfigurationStands` | `fileConfig` replaces KnowHub's handler and disables loggers |

The passing runs exclude exactly what these show: `settings_load` has no bare
names and only plainly unknown names in `.env`; `EveryRecordStamped` is about
loggers without handlers of their own, and about the time in which KnowHub has
configured last; `dependencies_preflight` has only reserved characters that do no
harm where they are; `FactsSurvive` says nothing of dropped events.

### Bounds

* `Bootstrap`: three builds in `bootstrap_memo` (two failed builds, of
  different kinds, before the one that succeeds), two where builds are direct
  (the interesting case is a second provider), one or two spans in a queue
  (empty and not empty is what the properties distinguish). A build meets no
  fault, one at either provider, or one after both.
* `ApiServer`: three requests, so that one is idle, one open and one replied at
  any phase; two builds, one more than a process ever makes, because the attribute
  is read once and a failed load ends the process: `ShutdownFlushesInstalled`
  rests on that and could not fail with room for one; as many spans as requests,
  so that the bound on the queue never stops a request from finishing.
* `RequestServing`: two requests, the least at which one inherits the context of
  another and both carry the identifier of the same caller; one record besides
  the error record. The invariants are proved for any number.
* `Settings`: four leaves: one required and unordered, two in different sections
  with the same bare name, one of the root model. Every kind of value comes
  from some source. Whole sections come as an object with two leaves, as malformed
  JSON, or not at all.
* `SpanSafety`: two spans, an event limit of 2 and three events ever, the least at
  which a full span forgets an event and a batch holds two.
* `Logging`: four loggers, one of each kind: KnowHub's, a third party's, one
  `alembic.ini` names, one uvicorn owns; extras that clash with a fixed field, a
  stamp, the error, a record attribute, and none.
* `Dependencies`: two changes of services or secrets, so that one can be undone or
  two services change; every form of reference. `dependencies_url` needs none.
* `CiPipeline`: three tests a suite, thresholds 1 and 2, so that there are suites
  below, at and above each threshold, with and without skips.

Deadlock is checked in `Bootstrap` and `Logging`. An ended process, answered
requests, a finished load, exported spans and a concluded workflow are meant to
stop, and a check stops for good at a PostgreSQL that has stopped answering.

### Fairness

`ServerFairness` and `ServingFairness` assume weak fairness of what the event
loop and the server do on their own: a task that can go on is resumed, and the
probes do no I/O. Nothing is assumed of clients, signals, kills, timeouts, the
export worker, exceptions or cancellations. `RequestsEnd` takes for granted that
an endpoint that is resumed eventually answers or raises, which the two
endpoints of M00 do; what it shows is that the layers around it then answer, with
the coarse 500 if nothing was said before.

`Dependencies` assumes weak fairness of a check that can go on: the probes have
time-outs, so that a service that is silent answers for the model in the end. A
query to PostgreSQL has none; `CheckPostgres` is not enabled while the server
has stopped answering. The time-out of the blob probe is one for every read:
`CheckBlob` is not enabled while an answer drips in without an end. `CheckEnds`
names both. `CiPipeline` assumes that the
runner carries each job on; steps end because the runner's time limits end them.
Nothing is assumed of cancellations, of the database, or of which outcome a step
has.

## 4. Proofs

Every safety invariant and action property of a passing run is stated by a theorem.

| Theorem | States |
|---|---|
| `BootstrapTypeCorrect` | `BootstrapTypeOK` is invariant: handles and slots name providers that a build installed, the memo an application that was built |
| `MemoNeverSilentlyUntraced` | `NeverSilentlyUntraced` is invariant when applications come from `main.app` alone and the cache is never reset |
| `NoHalfConfigured`, `OnlyAStopSilencesHolds` | `NoHalfConfiguredApp` is invariant and `OnlyAStopSilences` holds, without those assumptions |
| `ServerTypeCorrect`, `GracefulStopHolds`, `LossExplainedHolds`, `FailureIsVisibleHolds` | the four invariants of `ApiServer` |
| `DeployedNeverSilentlyUntraced`, `DeployedShutdownFlushes` | `NeverSilentlyUntraced` until the process exits, and `ShutdownFlushesInstalled`, of the deployed process |
| `ReadyzNeverSaysNotReady` | no request of the deployed process is answered "not_ready" |
| `ServingTypeCorrect` | `ServingTypeOK` is invariant |
| `OneIdentifierHolds`, `ContextRestoredHolds`, `FailureIsReportedHolds` | the three properties are invariant |
| `NeverRelabelledHolds` | the action property holds |
| `ServingKeepsContract` | `RequestServing` implements `RequestContract` |
| `SettingsTypeCorrect`, `LoadsAsDocumentedHolds` | the two invariants of `Settings`, the second, which also says what an error names, without bare names and with nothing but plainly unknown names in `.env` |
| `OutsideIgnoredOtherwise`, `MisspelledOtherwiseNeverIgnored`, `FailsAsConfigurationErrorOtherwise` | what `settings_bare`, `MCSettings_dotenv`, `MCSettings_lookalike` and `MCSettings_json` show violated holds without what they bring in |
| `SpanTypeCorrect`, `NoFreeTextHolds`, `FactsSurviveHolds` | the three invariants of `SpanSafety` |
| `OnlyRebuiltForgetsDropped` | which spans lose the count that `SpanSafety_counts` shows lost |
| `LoggingTypeCorrect`, `JsonLinesHonestHolds`, `NothingSilencedHolds`, `EveryRecordStampedHolds` | the four invariants of `Logging` |
| `FixedFieldsOtherwise`, `ConfigurationStandsWithoutMigrations` | what `Logging_fields` and `Logging_migrations` show violated holds without what they bring in |
| `DependenciesTypeCorrect`, `PassMeansServingHolds` | the two are invariant |
| `ReachesConfiguredHolds`, `CheckPredictsMigrationHolds` | the invariant and the action property, for databases and secrets whose reserved characters the URL does not misread |
| `CiTypeCorrect`, `EveryGateBlocksHolds`, `SuccessMeansTestedHolds`, `TornDownHolds` | the four invariants of `CiPipeline` |

All hold for every number of builds, spans, events, requests, identifiers, header
values, log records, leaves, sources, loggers, databases, secrets, changes and
tests. They rest on the named assumptions of the modules (`TelemetryAssumption`,
`BootstrapAssumption`, `CorrelationAssumption`, `ServingAssumption`,
`SettingsAssumption`, `SpanAssumption`, `LoggingAssumption`,
`DependenciesAssumption`, `CiAssumption`): bounds are natural numbers, headers are
well formed, `uuid4` never repeats itself nor a caller, exactly the required
leaves have no default, a logger exists and a call may pass no extra fields, and
a threshold is at least 1.

**`MemoNeverSilentlyUntraced`.** The property is not inductive: nothing in it
says to which settings the installed provider belongs. `MemoInv` adds that every
application is the memoised one, that the installed provider is wired for the
cached settings (also when the build that installed it failed), and that a
provider goes down only in the step in which the memoised application stops
being ready. The two assumptions are needed: `Bootstrap_restart.cfg` gives
the counterexample without them.

**`NoHalfConfigured` and `OnlyAStopSilencesHolds`.** `ConfiguredInv` adds that
slots and applications belong to builds that have happened, so that a set-once
slot never names a later build than that of the application that relies on it.
With it, `CreateKeepsTraced` shows that a build, failed or not, writes only what
belongs to itself; every other step but a stop leaves all that tracing depends on.

**The server theorems.** `GracefulStopLosesNothing`, `LossExplained` and
`FailureIsVisible` speak of the end; `ServerInv` says what the process is before it, phase by phase: nothing
at all until `main.app` is resolved (`Fresh`), then one application, loaded for
the environment (`LoadedForEnvironment`, `HoldsApp`), whose own provider is the
installed one and has the only queue in use (`OwnProvider`), until the lifespan is
left with that queue flushed or skipped with the provider still live
(`SpansKept`). `GracefulStopLosesNothing` follows from `LossExplained`, which
accounts for the stops that are cut short.
`ServerStepsAreMemoSteps` shows that each step of the process up to its exit is
one that `MemoInvStep` covers, which carries `NeverSilentlyUntraced` to the
deployed process, drains that are cut short included, and needs no assumption on
`DirectBuilds` or `CacheResets`: `ApiServer` has neither. The exit is the
exception, because the atexit hooks take providers down under an application
whose lifespan a second signal skipped. `DeployedShutdownFlushes` rests on the
same: a second build is what parts the handle from the slot, and a process whose
first build fails ends. `ReadyzNeverSaysNotReady` makes finding 1 general: every
phase in which a probe can be answered comes before the lifespan's end.

**The request theorems.** `ServingInv` conjoins `OneIdentifier` and
`ContextRestored` with what a request has not done yet at each stage. Its step
case is proved for the request that moves (`StepKeepsRequest`) and by
`OthersUnchanged` for the rest. `CoerceResult` is the lemma about the
identifiers: what is returned is canonical, and it is the length bound that
excludes a newline the pattern would let pass. `FailureInv` is inductive given
`ServingInv`: a request that has not failed has no error record, and the handler
appends one and marks the span in the step before it can begin a response
(`ErrorsAfterAppend`, `StepKeepsReport`).

**The settings theorems.** There is one step, so the work is about operators.
`EffectiveIsDocumented` shows that the merge of the sources, written as nested
choices in the order of `settings_customise_sources`, yields what the narrowest
of the documented layers supplies (`MinIs` is the lemma about that least layer);
`FloorIsStrictness`, that the comparison in `enforce_mandatory_floors` rejects
exactly the values that are not as strict as their floor. Both hypotheses of
`LoadsAsDocumentedHolds` are needed: without either, a configuration of section 3
gives a counterexample.

**The span theorems.** Three lemmas are about `Sanitised` alone, for any span: it
is a span again, it is harmless, and it is faithful to what was recorded. Given
the types, the two properties are inductive: `EverySpanSettles` shows that a step
either leaves a span that was handed over as it was, or hands it over sanitised
(`Settled`), since what has ended is no longer recorded into.

**The logging theorems.** `LoggingInv` ties what became of the last call (`fate`,
`fields`) to the tree it was made in, until the tree changes, and the tree to who
configured it last: under KnowHub nobody is disabled and the handler is the JSON
one. `LineHonest` is the lemma about the formatter: for any extras, the stamps of a
line come from the context and its error is a type.

**The dependency theorems.** The exit code is written long after the probes have
asked. `SoFar` is what is known on the way: a service whose result is "ok" is in
`met`, put there by the probe that asked it (`FoundKeeps`), the services behind
the current one have been asked, and there is no exit code before the end.
`CheckPredictsMigrationHolds` adds `Known`: while nothing was edited, PostgreSQL is
as the probe found it and takes the secret of now. That the migration, which goes
by the URL, meets the same database is `ReachesConfigured`, and needs the
hypothesis (`Harmless`) that no reserved character stands where the URL is
misread; a colon in the host ends the migration before an engine is made. The
databases of `dependencies_preflight` satisfy it, those of `dependencies_url` do not.

**The CI theorems.** `EveryMove` says what a step may do to a job and to the
number of steps behind it. `EveryGateBlocksHolds` rests on `InOrder`: a job that
has begun has what it needs behind it, and one that succeeded took every step and
failed none; `BackFromTheImage` then follows the edges of `Needs` from the image to
the first job. That every job lies on that way is a fact about ci.yml: with one edge
taken out the property fails (`NeedsSkippingOne`).
`SuccessMeansTestedHolds` strengthens to `GatePassed`: a job beyond its gate that
has not failed has a report the gate accepted. `TornDownHolds` strengthens to
`OnTheWay`, what runs belongs to a job that has the tear-down still ahead, and
`KeptFails`, services that could not be removed are a failed step of their job.
`WhereStepsAre` is the lemma about the positions of the steps. A tear-down that
reports success is trusted to have removed what it names; one that fails is not.

**Only model-checked.** The five liveness properties (`AcceptedIsAnswered`,
`StopEnds`, `RequestsEnd`, `CheckEnds`, `RunEnds`), because TLAPS does not reason
about fairness and `ENABLED`. Out of its reach altogether are induction over data
and RECURSIVE operators; the modules have none.

## 5. Not modelled

* Feature flags (`feature_flags.py`): no flag is defined at M00 and nothing asks
  for one. That the settings leave its names alone is in `Settings`.
* Offline migrations, which write SQL and touch no database, and revisions, of
  which there are none.
* A section's variable that is JSON but no object.
* What logging writes to stderr when a line cannot be rendered: the model loses
  the line, and nothing in the repository says what should become of it.
* The wording of errors and of log messages.
* The secrets directory of pydantic-settings: configured nowhere.
* ASGI scopes other than HTTP: the middleware passes them on.
* The metric export path beyond its provider's life: no metric is defined.
* `Dockerfile` and `docker-compose.dev.yml`: definitions without state.

## 6. Plan

Done, in this order: `Telemetry`, `Bootstrap`, `ApiServer`, `CorrelationIds`,
`RequestServing` with `RequestContract`, `Settings` with whole sections,
`SpanSafety`, `Logging`, `DatabaseUrl` with `Dependencies`, `CiPipeline`; proofs of
every safety property the passing runs check.

Next, in the order of what matters most:

1. Safety lemmas that the liveness properties rest on: that a request in flight
   always has an action ahead, and that the number of those it has left never grows.
2. For `Bootstrap` used as a library: that the handle and the slot name one provider
   as long as only one build has installed one.
