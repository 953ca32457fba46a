-------------------------------- MODULE Logging --------------------------------
(***************************************************************************)
(* The logging tree of one process and the lines it writes:                *)
(* knowhub/observability/logging.py with its filter, formatter and         *)
(* dictConfig, and the others that configure logging in a process of the   *)
(* repository - migrations/env.py, whose fileConfig reads alembic.ini, and *)
(* uvicorn, started by docker-entrypoint.sh with its own configuration.    *)
(*                                                                         *)
(* A line of the JSON handler is told by where each of its fields comes    *)
(* from, not by what is in it.                                             *)
(***************************************************************************)
EXTENDS Naturals

CONSTANTS Loggers,     \* the loggers a process may create
          ServerOwned, \* those uvicorn gives handlers of their own
          IniLevel,    \* IniLevel[l]: the level alembic.ini gives l, or "unset"
          Extras,      \* the keys a call may pass as extra
          Others       \* who else configures logging: "migrations", "server"

RecordFields == {"timestamp", "level", "logger", "message"}
Stamps       == {"correlation_id", "trace_id", "span_id"}
Levels       == {"INFO", "WARNING"}
Clashing     == {"message", "name"} \* what Logger.makeRecord refuses as extra
Dropped      == Stamps \cup Clashing \cup {"_private"} \* _RESERVED, and underscored

ASSUME LoggingAssumption ==
  /\ Loggers # {} /\ ServerOwned \subseteq Loggers
  /\ {} \in Extras  \* a call without extra
  /\ IniLevel \in [Loggers -> Levels \cup {"unset"}]
  /\ Others \subseteq {"migrations", "server"}

Keys    == UNION Extras
Fields  == RecordFields \cup Stamps \cup Keys \cup {"error"}
Origins == {"absent", "record", "context", "none", "extra", "type"}
Calls   == [logger : Loggers, level : Levels, extra : Extras, exc : BOOLEAN, circular : BOOLEAN]
Fates   == {"disabled", "below", "raised", "json", "plain", "failed", "nowhere", "idle"}

VARIABLES
  handler,  \* the handler of the root logger: none, json, plain
  level,    \* the level of the root logger
  known,    \* the loggers that exist
  disabled, \* those a configuration disabled
  own,      \* the level a logger has of its own
  local,    \* those with handlers of their own that do not propagate
  ruler,    \* who configured last
  call,     \* the last logging call since the tree changed
  fate,     \* what became of it
  fields    \* of a JSON line: where each field comes from

treeVars    == <<handler, level, known, disabled, own, local, ruler>>
loggingVars == <<treeVars, call, fate, fields>>

NoFields == [f \in Fields |-> "absent"]
NoCall   == [logger |-> CHOOSE l \in Loggers : TRUE, level |-> "INFO", extra |-> {},
             exc |-> FALSE, circular |-> FALSE]

\* The line of a tree that has changed is not looked at any more.
LineDone == call' = NoCall /\ fate' = "idle" /\ fields' = NoFields

LoggingInit ==
  /\ handler = "none" /\ level = "WARNING" /\ ruler = "nobody"
  /\ known = {} /\ disabled = {} /\ local = {}
  /\ own = [l \in Loggers |-> "unset"]
  /\ call = NoCall /\ fate = "idle" /\ fields = NoFields

-----------------------------------------------------------------------------
(***************************************************************************)
(* Who configures.                                                         *)
(***************************************************************************)
\* logging.getLogger
GetLogger(l) ==
  /\ known' = known \cup {l}
  /\ LineDone /\ UNCHANGED <<handler, level, disabled, own, local, ruler>>

\* Mutant: dictConfig's default is trusted, and disables what exists.
ConfigureDisabling(lv) ==
  /\ handler' = "json" /\ level' = lv /\ ruler' = "knowhub"
  /\ disabled' = known
  /\ LineDone /\ UNCHANGED <<known, own, local>>

\* configure_logging: with disable_existing_loggers False, dictConfig enables
\* again whatever exists.  It names no logger but the root.
Configure(lv) ==
  /\ handler' = "json" /\ level' = lv /\ ruler' = "knowhub"
  /\ disabled' = disabled \ known
  /\ LineDone /\ UNCHANGED <<known, own, local>>

\* env.py: fileConfig(alembic.ini), which disables what exists and is not named
\* there, and gives the root logger a handler without filter or JSON.
FileConfig ==
  LET named == {l \in Loggers : IniLevel[l] # "unset"}
  IN  /\ "migrations" \in Others
      /\ handler' = "plain" /\ level' = "WARNING" /\ ruler' = "migrations"
      /\ known' = known \cup named
      /\ disabled' = (disabled \cup known) \ named
      /\ own' = [l \in Loggers |-> IF l \in named THEN IniLevel[l] ELSE own[l]]
      /\ LineDone /\ UNCHANGED <<local>>

\* uvicorn configures its loggers before it imports the application.
ServerConfig ==
  /\ "server" \in Others /\ ruler = "nobody"
  /\ known' = known \cup ServerOwned
  /\ local' = ServerOwned
  /\ own' = [l \in Loggers |-> IF l \in ServerOwned THEN "INFO" ELSE own[l]]
  /\ ruler' = "server"
  /\ LineDone /\ UNCHANGED <<handler, level, disabled>>

-----------------------------------------------------------------------------
(***************************************************************************)
(* A logging call.                                                         *)
(***************************************************************************)
AtLeast(lv, bound) == bound = "INFO" \/ lv = "WARNING"
Effective(l)       == IF own[l] # "unset" THEN own[l] ELSE level

\* Mutant: the filter sits on KnowHub's loggers, not on the handler.
StampedByLogger(c) == IF c.logger = "knowhub" THEN Stamps ELSE {}

\* CorrelationFilter.filter: on the handler, it sees the records of every logger,
\* and overwrites what a caller put there.
StampedBy(c) == Stamps

\* Mutant: the exception is written out.
ErrorFieldText == "text"

\* An exception is named by its type.
ErrorField == "type"

Standard(c, f) ==
  IF f = "error" THEN IF c.exc THEN ErrorField ELSE "absent"
  ELSE IF f \in Stamps THEN IF f \in StampedBy(c) THEN "context" ELSE "none"
  ELSE IF f \in RecordFields THEN "record" ELSE "absent"

\* Mutant: the extra fields are written last.
OriginExtraLast(c, f) == IF f \in c.extra \ Dropped THEN "extra" ELSE Standard(c, f)

\* JsonFormatter.format: the fixed fields, over them the extra fields that are
\* not reserved, over them the exception.
Origin(c, f) ==
  IF f \in c.extra \ Dropped /\ ~(f = "error" /\ c.exc) THEN "extra" ELSE Standard(c, f)

Renders(c) == c.circular => \A f \in Fields : Origin(c, f) # "extra"

\* Logger.log, Handler.handle.  With no handler anywhere, Python's last resort
\* writes warnings.  A value that cannot be rendered (json.dumps raises) costs
\* the line: Handler.handleError.
FateOf(c) ==
  IF c.logger \in disabled THEN "disabled"
  ELSE IF ~AtLeast(c.level, Effective(c.logger)) THEN "below"
  ELSE IF c.extra \cap Clashing # {} THEN "raised"
  ELSE IF c.logger \in local THEN "plain"
  ELSE IF handler = "json" THEN IF Renders(c) THEN "json" ELSE "failed"
  ELSE IF handler = "plain" \/ c.level = "WARNING" THEN "plain" ELSE "nowhere"

Log(c) ==
  /\ c.logger \in known
  /\ call' = c
  /\ fate' = FateOf(c)
  /\ fields' = IF FateOf(c) = "json" THEN [f \in Fields |-> Origin(c, f)] ELSE NoFields
  /\ UNCHANGED treeVars

LoggingNext ==
  \/ \E l \in Loggers : GetLogger(l)
  \/ \E lv \in Levels : Configure(lv)
  \/ FileConfig
  \/ ServerConfig
  \/ \E c \in Calls : Log(c)

LoggingSpec == LoggingInit /\ [][LoggingNext]_loggingVars

-----------------------------------------------------------------------------
\* Every variable keeps its type, and only a JSON line has fields.
LoggingTypeOK ==
  /\ handler \in {"none", "json", "plain"}
  /\ level \in Levels
  /\ known \subseteq Loggers /\ disabled \subseteq known /\ local \subseteq known
  /\ own \in [Loggers -> Levels \cup {"unset"}]
  /\ ruler \in {"nobody", "knowhub", "migrations", "server"}
  /\ call \in Calls /\ fate \in Fates
  /\ fields \in [Fields -> Origins] /\ (fields # NoFields => fate = "json")

\* "Only the exception type is emitted": whatever a caller passes as "error", a
\* JSON line about an exception has the type there, and every JSON line has the
\* identifiers of its context, not ones somebody passed.
JsonLinesHonest ==
  fate = "json" => /\ call.exc => fields["error"] = "type"
                   /\ \A f \in Stamps : fields[f] = "context"

\* Once KnowHub's configuration is the last one, no logger is silenced: not the
\* ones that existed before it, not the ones disabled by an earlier fileConfig.
\* A level a logger was given for itself stays.
NothingSilenced ==
  ruler = "knowhub" /\ fate \in {"disabled", "below"} =>
    fate = "below" /\ (AtLeast(call.level, level) => own[call.logger] # "unset")

\* "Every log record carries the correlation identifier and the current trace and
\* span identifiers ... records from third-party libraries are enriched
\* identically": once KnowHub has configured last, whatever was configured before
\* it, what a logger without handlers of its own writes is a stamped JSON line.
EveryRecordStamped ==
  ruler = "knowhub" /\ fate \in {"json", "plain"} /\ call.logger \notin local =>
    fate = "json" /\ \A f \in Stamps : fields[f] = "context"

\* The same of the server's loggers, which uvicorn gave handlers of their own.
ServerRecordsStamped ==
  ruler = "knowhub" /\ call.logger \in local => fate # "plain"

\* "Records are emitted as JSON objects with fixed field names"; what a caller
\* supplies "is emitted alongside the standard fields".
FixedFieldsStand ==
  fate = "json" => \A f \in RecordFields : fields[f] = "record"

\* "All logging configuration lives here. Nothing else calls dictConfig or
\* attaches handlers": what KnowHub configured stays.
ConfigurationStands ==
  [][ruler = "knowhub" => ruler' = "knowhub" /\ handler' = "json"]_loggingVars
=============================================================================
