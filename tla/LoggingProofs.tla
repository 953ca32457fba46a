----------------------------- MODULE LoggingProofs -----------------------------
(***************************************************************************)
(* Theorems about module Logging, for every set of loggers, every set of   *)
(* keys a call may pass, every alembic.ini and whoever else configures.    *)
(***************************************************************************)
EXTENDS Logging, TLAPS

USE LoggingAssumption DEF LoggingAssumption

-----------------------------------------------------------------------------
\* The filter sees every record and its fields are reserved, so a JSON line has
\* them from the context whatever the call passed; an exception comes after the
\* caller's fields and is named by its type.
LEMMA LineHonest ==
  ASSUME NEW c \in Calls
  PROVE  /\ \A f \in Stamps : f \in Fields /\ Origin(c, f) = "context"
         /\ "error" \in Fields /\ (c.exc => Origin(c, "error") = "type")
<1>1. \A f \in Stamps : f \in Fields /\ f # "error" /\ f \notin c.extra \ Dropped
  BY DEF Stamps, Dropped, Fields
<1>2. \A f \in Stamps : Standard(c, f) = "context"
  BY <1>1 DEF Standard, StampedBy
<1>3. \A f \in Stamps : f \in Fields /\ Origin(c, f) = "context"
  BY <1>1, <1>2 DEF Origin
<1>4. "error" \in Fields /\ (c.exc => Origin(c, "error") = "type")
  BY DEF Fields, Origin, Standard, ErrorField
<1> QED BY <1>3, <1>4

\* Every field of a line comes from somewhere.
LEMMA OriginType ==
  ASSUME NEW c \in Calls, NEW f \in Fields
  PROVE  Origin(c, f) \in Origins
  BY DEF Origin, Standard, StampedBy, ErrorField, Origins

\* So a line with nothing in it and the fate of a call have their types.
LEMMA LineType ==
  /\ NoCall \in Calls
  /\ NoFields \in [Fields -> Origins]
  /\ \A c \in Calls : FateOf(c) \in Fates
<1>1. (CHOOSE l \in Loggers : TRUE) \in Loggers
  OBVIOUS
<1>2. NoCall \in Calls
  BY <1>1 DEF NoCall, Calls, Levels
<1>3. NoFields \in [Fields -> Origins]
  BY DEF NoFields, Origins
<1>4. \A c \in Calls : FateOf(c) \in Fates
  BY DEF FateOf, Fates
<1> QED BY <1>2, <1>3, <1>4

-----------------------------------------------------------------------------
(***************************************************************************)
(* The inductive invariant: the last line is the one the tree, as it still *)
(* is, gives the last call, and a tree KnowHub configured last disables    *)
(* nothing and hands the root logger's records to the JSON handler.        *)
(***************************************************************************)
LineOf(c) == IF FateOf(c) = "json" THEN [f \in Fields |-> Origin(c, f)] ELSE NoFields

LoggingInv ==
  /\ LoggingTypeOK
  /\ ruler = "knowhub" => handler = "json" /\ disabled = {}
  /\ fate = "idle" => fields = NoFields
  /\ fate # "idle" => fate = FateOf(call) /\ fields = LineOf(call)

\* It holds before anything is configured.
LEMMA LoggingInvInit == LoggingInit => LoggingInv
<1> SUFFICES ASSUME LoggingInit PROVE LoggingInv
  OBVIOUS
<1>1. own \in [Loggers -> Levels \cup {"unset"}]
  BY DEF LoggingInit
<1>2. fate \in Fates /\ level \in Levels
  BY DEF LoggingInit, Fates, Levels
<1> QED BY <1>1, <1>2, LineType DEF LoggingInit, LoggingInv, LoggingTypeOK

\* Whoever configures leaves the types, and no line of the tree as it was.
LEMMA TreeStep ==
  ASSUME LoggingInv,
         \/ \E l \in Loggers : GetLogger(l)
         \/ \E lv \in Levels : Configure(lv)
         \/ FileConfig
         \/ ServerConfig
  PROVE  LoggingInv'
<1>1. /\ call' \in Calls /\ fate' = "idle" /\ fields' = NoFields
      /\ fate' \in Fates /\ fields' \in [Fields -> Origins]
  BY LineType DEF GetLogger, Configure, FileConfig, ServerConfig, LineDone, Fates
<1> USE DEF LoggingInv, LoggingTypeOK
<1>2. CASE \E l \in Loggers : GetLogger(l)
  BY <1>1, <1>2 DEF GetLogger
<1>3. CASE \E lv \in Levels : Configure(lv)
  <2>1. disabled' = {} /\ known' = known /\ UNCHANGED <<own, local>>
    BY <1>3 DEF Configure
  <2>2. handler' = "json" /\ ruler' = "knowhub" /\ level' \in Levels
    BY <1>3 DEF Configure
  <2> QED BY <1>1, <2>1, <2>2
<1>4. CASE FileConfig
  <2> DEFINE named == {l \in Loggers : IniLevel[l] # "unset"}
  <2>1. /\ known' = known \cup named
        /\ disabled' = (disabled \cup known) \ named
        /\ UNCHANGED local
    BY <1>4 DEF FileConfig
  <2>2. handler' = "plain" /\ level' = "WARNING" /\ ruler' = "migrations"
    BY <1>4 DEF FileConfig
  <2>3. own' \in [Loggers -> Levels \cup {"unset"}]
    BY <1>4 DEF FileConfig
  <2>4. known' \subseteq Loggers /\ disabled' \subseteq known' /\ local' \subseteq known'
    BY <2>1
  <2>5. level' \in Levels
    BY <2>2 DEF Levels
  <2> QED BY <1>1, <2>2, <2>3, <2>4, <2>5
<1>5. CASE ServerConfig
  <2>1. own' \in [Loggers -> Levels \cup {"unset"}]
    BY <1>5 DEF ServerConfig, Levels
  <2> QED BY <1>1, <1>5, <2>1 DEF ServerConfig
<1> QED BY <1>2, <1>3, <1>4, <1>5

\* A logging call keeps it.
LEMMA LogStep ==
  ASSUME LoggingInv, NEW c \in Calls, Log(c)
  PROVE  LoggingInv'
<1>1. /\ call' = c /\ fate' = FateOf(c) /\ fields' = LineOf(c)
      /\ UNCHANGED <<handler, level, known, disabled, own, local, ruler>>
  BY DEF Log, LineOf, treeVars
<1>2. FateOf(c)' = FateOf(c) /\ LineOf(c)' = LineOf(c)
  BY <1>1 DEF FateOf, LineOf, Effective
<1>3. FateOf(c) # "idle"
  BY DEF FateOf
<1>4. LineOf(c) \in [Fields -> Origins] /\ (LineOf(c) # NoFields => FateOf(c) = "json")
  BY LineType, OriginType DEF LineOf
<1>5. FateOf(c) \in Fates
  BY LineType
<1>6. FateOf(call)' = fate' /\ LineOf(call)' = fields'
  BY <1>1, <1>2 DEF FateOf, LineOf, Effective
<1> QED BY <1>1, <1>3, <1>4, <1>5, <1>6 DEF LoggingInv, LoggingTypeOK

\* The invariant is inductive.
LEMMA LoggingInvariant == LoggingSpec => []LoggingInv
<1>1. LoggingInv /\ [LoggingNext]_loggingVars => LoggingInv'
  <2> SUFFICES ASSUME LoggingInv, [LoggingNext]_loggingVars PROVE LoggingInv'
    OBVIOUS
  <2>1. CASE UNCHANGED loggingVars
    BY <2>1 DEF loggingVars, treeVars, LoggingInv, LoggingTypeOK, FateOf, LineOf, Effective
  <2>2. CASE LoggingNext
    BY <2>2, TreeStep, LogStep DEF LoggingNext
  <2> QED BY <2>1, <2>2
<1> QED BY <1>1, LoggingInvInit, PTL DEF LoggingSpec

-----------------------------------------------------------------------------
\* Type correctness: a logger that is disabled, or has handlers of its own,
\* exists, and only a JSON line has fields.
THEOREM LoggingTypeCorrect == LoggingSpec => []LoggingTypeOK
BY LoggingInvariant, PTL DEF LoggingInv

\* "Only the exception type is emitted": no key a caller passes, whatever the
\* keys are, changes what a JSON line says of an exception or of its context.
THEOREM JsonLinesHonestHolds == LoggingSpec => []JsonLinesHonest
<1>1. LoggingInv => JsonLinesHonest
  <2> SUFFICES ASSUME LoggingInv, fate = "json" PROVE JsonLinesHonest
    BY DEF JsonLinesHonest
  <2>1. fields = [f \in Fields |-> Origin(call, f)] /\ call \in Calls
    BY DEF LoggingInv, LoggingTypeOK, LineOf
  <2> QED BY <2>1, LineHonest DEF JsonLinesHonest
<1> QED BY <1>1, LoggingInvariant, PTL

\* Once KnowHub's configuration is the last one no logger is silenced, whichever
\* an earlier fileConfig had disabled.
THEOREM NothingSilencedHolds == LoggingSpec => []NothingSilenced
<1>1. LoggingInv => NothingSilenced
  <2> SUFFICES ASSUME LoggingInv, ruler = "knowhub", fate \in {"disabled", "below"}
               PROVE  fate = "below" /\ (AtLeast(call.level, level) => own[call.logger] # "unset")
    BY DEF NothingSilenced
  <2>1. fate = FateOf(call) /\ disabled = {}
    BY DEF LoggingInv
  <2>2. fate = "below" /\ ~AtLeast(call.level, Effective(call.logger))
    BY <2>1 DEF FateOf
  <2> QED BY <2>2 DEF Effective
<1> QED BY <1>1, LoggingInvariant, PTL

\* "Every log record carries the correlation identifier": whatever was configured
\* before KnowHub, and in whatever order, what a logger without handlers of its
\* own writes afterwards is a JSON line stamped from the context.
THEOREM EveryRecordStampedHolds == LoggingSpec => []EveryRecordStamped
<1>1. LoggingInv => EveryRecordStamped
  <2> SUFFICES ASSUME LoggingInv, ruler = "knowhub", fate \in {"json", "plain"},
                      call.logger \notin local
               PROVE  fate = "json" /\ \A f \in Stamps : fields[f] = "context"
    BY DEF EveryRecordStamped
  <2>1. fate = FateOf(call) /\ handler = "json" /\ call \in Calls
    BY DEF LoggingInv, LoggingTypeOK
  <2>2. fate = "json"
    BY <2>1 DEF FateOf
  <2>3. fields = [f \in Fields |-> Origin(call, f)]
    BY <2>2 DEF LoggingInv, LineOf
  <2> QED BY <2>1, <2>2, <2>3, LineHonest
<1> QED BY <1>1, LoggingInvariant, PTL

-----------------------------------------------------------------------------
\* "Records are emitted as JSON objects with fixed field names": the one thing
\* that can rewrite a field of the record is a caller that passes its very name,
\* for Logger.makeRecord refuses "message" and the formatter no other.
THEOREM FixedFieldsOtherwise ==
  ASSUME \A e \in Extras : e \cap {"timestamp", "level", "logger"} = {}
  PROVE  LoggingSpec => []FixedFieldsStand
<1>1. ASSUME NEW c \in Calls, NEW f \in RecordFields
      PROVE  f \in Fields /\ Origin(c, f) = "record"
  <2>1. c.extra \in Extras
    BY DEF Calls
  <2>2. f \notin c.extra \ Dropped
    BY <2>1 DEF RecordFields, Dropped, Clashing
  <2>3. f \in Fields /\ f # "error" /\ f \notin Stamps
    BY DEF RecordFields, Fields, Stamps
  <2> QED BY <2>2, <2>3 DEF Origin, Standard
<1>2. LoggingInv => FixedFieldsStand
  <2> SUFFICES ASSUME LoggingInv, fate = "json" PROVE FixedFieldsStand
    BY DEF FixedFieldsStand
  <2>1. fields = [f \in Fields |-> Origin(call, f)] /\ call \in Calls
    BY DEF LoggingInv, LoggingTypeOK, LineOf
  <2> QED BY <1>1, <2>1 DEF FixedFieldsStand
<1> QED BY <1>2, LoggingInvariant, PTL

\* "All logging configuration lives here": in a process that runs no migrations
\* what KnowHub configured stays; uvicorn configures before it, never after.
THEOREM ConfigurationStandsWithoutMigrations ==
  ASSUME "migrations" \notin Others
  PROVE  LoggingSpec => ConfigurationStands
<1>1. LoggingInv /\ [LoggingNext]_loggingVars =>
        [ruler = "knowhub" => ruler' = "knowhub" /\ handler' = "json"]_loggingVars
  <2> SUFFICES ASSUME LoggingInv, LoggingNext, ruler = "knowhub"
               PROVE  ruler' = "knowhub" /\ handler' = "json"
    OBVIOUS
  <2>1. handler = "json"
    BY DEF LoggingInv
  <2> QED
    BY <2>1 DEF LoggingNext, GetLogger, Configure, FileConfig, ServerConfig, Log, treeVars
<1> QED BY <1>1, LoggingInvariant, PTL DEF LoggingSpec, ConfigurationStands
=============================================================================
