------------------------------- MODULE SpanSafety -------------------------------
(***************************************************************************)
(* The export boundary of knowhub/observability/span_safety.py, with the   *)
(* spans that reach it: recorded by KnowHub and by instrumentation, ended, *)
(* queued by a batch processor, handed in batches to the SafeSpanExporter  *)
(* that bootstrap.py wraps around the configured exporter.                 *)
(*                                                                         *)
(* A text is told apart only by where it comes from: "none", "arbitrary"   *)
(* (an exception, or whoever calls set_status) or "safe" (the fixed one).  *)
(* The attributes of an event are the set of their keys.                   *)
(***************************************************************************)
EXTENDS Naturals, Sequences

CONSTANTS Spans,
          SafeKeys,     \* SAFE_EXCEPTION_EVENT_ATTRIBUTES
          RecordedKeys, \* what the SDK puts on an exception event
          CallerKeys,   \* what callers of add_event may put on any event
          SpanLimit,    \* bound of the SDK: events a span keeps
          MaxRecorded   \* bound of the model: events ever added to a span

ASSUME SpanAssumption == {SpanLimit, MaxRecorded} \subseteq Nat \ {0}

Keys       == SafeKeys \cup RecordedKeys \cup CallerKeys
EventNames == {"exception", "stage"}
Codes      == {"UNSET", "OK", "ERROR"}
Texts      == {"none", "arbitrary", "safe"}
Marks      == {"knowhub.correlation_id", "knowhub.error.type"}

Event      == [name : EventNames, attributes : SUBSET Keys]
Status     == [code : Codes, description : Texts]
Span       == [events : Seq(Event), dropped : Nat, status : Status,
               attributes : SUBSET Marks]

VARIABLES
  recorded, \* what every span recorded
  phase,    \* of every span: open, queued in the batch processor, handed over, lost
  wire,     \* what the wrapped exporter was given for a span handed over
  down      \* the processor was shut down

spanVars == <<recorded, phase, wire, down>>

Fresh == [events |-> <<>>, dropped |-> 0, attributes |-> {"knowhub.correlation_id"},
          status |-> [code |-> "UNSET", description |-> "none"]]

SpanInit ==
  /\ recorded = [s \in Spans |-> Fresh]
  /\ phase = [s \in Spans |-> "open"]
  /\ wire = [s \in Spans |-> Fresh]
  /\ down = FALSE

-----------------------------------------------------------------------------
(***************************************************************************)
(* sanitise_span                                                           *)
(***************************************************************************)
IsException(e) == e.name = "exception"
HasException(span) == \E i \in DOMAIN span.events : IsException(span.events[i])
HasErrorText(span) == span.status.code = "ERROR" /\ span.status.description # "none"

\* Mutant: the attributes known to be unsafe are removed, the others kept.
SanitisedEventDenying(e) == [e EXCEPT !.attributes = @ \ {"exception.message", "exception.stacktrace"}]

SanitisedEvent(e) == [e EXCEPT !.attributes = @ \cap SafeKeys]

SafeEvents(events) ==
  [i \in 1 .. Len(events) |-> IF IsException(events[i]) THEN SanitisedEvent(events[i])
                                                          ELSE events[i]]

\* Mutant: the description goes, and the code with it.
SafeStatusReset(st) == IF st.code = "ERROR" THEN Fresh.status ELSE st

SafeStatus(st) == IF st.code = "ERROR" THEN [code |-> "ERROR", description |-> "safe"]
                                         ELSE st

\* Mutant: the rebuilt span is not given its attributes.
SanitisedForgetting(span) ==
  IF ~HasException(span) /\ ~HasErrorText(span) THEN span
  ELSE [events |-> SafeEvents(span.events), dropped |-> 0,
        status |-> SafeStatus(span.status)]

\* A rebuilt span is given a list of events: the count of those the limit of the
\* SDK dropped, which the SDK keeps beside its own list, is not carried over.
Sanitised(span) ==
  IF ~HasException(span) /\ ~HasErrorText(span) THEN span
  ELSE [events |-> SafeEvents(span.events), dropped |-> 0,
        status |-> SafeStatus(span.status), attributes |-> span.attributes]

-----------------------------------------------------------------------------
(***************************************************************************)
(* What records: the SDK's span and its callers.                           *)
(***************************************************************************)
\* An ended span is frozen, and a full one forgets its oldest event.
Added(span, e) ==
  IF Len(span.events) < SpanLimit THEN [span EXCEPT !.events = Append(@, e)]
  ELSE [span EXCEPT !.events = Append(Tail(@), e), !.dropped = @ + 1]

\* OK is final, UNSET never replaces, and only ERROR keeps a description.
SetTo(st, code, text) ==
  IF st.code = "OK" \/ code = "UNSET" THEN st
  ELSE [code |-> code, description |-> IF code = "ERROR" THEN text ELSE "none"]

Room(s) == Len(recorded[s].events) + recorded[s].dropped < MaxRecorded

AddEvent(s, e) ==
  /\ phase[s] = "open" /\ Room(s)
  /\ recorded' = [recorded EXCEPT ![s] = Added(@, e)]
  /\ UNCHANGED <<phase, wire, down>>

SetStatus(s, code, text) ==
  /\ phase[s] = "open"
  /\ recorded' = [recorded EXCEPT ![s].status = SetTo(@, code, text)]
  /\ UNCHANGED <<phase, wire, down>>

\* _handle_unexpected_error marks the current span: its fixed description is,
\* at the boundary, as arbitrary as any other.
MarkFailed(s) ==
  /\ phase[s] = "open"
  /\ recorded' = [recorded EXCEPT ![s].status = SetTo(@, "ERROR", "arbitrary"),
                                  ![s].attributes = @ \cup {"knowhub.error.type"}]
  /\ UNCHANGED <<phase, wire, down>>

\* A batch processor that was shut down takes no more spans.
Enqueue(s) == phase' = [phase EXCEPT ![s] = IF down THEN "lost" ELSE "queued"]

End(s) ==
  /\ phase[s] = "open"
  /\ Enqueue(s)
  /\ UNCHANGED <<recorded, wire, down>>

\* An exception escapes use_span: it is recorded, described in the status, and
\* the span ends.
Escape(s) ==
  /\ phase[s] = "open" /\ Room(s)
  /\ recorded' = [recorded EXCEPT ![s] =
       LET with == Added(@, [name |-> "exception", attributes |-> RecordedKeys])
       IN  [with EXCEPT !.status = SetTo(@, "ERROR", "arbitrary")]]
  /\ Enqueue(s)
  /\ UNCHANGED <<wire, down>>

\* A full processor forgets a span that waits.
Overflow(s) ==
  /\ phase[s] = "queued"
  /\ phase' = [phase EXCEPT ![s] = "lost"]
  /\ UNCHANGED <<recorded, wire, down>>

-----------------------------------------------------------------------------
(***************************************************************************)
(* SafeSpanExporter                                                        *)
(***************************************************************************)
\* export: the wrapped exporter is given every span of the batch, sanitised.
HandOver(batch) ==
  /\ phase' = [s \in Spans |-> IF s \in batch THEN "handed" ELSE phase[s]]
  /\ wire' = [s \in Spans |-> IF s \in batch THEN Sanitised(recorded[s]) ELSE wire[s]]

Waiting == {s \in Spans : phase[s] = "queued"}

\* The worker thread of the processor exports a batch, whatever becomes of it.
Export(batch) ==
  /\ batch # {}
  /\ HandOver(batch)
  /\ UNCHANGED <<recorded, down>>

\* shutdown is delegated; the processor exports what waits before it.
ExporterShutdown ==
  /\ ~down
  /\ down' = TRUE
  /\ HandOver(Waiting)
  /\ UNCHANGED recorded

SpanNext ==
  \/ \E s \in Spans : \/ \E e \in [name : EventNames, attributes : {CallerKeys, {}}] : AddEvent(s, e)
                      \/ \E code \in Codes, text \in {"none", "arbitrary"} : SetStatus(s, code, text)
                      \/ MarkFailed(s)
                      \/ End(s)
                      \/ Escape(s)
                      \/ Overflow(s)
  \/ \E batch \in SUBSET Waiting : Export(batch)
  \/ ExporterShutdown

SpanSpec == SpanInit /\ [][SpanNext]_spanVars

-----------------------------------------------------------------------------
HandedOver == {s \in Spans : phase[s] = "handed"}

\* Every variable keeps its type: what is handed over is a whole span.
SpanTypeOK ==
  /\ recorded \in [Spans -> Span]
  /\ phase \in [Spans -> {"open", "queued", "handed", "lost"}]
  /\ wire \in [Spans -> Span]
  /\ down \in BOOLEAN

\* "Arbitrary exception payload text is unsafe by default and removed": nothing
\* handed to the configured exporter carries a key that is not allowed on an
\* exception event, or the description somebody gave an error.
NoFreeText ==
  \A s \in HandedOver :
    /\ \A i \in 1 .. Len(wire[s].events) :
         IsException(wire[s].events[i]) => wire[s].events[i].attributes \subseteq SafeKeys
    /\ wire[s].status.code = "ERROR" => wire[s].status.description # "arbitrary"

\* The facts that diagnose a failure survive: the status code, KnowHub's span
\* attributes, the events in their order, the allowed attributes of an exception
\* and everything about the other events; and a span that has nothing unsafe is
\* handed over as it was recorded.
FactsSurvive ==
  \A s \in HandedOver :
    LET was == recorded[s]   is == wire[s]
    IN  /\ is.status.code = was.status.code
        /\ is.attributes = was.attributes
        /\ Len(is.events) = Len(was.events)
        /\ \A i \in 1 .. Len(was.events) :
             /\ is.events[i].name = was.events[i].name
             /\ was.events[i].attributes \cap SafeKeys \subseteq is.events[i].attributes
             /\ ~IsException(was.events[i]) => is.events[i] = was.events[i]
        /\ ~HasException(was) /\ was.status.code # "ERROR" => is = was

\* "Only the unsafe error payload may change; everything else survives."
OnlyPayloadChanges ==
  \A s \in HandedOver : wire[s].dropped = recorded[s].dropped
=============================================================================
