---------------------------- MODULE SpanSafetyProofs ----------------------------
(***************************************************************************)
(* SpanSafety proved for any spans, key sets and bounds: what is handed    *)
(* over has its type, carries no free text and keeps the facts.  A span is *)
(* handed over once and is frozen by then, so each property is inductive   *)
(* given the type and what one Sanitised does.                             *)
(***************************************************************************)
EXTENDS SpanSafety, TLAPS

\* What NoFreeText and FactsSurvive say of one span.
Harmless(is) ==
  /\ \A i \in 1 .. Len(is.events) :
       IsException(is.events[i]) => is.events[i].attributes \subseteq SafeKeys
  /\ is.status.code = "ERROR" => is.status.description # "arbitrary"

Faithful(was, is) ==
  /\ is.status.code = was.status.code
  /\ is.attributes = was.attributes
  /\ Len(is.events) = Len(was.events)
  /\ \A i \in 1 .. Len(was.events) :
       /\ is.events[i].name = was.events[i].name
       /\ was.events[i].attributes \cap SafeKeys \subseteq is.events[i].attributes
       /\ ~IsException(was.events[i]) => is.events[i] = was.events[i]
  /\ ~HasException(was) /\ was.status.code # "ERROR" => is = was

\* The state a processed span is in is either untouched by a step or the one
\* HandOver gives it.
Settled(s) ==
  \/ phase'[s] = "handed" /\ phase[s] = "handed" /\ UNCHANGED <<recorded[s], wire[s]>>
  \/ wire'[s] = Sanitised(recorded[s]) /\ recorded'[s] = recorded[s]
  \/ phase'[s] # "handed"

-----------------------------------------------------------------------------
\* The events of a sanitised span are events, as many and in the same places.
LEMMA SafeEventsType ==
  ASSUME NEW events \in Seq(Event)
  PROVE  /\ SafeEvents(events) \in Seq(Event)
         /\ Len(SafeEvents(events)) = Len(events)
         /\ \A i \in 1 .. Len(events) :
              SafeEvents(events)[i] = IF IsException(events[i]) THEN SanitisedEvent(events[i])
                                                                ELSE events[i]
<1>1. \A i \in 1 .. Len(events) : events[i] \in Event
  OBVIOUS
<1>2. \A e \in Event : SanitisedEvent(e) \in Event
  BY DEF SanitisedEvent, Event
<1>. DEFINE at(i) == IF IsException(events[i]) THEN SanitisedEvent(events[i]) ELSE events[i]
<1>3. SafeEvents(events) = [i \in 1 .. Len(events) |-> at(i)]
  BY DEF SafeEvents
<1>4. \A i \in 1 .. Len(events) : at(i) \in Event
  BY <1>1, <1>2
<1>. HIDE DEF at
<1>5. SafeEvents(events) \in [1 .. Len(events) -> Event]
  BY <1>3, <1>4
<1>6. Len(events) \in Nat
  OBVIOUS
<1>7. SafeEvents(events) \in Seq(Event) /\ Len(SafeEvents(events)) = Len(events)
  BY <1>5, <1>6
<1>. QED
  BY <1>3, <1>7 DEF at

\* A sanitised span is a whole span.
LEMMA SanitisedType ==
  ASSUME NEW span \in Span
  PROVE  Sanitised(span) \in Span
<1>1. span.events \in Seq(Event) /\ span.status \in Status
      /\ span.attributes \in SUBSET Marks /\ span.dropped \in Nat
  BY DEF Span
<1>2. SafeEvents(span.events) \in Seq(Event)
  BY <1>1, SafeEventsType
<1>3. SafeStatus(span.status) \in Status
  BY <1>1 DEF SafeStatus, Status, Codes, Texts
<1>. QED
  BY <1>1, <1>2, <1>3 DEF Sanitised, Span

\* A sanitised span carries no free text.
LEMMA SanitisedHarmless ==
  ASSUME NEW span \in Span
  PROVE  Harmless(Sanitised(span))
<1>1. span.events \in Seq(Event) /\ span.status \in Status
  BY DEF Span
<1>2. CASE ~HasException(span) /\ ~HasErrorText(span)
  <2>1. Sanitised(span) = span
    BY <1>2 DEF Sanitised
  <2>2. \A i \in 1 .. Len(span.events) : ~IsException(span.events[i])
    BY <1>1, <1>2 DEF HasException
  <2>3. span.status.code = "ERROR" => span.status.description # "arbitrary"
    BY <1>2 DEF HasErrorText
  <2>. QED
    BY <2>1, <2>2, <2>3 DEF Harmless
<1>3. CASE ~(~HasException(span) /\ ~HasErrorText(span))
  <2>1. /\ Sanitised(span).events = SafeEvents(span.events)
        /\ Sanitised(span).status = SafeStatus(span.status)
    BY <1>3 DEF Sanitised
  <2>2. Len(SafeEvents(span.events)) = Len(span.events)
    BY <1>1, SafeEventsType
  <2>3. ASSUME NEW i \in 1 .. Len(span.events), IsException(SafeEvents(span.events)[i])
        PROVE  SafeEvents(span.events)[i].attributes \subseteq SafeKeys
    <3>1. span.events[i] \in Event
      BY <1>1
    <3>2. SafeEvents(span.events)[i] = SanitisedEvent(span.events[i])
      BY <2>3, <1>1, SafeEventsType
    <3>. QED
      BY <3>1, <3>2 DEF SanitisedEvent, Event
  <2>4. SafeStatus(span.status).code = "ERROR" =>
          SafeStatus(span.status).description # "arbitrary"
    BY DEF SafeStatus
  <2>. QED
    BY <2>1, <2>2, <2>3, <2>4 DEF Harmless
<1>. QED
  BY <1>2, <1>3

\* A sanitised span keeps the facts of the span it was made from.
LEMMA SanitisedFaithful ==
  ASSUME NEW span \in Span
  PROVE  Faithful(span, Sanitised(span))
<1>1. span.events \in Seq(Event) /\ span.status \in Status
  BY DEF Span
<1>2. CASE ~HasException(span) /\ ~HasErrorText(span)
  <2>1. Sanitised(span) = span
    BY <1>2 DEF Sanitised
  <2>. QED
    BY <2>1 DEF Faithful
<1>3. CASE ~(~HasException(span) /\ ~HasErrorText(span))
  <2>. DEFINE safe == SafeEvents(span.events)
  <2>1. /\ Sanitised(span).events = safe
        /\ Sanitised(span).status = SafeStatus(span.status)
        /\ Sanitised(span).attributes = span.attributes
    BY <1>3 DEF Sanitised
  <2>2. Len(safe) = Len(span.events)
    BY <1>1, SafeEventsType
  <2>3. SafeStatus(span.status).code = span.status.code
    BY <1>1 DEF SafeStatus, Status
  <2>4. ASSUME NEW i \in 1 .. Len(span.events)
        PROVE  /\ safe[i].name = span.events[i].name
               /\ span.events[i].attributes \cap SafeKeys \subseteq safe[i].attributes
               /\ ~IsException(span.events[i]) => safe[i] = span.events[i]
    <3>1. span.events[i] \in Event
      BY <1>1
    <3>2. safe[i] = IF IsException(span.events[i]) THEN SanitisedEvent(span.events[i])
                                                   ELSE span.events[i]
      BY <1>1, SafeEventsType
    <3>. HIDE DEF safe
    <3>. QED
      BY <3>1, <3>2 DEF SanitisedEvent, Event
  <2>5. ~(~HasException(span) /\ span.status.code # "ERROR")
    BY <1>3 DEF HasErrorText
  <2>. HIDE DEF safe
  <2>. QED
    BY <2>1, <2>2, <2>3, <2>4, <2>5 DEF Faithful
<1>. QED
  BY <1>2, <1>3

-----------------------------------------------------------------------------
\* Recording and ending keep the type.
LEMMA RecordingType ==
  ASSUME NEW span \in Span, NEW e \in Event
  PROVE  Added(span, e) \in Span
<1>1. span.events \in Seq(Event) /\ span.dropped \in Nat
  BY DEF Span
<1>2. Append(span.events, e) \in Seq(Event)
  BY <1>1
<1>3. ASSUME ~(Len(span.events) < SpanLimit)
      PROVE  Append(Tail(span.events), e) \in Seq(Event)
  <2>1. span.events # <<>>
    BY <1>1, <1>3, SpanAssumption
  <2>2. Tail(span.events) \in Seq(Event)
    BY <1>1, <2>1
  <2>. QED
    BY <2>2
<1>4. CASE Len(span.events) < SpanLimit
  <2>1. Added(span, e) = [span EXCEPT !.events = Append(span.events, e)]
    BY <1>4 DEF Added
  <2>. QED
    BY <2>1, <1>2 DEF Span
<1>5. CASE ~(Len(span.events) < SpanLimit)
  <2>1. Added(span, e) = [span EXCEPT !.events = Append(Tail(span.events), e),
                                      !.dropped = span.dropped + 1]
    BY <1>5 DEF Added
  <2>2. Append(Tail(span.events), e) \in Seq(Event) /\ span.dropped + 1 \in Nat
    BY <1>1, <1>3, <1>5
  <2>. DEFINE later == Append(Tail(span.events), e)
              more  == span.dropped + 1
  <2>3. Added(span, e) = [span EXCEPT !.events = later, !.dropped = more]
    BY <2>1
  <2>4. later \in Seq(Event) /\ more \in Nat
    BY <2>2
  <2>. HIDE DEF later, more
  <2>. QED
    BY <2>3, <2>4 DEF Span
<1>. QED
  BY <1>4, <1>5

\* set_status makes a status of a status.
LEMMA StatusType ==
  ASSUME NEW st \in Status, NEW code \in Codes, NEW text \in Texts
  PROVE  SetTo(st, code, text) \in Status
BY DEF SetTo, Status, Codes, Texts

\* Every variable keeps its type, for any spans, keys and bounds.
THEOREM SpanTypeCorrect == SpanSpec => []SpanTypeOK
<1>1. SpanInit => SpanTypeOK
  <2>1. Fresh \in Span
    BY DEF Fresh, Span, Status, Codes, Texts, Marks
  <2>. QED
    BY <2>1 DEF SpanInit, SpanTypeOK
<1>2. SpanTypeOK /\ [SpanNext]_spanVars => SpanTypeOK'
  <2>. SUFFICES ASSUME SpanTypeOK, [SpanNext]_spanVars PROVE SpanTypeOK'
    OBVIOUS
  <2>. USE DEF SpanTypeOK
  <2>1. ASSUME NEW s \in Spans, NEW e \in [name : EventNames, attributes : {CallerKeys, {}}],
               AddEvent(s, e)
        PROVE  SpanTypeOK'
    <3>1. e \in Event
      BY DEF Event, Keys
    <3>2. Added(recorded[s], e) \in Span
      BY <3>1, RecordingType
    <3>. QED
      BY <2>1, <3>2 DEF AddEvent
  <2>2. ASSUME NEW s \in Spans, NEW code \in Codes, NEW text \in {"none", "arbitrary"},
               SetStatus(s, code, text)
        PROVE  SpanTypeOK'
    <3>1. SetTo(recorded[s].status, code, text) \in Status
      BY StatusType DEF Span, Texts
    <3>2. [recorded[s] EXCEPT !.status = SetTo(recorded[s].status, code, text)] \in Span
      BY <3>1 DEF Span
    <3>. QED
      BY <2>2, <3>2 DEF SetStatus
  <2>3. ASSUME NEW s \in Spans, MarkFailed(s)
        PROVE  SpanTypeOK'
    <3>1. SetTo(recorded[s].status, "ERROR", "arbitrary") \in Status
      BY StatusType DEF Span, Codes, Texts
    <3>. DEFINE st == SetTo(recorded[s].status, "ERROR", "arbitrary")
                marks == recorded[s].attributes \cup {"knowhub.error.type"}
    <3>2. recorded' = [recorded EXCEPT ![s] = [recorded[s] EXCEPT !.status = st,
                                                                  !.attributes = marks]]
      BY <2>3 DEF MarkFailed
    <3>3. marks \in SUBSET Marks
      BY DEF Span, Marks
    <3>. HIDE DEF st, marks
    <3>4. [recorded[s] EXCEPT !.status = st, !.attributes = marks] \in Span
      BY <3>1, <3>3 DEF Span, st
    <3>5. recorded' \in [Spans -> Span]
      BY <3>2, <3>4
    <3>. QED
      BY <2>3, <3>5 DEF MarkFailed
  <2>4. ASSUME NEW s \in Spans, End(s)
        PROVE  SpanTypeOK'
    BY <2>4 DEF End, Enqueue
  <2>5. ASSUME NEW s \in Spans, Escape(s)
        PROVE  SpanTypeOK'
    <3>. DEFINE with == Added(recorded[s], [name |-> "exception", attributes |-> RecordedKeys])
    <3>1. with \in Span
      <4>1. [name |-> "exception", attributes |-> RecordedKeys] \in Event
        BY DEF Event, EventNames, Keys
      <4>. QED
        BY <4>1, RecordingType
    <3>2. recorded' = [recorded EXCEPT ![s] =
                         [with EXCEPT !.status = SetTo(with.status, "ERROR", "arbitrary")]]
      BY <2>5 DEF Escape
    <3>. HIDE DEF with
    <3>3. SetTo(with.status, "ERROR", "arbitrary") \in Status
      BY <3>1, StatusType DEF Span, Codes, Texts
    <3>4. [with EXCEPT !.status = SetTo(with.status, "ERROR", "arbitrary")] \in Span
      BY <3>1, <3>3 DEF Span
    <3>. QED
      BY <2>5, <3>2, <3>4 DEF Escape, Enqueue
  <2>6. ASSUME NEW s \in Spans, Overflow(s)
        PROVE  SpanTypeOK'
    BY <2>6 DEF Overflow
  <2>7. ASSUME NEW batch \in SUBSET Spans, HandOver(batch)
        PROVE  /\ phase' \in [Spans -> {"open", "queued", "handed", "lost"}]
               /\ wire' \in [Spans -> Span]
    <3>1. \A s \in Spans : Sanitised(recorded[s]) \in Span
      BY SanitisedType
    <3>. QED
      BY <2>7, <3>1 DEF HandOver
  <2>8. ASSUME NEW batch \in SUBSET Waiting, Export(batch)
        PROVE  SpanTypeOK'
    BY <2>8, <2>7 DEF Export, Waiting
  <2>9. CASE ExporterShutdown
    BY <2>9, <2>7 DEF ExporterShutdown, Waiting
  <2>10. CASE UNCHANGED spanVars
    BY <2>10 DEF spanVars
  <2>. QED
    BY <2>1, <2>2, <2>3, <2>4, <2>5, <2>6, <2>8, <2>9, <2>10 DEF SpanNext
<1>. QED
  BY <1>1, <1>2, PTL DEF SpanSpec

-----------------------------------------------------------------------------
\* A span that is handed over after a step was handed over before it and is as it
\* was, or is handed over by it, sanitised as it was recorded.
LEMMA EverySpanSettles ==
  ASSUME SpanTypeOK, [SpanNext]_spanVars, NEW s \in Spans
  PROVE  Settled(s)
<1>. USE DEF SpanTypeOK
<1>1. ASSUME NEW t \in Spans, phase[t] = "open",
             \A u \in Spans \ {t} : recorded'[u] = recorded[u] /\ phase'[u] = phase[u],
             wire' = wire, phase'[t] # "handed"
      PROVE  Settled(s)
  BY <1>1 DEF Settled
<1>2. ASSUME NEW batch \in SUBSET Spans, HandOver(batch), recorded' = recorded
      PROVE  Settled(s)
  BY <1>2 DEF HandOver, Settled
<1>3. ASSUME NEW t \in Spans, NEW e, AddEvent(t, e)
      PROVE  Settled(s)
  BY <1>3, <1>1 DEF AddEvent
<1>4. ASSUME NEW t \in Spans, NEW code, NEW text, SetStatus(t, code, text)
      PROVE  Settled(s)
  BY <1>4, <1>1 DEF SetStatus
<1>5. ASSUME NEW t \in Spans, MarkFailed(t)
      PROVE  Settled(s)
  <2>1. \A u \in Spans \ {t} : recorded'[u] = recorded[u]
    BY <1>5 DEF MarkFailed
  <2>. QED
    BY <1>5, <1>1, <2>1 DEF MarkFailed
<1>6. ASSUME NEW t \in Spans, End(t)
      PROVE  Settled(s)
  BY <1>6, <1>1 DEF End, Enqueue
<1>7. ASSUME NEW t \in Spans, Escape(t)
      PROVE  Settled(s)
  <2>1. \A u \in Spans \ {t} : recorded'[u] = recorded[u]
    BY <1>7 DEF Escape
  <2>. QED
    BY <1>7, <1>1, <2>1 DEF Escape, Enqueue
<1>8. ASSUME NEW t \in Spans, Overflow(t)
      PROVE  Settled(s)
  BY <1>8 DEF Overflow, Settled
<1>9. ASSUME NEW batch \in SUBSET Waiting, Export(batch)
      PROVE  Settled(s)
  BY <1>9, <1>2 DEF Export, Waiting
<1>10. CASE ExporterShutdown
  BY <1>10, <1>2 DEF ExporterShutdown, Waiting
<1>11. CASE UNCHANGED spanVars
  BY <1>11 DEF spanVars, Settled
<1>. QED
  BY <1>3, <1>4, <1>5, <1>6, <1>7, <1>8, <1>9, <1>10, <1>11 DEF SpanNext

\* Nothing handed to the configured exporter carries free text of an error, for
\* any spans, keys and bounds.
THEOREM NoFreeTextHolds == SpanSpec => []NoFreeText
<1>. DEFINE Inv == \A s \in Spans : phase[s] = "handed" => Harmless(wire[s])
<1>1. SpanInit => Inv
  BY DEF SpanInit
<1>2. SpanTypeOK /\ Inv /\ [SpanNext]_spanVars => Inv'
  <2>. SUFFICES ASSUME SpanTypeOK, Inv, [SpanNext]_spanVars,
                       NEW s \in Spans, phase'[s] = "handed"
                PROVE  Harmless(wire'[s])
    BY DEF Harmless, IsException
  <2>1. Settled(s)
    BY EverySpanSettles
  <2>2. Harmless(Sanitised(recorded[s]))
    BY SanitisedHarmless DEF SpanTypeOK
  <2>. QED
    BY <2>1, <2>2 DEF Settled
<1>3. Inv => NoFreeText
  BY DEF NoFreeText, Harmless, HandedOver
<1>. QED
  BY <1>1, <1>2, <1>3, SpanTypeCorrect, PTL DEF SpanSpec

\* What diagnoses a failure survives the boundary, for any spans, keys and bounds.
THEOREM FactsSurviveHolds == SpanSpec => []FactsSurvive
<1>. DEFINE Inv == \A s \in Spans : phase[s] = "handed" => Faithful(recorded[s], wire[s])
<1>1. SpanInit => Inv
  BY DEF SpanInit
<1>2. SpanTypeOK /\ Inv /\ [SpanNext]_spanVars => Inv'
  <2>. SUFFICES ASSUME SpanTypeOK, Inv, [SpanNext]_spanVars,
                       NEW s \in Spans, phase'[s] = "handed"
                PROVE  Faithful(recorded'[s], wire'[s])
    BY DEF Faithful, IsException, HasException
  <2>1. Settled(s)
    BY EverySpanSettles
  <2>2. Faithful(recorded[s], Sanitised(recorded[s]))
    BY SanitisedFaithful DEF SpanTypeOK
  <2>. QED
    BY <2>1, <2>2 DEF Settled
<1>3. Inv => FactsSurvive
  BY DEF FactsSurvive, Faithful, HandedOver
<1>. QED
  BY <1>1, <1>2, <1>3, SpanTypeCorrect, PTL DEF SpanSpec

\* A span handed over has lost its count only for cause.
LostForCause ==
  \A s \in HandedOver :
    wire[s].dropped # recorded[s].dropped =>
      /\ recorded[s].dropped > 0
      /\ HasException(recorded[s]) \/ HasErrorText(recorded[s])

\* "Only the unsafe error payload may change; everything else survives": the one
\* thing that does not is the count of the events the SDK's limit dropped, and
\* only of a span that was rebuilt and had dropped some.
THEOREM OnlyRebuiltForgetsDropped == SpanSpec => []LostForCause
<1>. DEFINE Kept(was, is) ==
       is.dropped # was.dropped => /\ was.dropped > 0
                                   /\ HasException(was) \/ HasErrorText(was)
<1>. DEFINE Inv == \A s \in Spans : phase[s] = "handed" => Kept(recorded[s], wire[s])
<1>1. SpanInit => Inv
  BY DEF SpanInit
<1>2. SpanTypeOK /\ Inv /\ [SpanNext]_spanVars => Inv'
  <2>. SUFFICES ASSUME SpanTypeOK, Inv, [SpanNext]_spanVars,
                       NEW s \in Spans, phase'[s] = "handed"
                PROVE  Kept(recorded'[s], wire'[s])
    BY DEF HasException, HasErrorText, IsException
  <2>1. Settled(s)
    BY EverySpanSettles
  <2>2. recorded[s].dropped \in Nat
    BY DEF SpanTypeOK, Span
  <2>3. Kept(recorded[s], Sanitised(recorded[s]))
    BY <2>2 DEF Sanitised
  <2>. QED
    BY <2>1, <2>3 DEF Settled
<1>3. Inv => LostForCause
  BY DEF LostForCause, HandedOver
<1>. QED
  BY <1>1, <1>2, <1>3, SpanTypeCorrect, PTL DEF SpanSpec
=============================================================================
