-------------------------- MODULE RequestServingProofs --------------------------
(***************************************************************************)
(* Theorems about module RequestServing, for every set of requests, of     *)
(* identifiers and of header values, and any number of log records.        *)
(***************************************************************************)
EXTENDS RequestServing, FiniteSetTheorems, TLAPS

USE CorrelationAssumption, ServingAssumption DEF CorrelationAssumption, ServingAssumption

-----------------------------------------------------------------------------
\* What coerce_correlation_id returns is canonical: the caller's text if that is
\* exactly a canonical identifier, the generated one otherwise.  It is the length
\* bound that excludes the newline the pattern would let pass.
LEMMA CoerceResult ==
  ASSUME NEW v \in Inbound, WellFormed(v), NEW f \in CanonicalIds
  PROVE  /\ Coerce(v, f) \in CanonicalIds
         /\ v = TextOf(Coerce(v, f)) \/ Coerce(v, f) = f
         /\ \A c \in CanonicalIds : v = TextOf(c) => Coerce(v, f) = c
<1>1. v.lead \in CanonicalIds \cup {NoId} /\ v.tail \in Tails /\ v.length \in Nat
  BY DEF Inbound
<1>2. v = [isString |-> v.isString, lead |-> v.lead, tail |-> v.tail, length |-> v.length]
  BY DEF Inbound
<1>3. CASE IsValid(v)
  <2>1. v.tail = "nothing" /\ v.lead \in CanonicalIds /\ v.length = 36
    <3>1. v.length <= 36 /\ v.lead # NoId /\ v.tail \in {"nothing", "newline"}
      BY <1>3 DEF IsValid, MatchesPattern, MaxLength
    <3>2. v.tail # "newline"
      BY <1>1, <3>1 DEF WellFormed, CanonicalLength
    <3>3. v.tail = "nothing"
      BY <3>1, <3>2
    <3>4. v.length = 36
      BY <3>1, <3>3 DEF WellFormed, CanonicalLength
    <3> QED BY <1>1, <3>1, <3>3, <3>4
  <2>2. Coerce(v, f) = v.lead
    BY <1>3, <2>1 DEF Coerce, Written
  <2>3. v.isString = TRUE
    BY <1>3 DEF IsValid, Inbound
  <2>4. v = TextOf(v.lead)
    BY <1>2, <2>1, <2>3 DEF TextOf, CanonicalLength
  <2>5. \A c \in CanonicalIds : v = TextOf(c) => v.lead = c
    BY DEF TextOf
  <2> QED BY <2>1, <2>2, <2>4, <2>5
<1>4. CASE ~IsValid(v)
  <2>1. Coerce(v, f) = f
    BY <1>4 DEF Coerce
  <2>2. \A c \in CanonicalIds : v # TextOf(c)
    BY <1>4 DEF TextOf, IsValid, MatchesPattern, CanonicalLength, MaxLength
  <2> QED BY <2>1, <2>2
<1> QED BY <1>3, <1>4

\* An identifier once accepted is accepted again: coercing it changes nothing.
LEMMA CoerceAgain ==
  ASSUME NEW i \in CanonicalIds, NEW f
  PROVE  Coerce(TextOf(i), f) = i
  BY DEF TextOf, Coerce, IsValid, MatchesPattern, Written, CanonicalLength, MaxLength

\* The generated identifiers are canonical.
LEMMA FreshCanonical ==
  ASSUME NEW r \in Requests
  PROVE  fresh[r].entry \in CanonicalIds /\ fresh[r].error \in CanonicalIds
  BY DEF Generated

-----------------------------------------------------------------------------
(***************************************************************************)
(* The inductive invariant.  Besides the two properties it says what a     *)
(* request has not done yet, at the stages where it has not.               *)
(***************************************************************************)
Untouched(r) == records[r] = <<>> /\ started[r] = <<>> /\ scopeId[r] = NoId

ServingInv ==
  /\ ServingTypeOK
  /\ OneIdentifier
  /\ ContextRestored
  /\ \A r \in Requests : ~Admitted(r) => Untouched(r)
  /\ \A r \in Requests : pc[r] \in {"app", "failing"} => started[r] = <<>>

\* Type correctness of one step of one request.
LEMMA ServingStepType ==
  ASSUME ServingTypeOK, NEW r \in Requests, Step(r)
  PROVE  ServingTypeOK'
<1> USE DEF ServingTypeOK, Goto
<1>1. CASE Arrive(r)
  <2>1. inherited' \in [Requests -> Texts] /\ context' \in [Requests -> Texts]
    BY <1>1 DEF Arrive, Texts
  <2> QED BY <1>1, <2>1 DEF Arrive, Stages
<1>2. CASE Enter(r)
  <2>1. Coerce(header[r], fresh[r].entry) \in Texts
    BY FreshCanonical, CoerceResult DEF Texts
  <2> QED BY <1>2, <2>1 DEF Enter, Stages
<1>3. CASE Log(r)
  BY <1>3 DEF Log
<1>4. CASE StartResponse(r)
  <2>1. Append(started[r], <<"answer", scopeId[r]>>) \in Seq({"answer", "error"} \X Texts)
    OBVIOUS
  <2>2. started' \in [Requests -> Seq({"answer", "error"} \X Texts)]
    BY <1>4, <2>1 DEF StartResponse
  <2>3. pc' \in [Requests -> Stages]
    BY <1>4 DEF StartResponse, Stages
  <2> QED BY <1>4, <2>2, <2>3 DEF StartResponse
<1>5. CASE EndResponse(r) \/ EndError(r)
  BY <1>5 DEF EndResponse, EndError, Stages
<1>6. CASE Return(r) \/ Cancel(r)
  <2>1. context' \in [Requests -> Texts]
    BY <1>6 DEF Return, Cancel, ResetContext
  <2>2. pc' \in [Requests -> Stages]
    <3>1. "done" \in Stages /\ "cancelled" \in Stages
      BY DEF Stages
    <3> QED BY <1>6, <3>1 DEF Return, Cancel
  <2> QED BY <1>6, <2>1, <2>2 DEF Return, Cancel
<1>7. CASE Raise(r)
  <2>1. ErrorId(r) \in Texts
    BY FreshCanonical DEF ErrorId, Coerce, Written, TextOf, Texts
  <2> QED BY <1>7, <2>1 DEF Raise, ResetContext, Stages
<1>8. CASE StartError(r)
  BY <1>8 DEF StartError, Stages
<1> QED BY <1>1, <1>2, <1>3, <1>4, <1>5, <1>6, <1>7, <1>8 DEF Step

\* A step of request r leaves every other request as it is.
LEMMA OthersUnchanged ==
  ASSUME ServingTypeOK, NEW r \in Requests, Step(r), NEW q \in Requests, q # r
  PROVE  /\ pc'[q] = pc[q] /\ context'[q] = context[q] /\ inherited'[q] = inherited[q]
         /\ scopeId'[q] = scopeId[q] /\ spanId'[q] = spanId[q] /\ spanError'[q] = spanError[q]
         /\ records'[q] = records[q] /\ started'[q] = started[q]
         /\ header' = header /\ recording' = recording
<1> USE DEF ServingTypeOK, Goto
<1>1. CASE Arrive(r) \/ Enter(r)
  BY <1>1 DEF Arrive, Enter
<1>2. CASE Log(r) \/ StartResponse(r) \/ EndResponse(r) \/ Return(r)
  BY <1>2 DEF Log, StartResponse, EndResponse, Return, ResetContext
<1>3. CASE Raise(r)
  BY <1>3 DEF Raise, ResetContext
<1>4. CASE StartError(r) \/ EndError(r) \/ Cancel(r)
  BY <1>4 DEF StartError, EndError, Cancel, ResetContext
<1> QED BY <1>1, <1>2, <1>3, <1>4 DEF Step

-----------------------------------------------------------------------------
\* The invariant, request by request.
Labelled(r) ==
  Admitted(r) =>
    /\ scopeId[r] \in CanonicalIds
    /\ TextOf(scopeId[r]) = header[r] \/ scopeId[r] = fresh[r].entry
    /\ \A c \in CanonicalIds : header[r] = TextOf(c) => scopeId[r] = c
    /\ \A i \in 1 .. Len(records[r]) : records[r][i][1] = scopeId[r]
    /\ \A i \in 1 .. Len(started[r]) : started[r][i][2] = scopeId[r]
    /\ recording[r] => spanId[r] = scopeId[r]

RequestInv(r) ==
  /\ Labelled(r)
  /\ context[r] = IF InApp(r) THEN scopeId[r] ELSE inherited[r]
  /\ ~Admitted(r) => Untouched(r)
  /\ pc[r] \in {"app", "failing"} => started[r] = <<>>

LEMMA ServingInvByRequest ==
  ServingInv <=> ServingTypeOK /\ \A r \in Requests : RequestInv(r)
  BY DEF ServingInv, RequestInv, Labelled, OneIdentifier, ContextRestored

\* Appending to a sequence whose entries all carry i, in component k, an entry
\* that carries i.
LEMMA AppendKeeps ==
  ASSUME NEW S, NEW T, NEW s \in Seq(S \X T), NEW a \in S, NEW b \in T
  PROVE  /\ \A i : (\A n \in 1 .. Len(s) : s[n][1] = i) /\ a = i =>
                     \A n \in 1 .. Len(Append(s, <<a, b>>)) : Append(s, <<a, b>>)[n][1] = i
         /\ \A i : (\A n \in 1 .. Len(s) : s[n][2] = i) /\ b = i =>
                     \A n \in 1 .. Len(Append(s, <<a, b>>)) : Append(s, <<a, b>>)[n][2] = i
  OBVIOUS

\* What a step of request r does to its own invariant, action by action.
LEMMA StepKeepsRequest ==
  ASSUME ServingTypeOK, ServingTypeOK', NEW r \in Requests, RequestInv(r), Step(r)
  PROVE  RequestInv(r)'
<1> USE DEF Goto, InApp, Admitted
<1>1. CASE Arrive(r)
  BY <1>1 DEF Arrive, RequestInv, Labelled, Untouched, ServingTypeOK
<1>2. CASE Enter(r)
  <2> DEFINE i == Coerce(header[r], fresh[r].entry)
  <2>1. /\ i \in CanonicalIds
        /\ header[r] = TextOf(i) \/ i = fresh[r].entry
        /\ \A c \in CanonicalIds : header[r] = TextOf(c) => i = c
    BY CoerceResult, FreshCanonical DEF ServingTypeOK
  <2>2. /\ scopeId'[r] = i /\ context'[r] = i /\ pc'[r] = "app"
        /\ recording[r] => spanId'[r] = i
        /\ UNCHANGED <<records, started, header, recording>>
    BY <1>2 DEF Enter, ServingTypeOK
  <2>3. records[r] = <<>> /\ started[r] = <<>>
    BY <1>2 DEF Enter, RequestInv, Untouched
  <2> HIDE DEF i
  <2> QED BY <2>1, <2>2, <2>3 DEF RequestInv, Labelled
<1>3. CASE Log(r)
  <2>1. /\ records'[r] = Append(records[r], <<scopeId[r], "info">>)
        /\ UNCHANGED <<pc, header, inherited, context, scopeId, recording, spanId, started>>
        /\ Labelled(r) /\ Admitted(r)
    BY <1>3 DEF Log, RequestInv, ServingTypeOK
  <2>2. \A n \in 1 .. Len(records'[r]) : records'[r][n][1] = scopeId[r]
    BY <2>1, AppendKeeps DEF Labelled, ServingTypeOK
  <2> QED BY <2>1, <2>2 DEF RequestInv, Labelled
<1>4. CASE StartResponse(r) \/ StartError(r)
  <2>1. PICK status \in {"answer", "error"} :
           started'[r] = Append(started[r], <<status, scopeId[r]>>)
    BY <1>4 DEF StartResponse, StartError, ServingTypeOK
  <2>2. /\ UNCHANGED <<header, inherited, context, scopeId, recording, spanId, records>>
        /\ Labelled(r) /\ Admitted(r)
        /\ \/ pc[r] = "app" /\ pc'[r] = "streaming"
           \/ pc[r] = "failing" /\ pc'[r] = "reporting"
    <3>1. CASE StartResponse(r)
      BY <3>1 DEF StartResponse, RequestInv, ServingTypeOK
    <3>2. CASE StartError(r)
      BY <3>2 DEF StartError, RequestInv, ServingTypeOK
    <3> QED BY <1>4, <3>1, <3>2
  <2>3. \A n \in 1 .. Len(started'[r]) : started'[r][n][2] = scopeId[r]
    BY <2>1, <2>2, AppendKeeps DEF Labelled, ServingTypeOK
  <2> QED BY <2>2, <2>3 DEF RequestInv, Labelled
<1>5. CASE EndResponse(r) \/ EndError(r)
  BY <1>5 DEF EndResponse, EndError, RequestInv, Labelled, ServingTypeOK
<1>6. CASE Return(r) \/ Cancel(r)
  <2>1. /\ context'[r] = inherited[r] /\ pc'[r] \in {"done", "cancelled"}
        /\ UNCHANGED <<header, inherited, scopeId, recording, spanId, records, started>>
    BY <1>6 DEF Return, Cancel, ResetContext, ServingTypeOK
  <2>2. Admitted(r)
    BY <1>6 DEF Return, Cancel
  <2> QED BY <2>1, <2>2 DEF RequestInv, Labelled
<1>7. CASE Raise(r)
  <2>1. ErrorId(r) = scopeId[r] /\ Labelled(r) /\ Admitted(r)
    BY <1>7, CoerceAgain DEF Raise, RequestInv, Labelled, ErrorId
  <2>2. /\ records'[r] = Append(records[r], <<scopeId[r], "error">>)
        /\ context'[r] = inherited[r]
        /\ pc'[r] = IF started[r] = <<>> THEN "failing" ELSE "done"
        /\ UNCHANGED <<header, inherited, scopeId, recording, spanId, started>>
    BY <1>7, <2>1 DEF Raise, ResetContext, ServingTypeOK
  <2>3. \A n \in 1 .. Len(records'[r]) : records'[r][n][1] = scopeId[r]
    BY <2>1, <2>2, AppendKeeps DEF Labelled, ServingTypeOK
  <2> QED BY <2>1, <2>2, <2>3 DEF RequestInv, Labelled
<1> QED BY <1>1, <1>2, <1>3, <1>4, <1>5, <1>6, <1>7 DEF Step

\* The invariant is inductive.
LEMMA ServingInvariant == ServingSpec => []ServingInv
<1>1. ServingInit => ServingInv
  <2> SUFFICES ASSUME ServingInit PROVE ServingInv
    OBVIOUS
  <2>1. /\ inherited \in [Requests -> Texts] /\ context \in [Requests -> Texts]
        /\ scopeId \in [Requests -> Texts] /\ spanId \in [Requests -> Texts]
    BY DEF ServingInit, NoneOf, Texts
  <2>2. /\ pc \in [Requests -> Stages] /\ header \in [Requests -> InboundValues]
        /\ recording \in [Requests -> BOOLEAN] /\ spanError \in [Requests -> BOOLEAN]
    BY DEF ServingInit, Stages
  <2>3. /\ records \in [Requests -> Seq(Texts \X {"info", "error"})]
        /\ started \in [Requests -> Seq({"answer", "error"} \X Texts)]
    BY DEF ServingInit
  <2>4. \A r \in Requests : RequestInv(r)
    BY DEF ServingInit, NoneOf, RequestInv, Labelled, Admitted, Untouched, InApp
  <2> QED BY <2>1, <2>2, <2>3, <2>4, ServingInvByRequest DEF ServingTypeOK
<1>2. ServingInv /\ [ServingNext]_servingVars => ServingInv'
  <2> SUFFICES ASSUME ServingInv, [ServingNext]_servingVars PROVE ServingInv'
    OBVIOUS
  <2>1. CASE UNCHANGED servingVars
    BY <2>1 DEF servingVars, ServingInv, ServingTypeOK, OneIdentifier, ContextRestored,
                Admitted, Untouched, InApp
  <2>2. ASSUME NEW r \in Requests, Step(r) PROVE ServingInv'
    <3>1. ServingTypeOK /\ \A q \in Requests : RequestInv(q)
      BY ServingInvByRequest
    <3>2. ServingTypeOK'
      BY <2>2, <3>1, ServingStepType
    <3>3. RequestInv(r)'
      BY <2>2, <3>1, <3>2, StepKeepsRequest
    <3>4. ASSUME NEW q \in Requests, q # r PROVE RequestInv(q)'
      <4>1. RequestInv(q)
        BY <3>1
      <4> QED BY <2>2, <3>1, <3>4, <4>1, OthersUnchanged
              DEF RequestInv, Labelled, Admitted, Untouched, InApp
    <3>5. \A q \in Requests : RequestInv(q)'
      BY <3>3, <3>4
    <3> QED
      BY <3>2, <3>5 DEF ServingInv, RequestInv, Labelled, OneIdentifier, ContextRestored
  <2> QED BY <2>1, <2>2 DEF ServingNext
<1> QED BY <1>1, <1>2, PTL DEF ServingSpec

-----------------------------------------------------------------------------
\* Type correctness.
THEOREM ServingTypeCorrect == ServingSpec => []ServingTypeOK
BY ServingInvariant, PTL DEF ServingInv

\* What ties a caller's report to the operator's telemetry: every record of a
\* request, its response and its sampled span carry one identifier, canonical
\* whatever the caller sent and the caller's when that is canonical - for any
\* number of requests, in any interleaving, on the error path included.
THEOREM OneIdentifierHolds == ServingSpec => []OneIdentifier
BY ServingInvariant, PTL DEF ServingInv

\* The middleware leaves the ambient context as it found it on every way out.
THEOREM ContextRestoredHolds == ServingSpec => []ContextRestored
BY ServingInvariant, PTL DEF ServingInv

-----------------------------------------------------------------------------
\* Once a response has begun nothing begins another: the only step that could,
\* the answer of the server-error boundary, needs one that has not.
THEOREM NeverRelabelledHolds == ServingSpec => NeverRelabelled
<1>1. ServingInv /\ [ServingNext]_servingVars =>
        [\A r \in Requests : started[r] # <<>> => started'[r] = started[r]]_servingVars
  <2> SUFFICES ASSUME ServingInv, NEW q \in Requests, Step(q),
                      NEW r \in Requests, started[r] # <<>>
               PROVE  started'[r] = started[r]
    BY DEF ServingNext
  <2>1. ServingTypeOK /\ RequestInv(q)
    BY ServingInvByRequest
  <2>2. CASE r # q
    BY <2>1, <2>2, OthersUnchanged
  <2>3. CASE r = q
    <3>1. pc[q] \notin {"app", "failing"}
      BY <2>1, <2>3 DEF RequestInv
    <3> QED
      BY <2>3, <3>1 DEF Step, Arrive, Enter, Log, StartResponse, EndResponse, Return,
                        Raise, StartError, EndError, Cancel
  <2> QED BY <2>2, <2>3
<1> QED BY <1>1, ServingInvariant, PTL DEF ServingSpec, NeverRelabelled

-----------------------------------------------------------------------------
(***************************************************************************)
(* A failure and its report.  A request under the middleware has nothing   *)
(* to report; one whose error is to be answered has been reported.         *)
(***************************************************************************)
Unfailed(r) ==
  /\ Errors(r) = {}
  /\ ~spanError[r]
  /\ \A i \in 1 .. Len(started[r]) : started[r][i][1] # "error"

Reported(r) ==
  /\ \E i \in 1 .. Len(records[r]) : Errors(r) = {i}
  /\ recording[r] => spanError[r]

FailureInv(r) ==
  /\ Unfailed(r) \/ Reported(r)
  /\ ~Admitted(r) \/ InApp(r) => Unfailed(r)
  /\ pc[r] = "failing" => Reported(r)

\* The error records of a request after one more record: the same if that is an
\* "info" record, its position as well if it is an "error".
LEMMA ErrorsAfterAppend ==
  ASSUME ServingTypeOK, NEW r \in Requests, NEW i \in Texts, NEW level \in {"info", "error"},
         records'[r] = Append(records[r], <<i, level>>)
  PROVE  Errors(r)' = IF level = "error" THEN Errors(r) \cup {Len(records[r]) + 1}
                                         ELSE Errors(r)
<1> DEFINE s == records[r]
<1>1. s \in Seq(Texts \X {"info", "error"}) /\ Len(s) \in Nat
  BY DEF ServingTypeOK
<1>2. /\ Len(records'[r]) = Len(s) + 1
      /\ \A n \in 1 .. Len(s) : records'[r][n] = s[n]
      /\ records'[r][Len(s) + 1] = <<i, level>>
  BY <1>1
<1>3. 1 .. (Len(s) + 1) = (1 .. Len(s)) \cup {Len(s) + 1}
  BY <1>1
<1>4. <<i, level>>[2] = level
  OBVIOUS
<1> QED BY <1>1, <1>2, <1>3, <1>4 DEF Errors

\* What a step of request r does to it, action by action.
LEMMA StepKeepsReport ==
  ASSUME ServingTypeOK, ServingTypeOK', NEW r \in Requests, FailureInv(r), Step(r)
  PROVE  FailureInv(r)'
<1> USE DEF Goto, InApp, Admitted
<1>1. CASE Arrive(r) \/ Enter(r) \/ EndResponse(r) \/ Return(r) \/ EndError(r) \/ Cancel(r)
  <2>1. UNCHANGED <<recording, spanError, records, started>>
    BY <1>1 DEF Arrive, Enter, EndResponse, Return, EndError, Cancel
  <2>2. pc'[r] # "failing"
    BY <1>1 DEF Arrive, Enter, EndResponse, Return, EndError, Cancel, ServingTypeOK
  <2>3. ~Admitted(r)' \/ InApp(r)' => ~Admitted(r) \/ InApp(r)
    BY <1>1 DEF Arrive, Enter, EndResponse, Return, EndError, Cancel, ServingTypeOK
  <2> QED BY <2>1, <2>2, <2>3 DEF FailureInv, Unfailed, Reported, Errors
<1>2. CASE Log(r)
  <2>1. /\ records'[r] = Append(records[r], <<context[r], "info">>)
        /\ UNCHANGED <<pc, recording, spanError, started>>
        /\ Unfailed(r) /\ InApp(r)
    BY <1>2 DEF Log, FailureInv, ServingTypeOK
  <2>2. Errors(r)' = Errors(r)
    BY <2>1, ErrorsAfterAppend DEF ServingTypeOK
  <2> QED BY <2>1, <2>2 DEF FailureInv, Unfailed
<1>3. CASE StartResponse(r)
  <2>1. /\ started'[r] = Append(started[r], <<"answer", scopeId[r]>>)
        /\ pc'[r] = "streaming"
        /\ UNCHANGED <<recording, spanError, records>>
        /\ Unfailed(r)
    BY <1>3 DEF StartResponse, FailureInv, ServingTypeOK
  <2>2. \A n \in 1 .. Len(started'[r]) : started'[r][n][1] # "error"
    <3>1. started[r] \in Seq({"answer", "error"} \X Texts)
      BY DEF ServingTypeOK
    <3>2. <<"answer", scopeId[r]>>[1] = "answer"
      OBVIOUS
    <3> QED BY <2>1, <3>1, <3>2 DEF Unfailed
  <2> QED BY <2>1, <2>2 DEF FailureInv, Unfailed, Errors
<1>4. CASE Raise(r)
  <2>1. /\ records'[r] = Append(records[r], <<ErrorId(r), "error">>)
        /\ recording' = recording
        /\ recording[r] => spanError'[r]
        /\ pc'[r] \in {"failing", "done"}
        /\ Unfailed(r)
    BY <1>4 DEF Raise, FailureInv, ServingTypeOK
  <2>2. ErrorId(r) \in Texts
    BY FreshCanonical DEF ErrorId, Coerce, Written, TextOf, Texts, ServingTypeOK
  <2>3. Errors(r)' = {Len(records[r]) + 1}
    BY <2>1, <2>2, ErrorsAfterAppend DEF Unfailed
  <2>4. Len(records[r]) + 1 \in 1 .. Len(records'[r])
    BY <2>1 DEF ServingTypeOK
  <2> QED BY <2>1, <2>3, <2>4 DEF FailureInv, Reported
<1>5. CASE StartError(r)
  <2>1. /\ Reported(r)
        /\ pc'[r] = "reporting"
        /\ UNCHANGED <<recording, spanError, records>>
    BY <1>5 DEF StartError, FailureInv, ServingTypeOK
  <2> QED BY <2>1 DEF FailureInv, Reported, Errors
<1> QED BY <1>1, <1>2, <1>3, <1>4, <1>5 DEF Step

\* A caller is told of an unhandled error only when the operator is, by exactly
\* one error record and a failed span: the record and the span are made in the
\* step that leads to the answer, and no step after it makes another.
THEOREM FailureIsReportedHolds == ServingSpec => []FailureIsReported
<1>1. ServingInit => \A r \in Requests : FailureInv(r)
  BY DEF ServingInit, FailureInv, Unfailed, Errors, Admitted
<1>2. ServingInv /\ ServingInv' /\ (\A r \in Requests : FailureInv(r))
        /\ [ServingNext]_servingVars => (\A r \in Requests : FailureInv(r))'
  <2> SUFFICES ASSUME ServingTypeOK, ServingTypeOK', \A r \in Requests : FailureInv(r),
                      [ServingNext]_servingVars, NEW q \in Requests
               PROVE  FailureInv(q)'
    BY DEF ServingInv
  <2>1. CASE UNCHANGED servingVars
    BY <2>1 DEF servingVars, FailureInv, Unfailed, Reported, Errors, Admitted, InApp
  <2>2. ASSUME NEW r \in Requests, Step(r) PROVE FailureInv(q)'
    <3>1. CASE q = r
      BY <2>2, <3>1, StepKeepsReport
    <3>2. CASE q # r
      BY <2>2, <3>2, OthersUnchanged DEF FailureInv, Unfailed, Reported, Errors, Admitted, InApp
    <3> QED BY <3>1, <3>2
  <2> QED BY <2>1, <2>2 DEF ServingNext
<1>3. ServingInv /\ (\A r \in Requests : FailureInv(r)) => FailureIsReported
  <2> SUFFICES ASSUME NEW r \in Requests, FailureInv(r)
               PROVE  /\ Cardinality(Errors(r)) <= 1
                      /\ \/ \E i \in 1 .. Len(started[r]) : started[r][i][1] = "error"
                         \/ spanError[r]
                         => /\ Cardinality(Errors(r)) = 1
                            /\ recording[r] => spanError[r]
    BY DEF FailureIsReported
  <2>1. CASE Unfailed(r)
    BY <2>1, FS_EmptySet DEF Unfailed
  <2>2. CASE Reported(r)
    <3>1. PICK i \in 1 .. Len(records[r]) : Errors(r) = {i}
      BY <2>2 DEF Reported
    <3>2. Cardinality(Errors(r)) = 1
      BY <3>1, FS_Singleton
    <3>3. Cardinality(Errors(r)) <= 1
      BY <3>2
    <3> QED BY <2>2, <3>2, <3>3, Zenon DEF Reported
  <2> QED BY <2>1, <2>2 DEF FailureInv
<1> QED BY <1>1, <1>2, <1>3, ServingInvariant, PTL DEF ServingSpec

-----------------------------------------------------------------------------
(***************************************************************************)
(* The stack implements RequestContract.  Every step of a request is one   *)
(* step of the contract or leaves it where it is.                          *)
(***************************************************************************)
StageMap == [q \in Requests |-> Stage(q)]

\* A step of request r moves the contract's stage of r only.
LEMMA StageMoves ==
  ASSUME ServingTypeOK, NEW r \in Requests, Step(r), NEW s, Stage(r)' = s
  PROVE  StageMap' = [StageMap EXCEPT ![r] = s]
<1>1. \A q \in Requests : q # r => pc'[q] = pc[q]
  BY OthersUnchanged
<1>2. \A q \in Requests : q # r => Stage(q)' = Stage(q)
  BY <1>1 DEF Stage, Admitted, InApp
<1> QED BY <1>2 DEF StageMap

LEMMA StageStays ==
  ASSUME ServingTypeOK, NEW r \in Requests, Step(r), Stage(r)' = Stage(r)
  PROVE  StageMap' = StageMap
<1>1. StageMap' = [StageMap EXCEPT ![r] = Stage(r)]
  BY StageMoves
<1> QED BY <1>1 DEF StageMap

THEOREM ServingKeepsContract == ServingSpec => KeepsContract
<1>1. ServingInit => Contract!Init
  BY DEF ServingInit, Contract!Init, NoneOf, Stage, Admitted
<1>2. ServingInv /\ ServingInv' /\ [ServingNext]_servingVars =>
        [Contract!Next]_(Contract!contractVars)
  <2> SUFFICES ASSUME ServingInv, ServingInv', [ServingNext]_servingVars
               PROVE  Contract!Next \/ UNCHANGED Contract!contractVars
    OBVIOUS
  <2>1. CASE UNCHANGED servingVars
    BY <2>1 DEF servingVars, Contract!contractVars, Stage, Admitted, InApp
  <2>2. ASSUME NEW r \in Requests, Step(r)
        PROVE  Contract!Next \/ UNCHANGED Contract!contractVars
    <3> USE DEF Goto, StageMap
    <3>1. ServingTypeOK /\ RequestInv(r) /\ RequestInv(r)'
      BY ServingInvByRequest DEF ServingInv, RequestInv, Labelled, OneIdentifier,
                                 ContextRestored
    <3>2. CASE Arrive(r) \/ EndResponse(r)
      <4>1. Stage(r)' = Stage(r)
        BY <3>1, <3>2 DEF Arrive, EndResponse, Stage, Admitted, InApp, ServingTypeOK
      <4> QED BY <2>2, <3>1, <3>2, <4>1, StageStays
              DEF Arrive, EndResponse, Contract!contractVars
    <3>3. CASE Enter(r)
      <4>1. Stage(r) = "waiting" /\ Stage(r)' = "open"
        BY <3>1, <3>3 DEF Enter, Stage, Admitted, InApp, ServingTypeOK
      <4>2. PICK i \in CanonicalIds : scopeId' = [scopeId EXCEPT ![r] = i]
        BY <3>1, <3>3, CoerceResult, FreshCanonical DEF Enter, ServingTypeOK
      <4>3. Contract!Admit(r, i)
        BY <2>2, <3>1, <3>3, <4>1, <4>2, StageMoves DEF Enter, Contract!Admit
      <4> QED BY <4>3 DEF Contract!Next
    <3>4. CASE Log(r)
      <4>1. Stage(r) = "open" /\ Stage(r)' = Stage(r) /\ context[r] = scopeId[r]
        BY <3>1, <3>4 DEF Log, Stage, Admitted, InApp, RequestInv
      <4>2. Contract!Record(r)
        BY <2>2, <3>1, <3>4, <4>1, StageStays DEF Log, Contract!Record
      <4> QED BY <4>2 DEF Contract!Next
    <3>5. CASE StartResponse(r)
      <4>1. Stage(r) = "open" /\ Stage(r)' = Stage(r) /\ started[r] = <<>>
        BY <3>1, <3>5 DEF StartResponse, Stage, Admitted, InApp, RequestInv, ServingTypeOK
      <4>2. Contract!Answer(r)
        BY <2>2, <3>1, <3>5, <4>1, StageStays DEF StartResponse, Contract!Answer
      <4> QED BY <4>2 DEF Contract!Next
    <3>6. CASE Return(r) \/ EndError(r) \/ Cancel(r)
      <4>1. Stage(r) \in {"open", "failing"} /\ Stage(r)' = "closed"
        BY <3>1, <3>6 DEF Return, EndError, Cancel, Stage, Admitted, InApp, ServingTypeOK
      <4>2. Contract!Close(r)
        BY <2>2, <3>1, <3>6, <4>1, StageMoves DEF Return, EndError, Cancel, Contract!Close
      <4> QED BY <4>2 DEF Contract!Next
    <3>7. CASE Raise(r)
      <4>1. /\ Stage(r) = "open"
            /\ Stage(r)' = IF started[r] = <<>> THEN "failing" ELSE "closed"
        BY <3>1, <3>7 DEF Raise, Stage, Admitted, InApp, ServingTypeOK
      <4>2. ErrorId(r) = scopeId[r]
        BY <3>1, <3>7, CoerceAgain DEF Raise, RequestInv, Labelled, Admitted, InApp, ErrorId
      <4>3. Contract!Fail(r)
        BY <2>2, <3>1, <3>7, <4>1, <4>2, StageMoves DEF Raise, Contract!Fail
      <4> QED BY <4>3 DEF Contract!Next
    <3>8. CASE StartError(r)
      <4>1. Stage(r) = "failing" /\ Stage(r)' = Stage(r) /\ started[r] = <<>>
        BY <3>1, <3>8 DEF StartError, Stage, Admitted, InApp, RequestInv, ServingTypeOK
      <4>2. Contract!Report(r)
        BY <2>2, <3>1, <3>8, <4>1, StageStays DEF StartError, Contract!Report
      <4> QED BY <4>2 DEF Contract!Next
    <3> QED BY <2>2, <3>2, <3>3, <3>4, <3>5, <3>6, <3>7, <3>8 DEF Step
  <2> QED BY <2>1, <2>2 DEF ServingNext
<1> QED
  BY <1>1, <1>2, ServingInvariant, PTL DEF ServingSpec, KeepsContract, Contract!Spec
=============================================================================
