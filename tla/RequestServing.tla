----------------------------- MODULE RequestServing -----------------------------
(***************************************************************************)
(* One HTTP request inside the API process, through the layers create_app  *)
(* stacks: OpenTelemetry's server span, Starlette's server-error boundary  *)
(* with _handle_unexpected_error, CorrelationIdMiddleware, the endpoint.   *)
(* Requests run as tasks of one event loop: each action is the code        *)
(* between two suspension points of one task.  What leaves the layers is   *)
(* outside: uvicorn logs the exception raised again a second time, in a    *)
(* record of its own that carries no identifier.                           *)
(***************************************************************************)
EXTENDS CorrelationIds, Sequences, FiniteSets

CONSTANTS Requests,      \* requests a server task is started for
          InboundValues, \* what their X-Correlation-ID header may hold
          fresh,         \* fresh[r]: what generate_correlation_id would return
          MaxLogs        \* bound: records an endpoint makes

\* A request may need a generated identifier at its entry and for its error.
Generated == [entry : CanonicalIds, error : CanonicalIds]

\* uuid4 never returns a text twice, nor one a caller sent.
ASSUME ServingAssumption ==
  /\ \A v \in InboundValues : v \in Inbound /\ WellFormed(v)
  /\ MaxLogs \in Nat
  /\ fresh \in [Requests -> Generated]
  /\ \A r, q \in Requests : /\ fresh[r].entry # fresh[q].error
                             /\ fresh[r].entry = fresh[q].entry => r = q
  /\ \A v \in InboundValues, r \in Requests : v.lead # fresh[r].entry

VARIABLES
  pc,        \* where the task of a request is suspended
  header,    \* the X-Correlation-ID header of a request
  inherited, \* the context variable as the task found it
  context,   \* _correlation_id in the context of the task
  scopeId,   \* scope["knowhub.correlation_id"]
  recording, \* the server span is sampled
  spanId,    \* its attribute knowhub.correlation_id
  spanError, \* it is marked failed
  records,   \* KnowHub's log records of the task: <<correlation_id, level>>
  started    \* the http.response.start messages sent: <<status, header>>

servingVars == <<pc, header, inherited, context, scopeId, recording, spanId,
                 spanError, records, started>>

\* new -> entering -> app -> streaming -> replied -> done, the error path failing
\* -> reporting -> done, and cancelled.
Stages == {"new", "entering", "app", "streaming", "replied", "failing", "reporting",
           "done", "cancelled"}

Texts == CanonicalIds \cup {NoId, Tainted}

\* Every variable keeps its type.
ServingTypeOK ==
  /\ pc \in [Requests -> Stages]
  /\ header \in [Requests -> InboundValues]
  /\ inherited \in [Requests -> Texts]
  /\ context \in [Requests -> Texts]
  /\ scopeId \in [Requests -> Texts]
  /\ recording \in [Requests -> BOOLEAN]
  /\ spanId \in [Requests -> Texts]
  /\ spanError \in [Requests -> BOOLEAN]
  /\ records \in [Requests -> Seq(Texts \X {"info", "error"})]
  /\ started \in [Requests -> Seq({"answer", "error"} \X Texts)]

NoneOf == [r \in Requests |-> NoId]

ServingInit ==
  /\ pc = [r \in Requests |-> "new"]
  /\ header \in [Requests -> InboundValues]
  /\ inherited = NoneOf /\ context = NoneOf
  /\ scopeId = NoneOf
  /\ recording \in [Requests -> BOOLEAN]
  /\ spanId = NoneOf
  /\ spanError = [r \in Requests |-> FALSE]
  /\ records = [r \in Requests |-> <<>>]
  /\ started = [r \in Requests |-> <<>>]

Goto(r, stage) == pc' = [pc EXCEPT ![r] = stage]

-----------------------------------------------------------------------------
\* The server starts a task for request r.  It runs in a copy of the context it
\* is created in: the server's, or that of the request before it on the same
\* connection when it is the end of that one's response that reads the next.
Arrive(r) ==
  /\ pc[r] = "new" /\ Goto(r, "entering")
  /\ \E i \in {NoId} \cup {context[q] : q \in {p \in Requests : pc[p] = "replied"}} :
       /\ inherited' = [inherited EXCEPT ![r] = i]
       /\ context' = [context EXCEPT ![r] = i]
  /\ UNCHANGED <<header, scopeId, recording, spanId, spanError, records, started>>

\* Mutant: a request that finds an identifier in its context keeps it.
EnterKeeping(r) ==
  LET i == IF context[r] # NoId THEN context[r] ELSE Coerce(header[r], fresh[r].entry)
  IN  /\ pc[r] = "entering" /\ Goto(r, "app")
      /\ scopeId' = [scopeId EXCEPT ![r] = Coerce(header[r], fresh[r].entry)]
      /\ context' = [context EXCEPT ![r] = i]
      /\ spanId' = IF recording[r] THEN [spanId EXCEPT ![r] = i] ELSE spanId
      /\ UNCHANGED <<header, inherited, recording, spanError, records, started>>

\* CorrelationIdMiddleware.__call__ up to the application it wraps.
Enter(r) ==
  LET i == Coerce(header[r], fresh[r].entry)
  IN  /\ pc[r] = "entering" /\ Goto(r, "app")
      /\ scopeId' = [scopeId EXCEPT ![r] = i]
      /\ context' = [context EXCEPT ![r] = i]
      /\ spanId' = IF recording[r] THEN [spanId EXCEPT ![r] = i] ELSE spanId
      /\ UNCHANGED <<header, inherited, recording, spanError, records, started>>

InApp(r) == pc[r] \in {"app", "streaming", "replied"}

\* Code under the middleware logs; CorrelationFilter stamps the record.
Log(r) ==
  /\ InApp(r) /\ Len(records[r]) < MaxLogs
  /\ records' = [records EXCEPT ![r] = Append(@, <<context[r], "info">>)]
  /\ UNCHANGED <<pc, header, inherited, context, scopeId, recording, spanId,
                 spanError, started>>

\* The endpoint's response begins: send_with_correlation labels it with the
\* identifier its closure holds, which is the one on the scope.
StartResponse(r) ==
  /\ pc[r] = "app" /\ Goto(r, "streaming")
  /\ started' = [started EXCEPT ![r] = Append(@, <<"answer", scopeId[r]>>)]
  /\ UNCHANGED <<header, inherited, context, scopeId, recording, spanId, spanError, records>>

\* Its last body message is sent.
EndResponse(r) ==
  /\ pc[r] = "streaming" /\ Goto(r, "replied")
  /\ UNCHANGED <<header, inherited, context, scopeId, recording, spanId,
                 spanError, records, started>>

-----------------------------------------------------------------------------
\* The finally clause of the middleware: token.var.reset(token).
ResetContext(r) == context' = [context EXCEPT ![r] = inherited[r]]

Return(r) ==
  /\ pc[r] = "replied" /\ Goto(r, "done")
  /\ ResetContext(r)
  /\ UNCHANGED <<header, inherited, scopeId, recording, spanId, spanError, records, started>>

\* Mutant: the record is made in the context as the middleware left it.
ErrorIdUnbound(r) == inherited[r]

\* The identifier the record of an unhandled error carries: the one on the
\* scope, coerced again and bound for the length of the call.
ErrorId(r) == Coerce(TextOf(scopeId[r]), fresh[r].error)

\* Mutant: the handler records the failure, but only on the span.
RaiseUnlogged(r) ==
  /\ InApp(r) /\ Goto(r, IF started[r] = <<>> THEN "failing" ELSE "done")
  /\ ResetContext(r)
  /\ spanError' = IF recording[r] THEN [spanError EXCEPT ![r] = TRUE] ELSE spanError
  /\ UNCHANGED <<header, inherited, scopeId, recording, spanId, records, started>>

\* Mutant: the server-error boundary answers even when a response has begun.
RaiseAnswering(r) ==
  /\ InApp(r) /\ Goto(r, "failing")
  /\ ResetContext(r)
  /\ spanError' = IF recording[r] THEN [spanError EXCEPT ![r] = TRUE] ELSE spanError
  /\ records' = [records EXCEPT ![r] = Append(@, <<ErrorId(r), "error">>)]
  /\ UNCHANGED <<header, inherited, scopeId, recording, spanId, started>>

\* Mutant: the context is restored only when the application returns.
RaiseUnrestored(r) ==
  /\ InApp(r) /\ Goto(r, IF started[r] = <<>> THEN "failing" ELSE "done")
  /\ spanError' = IF recording[r] THEN [spanError EXCEPT ![r] = TRUE] ELSE spanError
  /\ records' = [records EXCEPT ![r] = Append(@, <<ErrorId(r), "error">>)]
  /\ UNCHANGED <<header, inherited, context, scopeId, recording, spanId, started>>

\* Mutant: the test for a response already begun is the wrong way round.
RaiseInverted(r) ==
  /\ InApp(r) /\ Goto(r, IF started[r] # <<>> THEN "failing" ELSE "done")
  /\ ResetContext(r)
  /\ spanError' = IF recording[r] THEN [spanError EXCEPT ![r] = TRUE] ELSE spanError
  /\ records' = [records EXCEPT ![r] = Append(@, <<ErrorId(r), "error">>)]
  /\ UNCHANGED <<header, inherited, scopeId, recording, spanId, started>>

\* An exception leaves the endpoint.  Without a suspension point it passes the
\* finally clause, reaches the server-error boundary and _handle_unexpected_error
\* there; the boundary answers only if no response has begun, and raises again.
Raise(r) ==
  /\ InApp(r) /\ Goto(r, IF started[r] = <<>> THEN "failing" ELSE "done")
  /\ ResetContext(r)
  /\ spanError' = IF recording[r] THEN [spanError EXCEPT ![r] = TRUE] ELSE spanError
  /\ records' = [records EXCEPT ![r] = Append(@, <<ErrorId(r), "error">>)]
  /\ UNCHANGED <<header, inherited, scopeId, recording, spanId, started>>

\* The coarse 500, labelled from the scope.
StartError(r) ==
  /\ pc[r] = "failing" /\ Goto(r, "reporting")
  /\ started' = [started EXCEPT ![r] = Append(@, <<"error", scopeId[r]>>)]
  /\ UNCHANGED <<header, inherited, context, scopeId, recording, spanId,
                 spanError, records>>

EndError(r) ==
  /\ pc[r] = "reporting" /\ Goto(r, "done")
  /\ UNCHANGED <<header, inherited, context, scopeId, recording, spanId,
                 spanError, records, started>>

\* The task is cancelled where it is suspended.  CancelledError is no Exception:
\* the finally clause runs, the error handler does not.
Cancel(r) ==
  /\ pc[r] \in {"app", "streaming", "replied", "failing", "reporting"}
  /\ Goto(r, "cancelled")
  /\ ResetContext(r)
  /\ UNCHANGED <<header, inherited, scopeId, recording, spanId, spanError,
                 records, started>>

Step(r) == \/ Arrive(r) \/ Enter(r) \/ Log(r) \/ StartResponse(r) \/ EndResponse(r)
           \/ Return(r) \/ Raise(r) \/ StartError(r) \/ EndError(r) \/ Cancel(r)

ServingNext == \E r \in Requests : Step(r)

\* The event loop resumes a task that can go on; endpoints answer or raise.
ServingFairness ==
  \A r \in Requests :
    WF_servingVars(\/ Enter(r) \/ StartResponse(r) \/ EndResponse(r) \/ Return(r)
                   \/ StartError(r) \/ EndError(r))

ServingSpec == ServingInit /\ [][ServingNext]_servingVars /\ ServingFairness

-----------------------------------------------------------------------------
Admitted(r) == pc[r] \notin {"new", "entering"}
Errors(r)   == {i \in 1 .. Len(records[r]) : records[r][i][2] = "error"}

\* What ties a caller's report to the operator's telemetry: from admission on,
\* every record KnowHub makes of a request, its response and its sampled span
\* carry one identifier.  It is canonical whatever the caller sent, and it is the caller's
\* when that is canonical; an unhandled error, recorded outside the middleware
\* and on a task that inherited another request's context, is no exception.
OneIdentifier ==
  \A r \in Requests : Admitted(r) =>
    /\ scopeId[r] \in CanonicalIds
    /\ TextOf(scopeId[r]) = header[r] \/ scopeId[r] = fresh[r].entry
    /\ \A c \in CanonicalIds : header[r] = TextOf(c) => scopeId[r] = c
    /\ \A i \in 1 .. Len(records[r]) : records[r][i][1] = scopeId[r]
    /\ \A i \in 1 .. Len(started[r]) : started[r][i][2] = scopeId[r]
    /\ recording[r] => spanId[r] = scopeId[r]

\* The middleware leaves the context as it found it, on every way out: what runs
\* in the task afterwards sees what was bound before the request, and what runs
\* under the middleware sees the request's identifier.
ContextRestored ==
  \A r \in Requests : context[r] = IF InApp(r) THEN scopeId[r] ELSE inherited[r]

\* A caller is told of an unhandled error only when the operator is: by exactly one
\* error record of _handle_unexpected_error, and a failed span where one is
\* recorded; and the handler records no request as failed twice.
FailureIsReported ==
  \A r \in Requests :
    /\ Cardinality(Errors(r)) <= 1
    /\ (\E i \in 1 .. Len(started[r]) : started[r][i][1] = "error") \/ spanError[r] =>
         /\ Cardinality(Errors(r)) = 1
         /\ recording[r] => spanError[r]

\* Once a response has begun nothing begins another: an error that comes later is
\* recorded, and the answer stays what it was.
NeverRelabelled ==
  [][\A r \in Requests : started[r] # <<>> => started'[r] = started[r]]_servingVars

\* Every request that enters the application leaves it, and unless its task is
\* cancelled it leaves it answered: one response was begun, the endpoint's or, when
\* that failed before it said anything, the coarse 500.
Answered(r) == pc[r] = "done" /\ Len(started[r]) = 1

RequestsEnd ==
  \A r \in Requests : pc[r] = "entering" ~> Answered(r) \/ pc[r] = "cancelled"

\* The stack keeps the contract.
Stage(r) == IF ~Admitted(r) THEN "waiting"
            ELSE IF InApp(r) THEN "open"
            ELSE IF pc[r] \in {"done", "cancelled"} THEN "closed" ELSE "failing"

Contract == INSTANCE RequestContract
              WITH Identifiers <- CanonicalIds,
                   stage <- [r \in Requests |-> Stage(r)],
                   id <- scopeId,
                   told <- started

\* Admission, records, response and failure of every request follow
\* RequestContract, whatever the order in which the layers do their work.
KeepsContract == Contract!Spec
=============================================================================
