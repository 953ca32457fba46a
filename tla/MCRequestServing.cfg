SPECIFICATION ServingSpec
CONSTANTS
  r1 = r1
  r2 = r2
  caller = caller
  enter1 = enter1
  enter2 = enter2
  error1 = error1
  error2 = error2
  NoId = NoId
  Tainted = Tainted
  Requests <- MCRequests
  CanonicalIds <- MCCanonicalIds
  InboundValues <- MCInboundValues
  fresh <- MCFresh
  MaxLogs = 1
INVARIANTS
  ServingTypeOK
  OneIdentifier
  ContextRestored
  FailureIsReported
PROPERTIES
  NeverRelabelled
  RequestsEnd
  KeepsContract
CHECK_DEADLOCK FALSE
