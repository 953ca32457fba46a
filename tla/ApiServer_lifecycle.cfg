SPECIFICATION ServerSpec
CONSTANTS
  MaxBuilds = 2
  MaxSpans = 3
  Faults = {"none", "tracer", "meter", "app"}
  DirectBuilds = FALSE
  CacheResets = FALSE
  Requests = {r1, r2, r3}
INVARIANTS
  ServerTypeOK
  GracefulStopLosesNothing
  LossExplained
  FailureIsVisible
PROPERTIES
  AcceptedIsAnswered
  StopEnds
  ShutdownFlushesInstalled
CHECK_DEADLOCK FALSE
