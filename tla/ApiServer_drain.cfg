SPECIFICATION ServerSpec
CONSTANTS
  MaxBuilds = 1
  MaxSpans = 2
  Faults = {"none"}
  DirectBuilds = FALSE
  CacheResets = FALSE
  Requests = {r1, r2}
INVARIANTS
  DrainReportsNotReady
CHECK_DEADLOCK FALSE
