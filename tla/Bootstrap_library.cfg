SPECIFICATION BootstrapSpec
CONSTANTS
  MaxBuilds = 2
  MaxSpans = 1
  Faults = {"none", "tracer", "meter", "app"}
  DirectBuilds = TRUE
  CacheResets = TRUE
INVARIANTS
  NoHalfConfiguredApp
PROPERTIES
  OnlyAStopSilences
