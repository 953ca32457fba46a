SPECIFICATION BootstrapSpec
CONSTANTS
  MaxBuilds = 3
  MaxSpans = 2
  Faults = {"none", "tracer", "meter", "app"}
  DirectBuilds = FALSE
  CacheResets = FALSE
INVARIANTS
  BootstrapTypeOK
  NeverSilentlyUntraced
