SPECIFICATION BootstrapSpec
CONSTANTS
  MaxBuilds = 2
  MaxSpans = 1
  Faults = {"none"}
  DirectBuilds = TRUE
  CacheResets = FALSE
PROPERTIES
  ShutdownFlushesInstalled
