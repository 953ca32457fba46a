SPECIFICATION DependenciesSpec
CONSTANTS
  Unset = Unset
  Databases <- MarkedDatabases
  Secrets <- MarkedSecrets
  MaxEdits = 0
INVARIANTS
  ReachesConfigured
CHECK_DEADLOCK FALSE
