SPECIFICATION DependenciesSpec
CONSTANTS
  Unset = Unset
  Databases <- HarmlessDatabases
  Secrets <- HarmlessSecrets
  MaxEdits = 2
INVARIANTS
  DependenciesTypeOK
  PassMeansServing
  ReachesConfigured
PROPERTIES
  CheckPredictsMigration
  CheckEnds
CHECK_DEADLOCK FALSE
