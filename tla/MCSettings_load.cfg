SPECIFICATION SettingsSpec
CONSTANTS
  Unset = Unset
  Malformed = Malformed
  Leaves <- MCLeaves
  Required <- MCRequired
  Default <- MCDefault
  Values <- MCValues
  Floors <- WithFloors
  Overrides <- AllOverrides
  Environs <- AllEnvirons
  Dotenvs <- AllDotenvs
  EnvWholes <- AllEnvWholes
  DotenvWholes <- AllDotenvWholes
  Bares <- NoBares
  EnvStrays <- EnvironOnly
  DotenvStrays <- UnknownOnly
INVARIANTS
  SettingsTypeOK
  LoadsAsDocumented
CHECK_DEADLOCK FALSE
