SPECIFICATION SettingsSpec
CONSTANTS
  Unset = Unset
  Malformed = Malformed
  Leaves <- MCLeaves
  Required <- MCRequired
  Default <- MCDefault
  Values <- MCValues
  Floors <- NoFloors
  Overrides <- AllOverrides
  Environs <- AllEnvirons
  Dotenvs <- AllDotenvs
  EnvWholes <- AllEnvWholes
  DotenvWholes <- NoWholes
  Bares <- NoBares
  EnvStrays <- NoStrays
  DotenvStrays <- NoStrays
INVARIANTS
  FailsAsConfigurationError
CHECK_DEADLOCK FALSE
