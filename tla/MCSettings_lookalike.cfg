SPECIFICATION SettingsSpec
CONSTANTS
  Unset = Unset
  Malformed = Malformed
  Leaves <- MCLeaves
  Required <- MCRequired
  Default <- MCDefault
  Values <- MCValues
  Floors <- NoFloors
  Overrides <- AllOverrides
  Environs <- AllEnvirons
  Dotenvs <- AllDotenvs
  EnvWholes <- NoWholes
  DotenvWholes <- NoWholes
  Bares <- NoBares
  EnvStrays <- NoStrays
  DotenvStrays <- LookalikeOnly
INVARIANTS
  MisspelledNeverIgnored
CHECK_DEADLOCK FALSE
