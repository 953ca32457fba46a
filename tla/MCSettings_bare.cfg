SPECIFICATION SettingsSpec
CONSTANTS
  Unset = Unset
  Malformed = Malformed
  Leaves <- MCLeaves
  Required <- MCRequired
  Default <- MCDefault
  Values <- MCValues
  Floors <- NoFloors
  Overrides <- AllOverrides
  Environs <- AllEnvirons
  Dotenvs <- AllDotenvs
  EnvWholes <- NoWholes
  DotenvWholes <- NoWholes
  Bares <- PortBare
  EnvStrays <- NoStrays
  DotenvStrays <- NoStrays
INVARIANTS
  OutsideIgnored
CHECK_DEADLOCK FALSE
