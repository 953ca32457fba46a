SPECIFICATION CiSpec
CONSTANTS
  MaxTests = 3
  MinTests <- MCMinTests
INVARIANTS
  CiTypeOK
  SuccessMeansTested
  EveryGateBlocks
  TornDown
PROPERTIES
  RunEnds
CHECK_DEADLOCK FALSE
