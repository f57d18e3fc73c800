CONSTANTS
  Programs <- MCPrograms
  Structs <- MCStructs
  Reg <- MCReg
  Address <- MCAddress
  Strings <- MCStrings
  Garbage <- MCGarbage
  Foreign <- MCForeign
  WildFrames <- MCWildFrames
  MaxData = 3
  MaxCalls = 2
  AllocFails = FALSE
  PoolSize = 12
SPECIFICATION FairSpec
INVARIANTS
  TypeOK
  ControlFollowsCalls
  MethodsKeepTheirObject
PROPERTIES
  ThrowsLoseOperands
  EventuallyEnds
\* A script that has ended has no further step.
CHECK_DEADLOCK FALSE
