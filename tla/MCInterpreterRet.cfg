CONSTANTS
  Programs <- MCPrograms
  Structs <- MCStructs
  Reg <- MCReg
  Address <- MCAddress
  Strings <- MCStrings
  Garbage <- MCGarbage
  Foreign <- MCForeign
  WildFrames <- MCWildFrames
  MaxData = 3
  MaxCalls = 2
  AllocFails = FALSE
  PoolSize = 12
SPECIFICATION Spec
PROPERTIES
  RetResumesAfterCall
CHECK_DEADLOCK FALSE
