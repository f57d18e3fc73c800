CONSTANTS
  Value <- MCValue
  Wild <- MCWild
  Narrow <- LowByte
  MaxElements = 3
  AllocFails = FALSE
  Junk = Junk
SPECIFICATION Spec
PROPERTIES
  PopReturnsTop
CHECK_DEADLOCK FALSE
