\* Four values and a bound of three elements.
CONSTANTS
  Value <- MCValue
  Wild <- MCWild
  Narrow <- LowByte
  MaxElements = 3
  AllocFails = TRUE
  Junk = Junk
SPECIFICATION Spec
INVARIANTS
  TypeOK
  CountsAgree
PROPERTIES
  BrokenForever
  ImplementsLifo
\* The client may stop calling: the stack is destroyed.
CHECK_DEADLOCK FALSE
