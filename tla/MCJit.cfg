CONSTANTS
  Quarter = 4
  Programs <- MCPrograms
  Opaque <- MCOpaque
  Garbage <- MCGarbage
  MaxCalls = 2
  MaxRuns = 2
SPECIFICATION Spec
INVARIANTS
  TypeOK
  JumpsLand
  HandlersOnTheirLine
  AlignedAtCalls
  StacksAgree
PROPERTIES
  ImplementsLines
  RunEnds
\* A processor that is given no more scripts, or has ended, has no further step.
CHECK_DEADLOCK FALSE
