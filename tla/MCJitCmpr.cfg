CONSTANTS
  Quarter = 4
  Programs <- MCPrograms
  Opaque <- MCOpaque
  Garbage <- MCGarbage
  MaxCalls = 2
  MaxRuns = 1
SPECIFICATION Spec
PROPERTIES
  ComparesVariables
CHECK_DEADLOCK FALSE
