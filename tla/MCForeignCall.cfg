CONSTANTS
  Quarter = 4
  Commands = {"void", "dword", "qword"}
  Calls <- MCCalls
  Target <- MCTarget
  Unknown = Unknown
SPECIFICATION Spec
INVARIANTS
  TypeOK
  ComesHome
  ResultsAreLost
  ParametersArrive
\* The code ends when it returns or goes astray.
CHECK_DEADLOCK FALSE
