CONSTANTS
  CONTROL = "end"
  NameOrder <- MCNames
  Scripts <- MCScripts
  Dlls = {"d"}
  Offered = {"a", "b"}
  Misread <- MCMisread
  Mode = "log"
  PoolSize = 5
  MaxOps = 4
SPECIFICATION Spec
INVARIANTS
  TypeOK
  LogTellsChain
  TextsTell
  LoggedWhereAsked
  CallsByName
  LoadedIsCompiled
\* The embedding program ends after MaxOps calls.
CHECK_DEADLOCK FALSE
