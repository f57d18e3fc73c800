CONSTANTS
  Continues <- MCContinues
  TypeName <- MCTypeName
  Alphabet <- MCAlphabet
  GarbageLines <- MCGarbageLines
  EntryFirst = TRUE
  Asserts = TRUE
SPECIFICATION Spec
PROPERTIES
  VariablesAreFound
CHECK_DEADLOCK FALSE
