CONSTANTS
  Continues <- MCContinues
  TypeName <- MCTypeName
  Alphabet <- MCAlphabet
  GarbageLines <- MCGarbageLines
  EntryFirst = TRUE
  Asserts = TRUE
SPECIFICATION Spec
INVARIANTS
  TypeOK
  LocalsDieTogether
  StorageApart
  LocalsStayLocal
  BuiltResolves
  OneMeaning
  FieldsApart
  MethodsSeeTheirOwn
\* A build ends.
CHECK_DEADLOCK FALSE
