\* Every script, cut in reads in every way.
CONSTANTS
  Nil = Nil
  NotInt = NotInt
  IntMax = 127
  MaxElements = 100
  Byte <- MCByte
  Upper <- MCUpper
  Scripts <- MCScripts
  Patterns <- MCPatterns
SPECIFICATION Spec
CHECK_DEADLOCK FALSE
INVARIANTS
  TypeOK
  ExecutedInOrder
  SequentialService
  VerdictFinal
  
  KeysExact
PROPERTIES
  ChangesCounted
