\* Two keys, one of them empty; four values; deadlines that pass during the
\* save, after it, and at the end of i64.
CONSTANTS
  Nil = Nil
  NotInt = NotInt
  SampleSize = 1
  IntMax = 7
  Text <- MCText
  Parse <- MCParse
  Decimal <- MCDecimal
  Key <- MCKey
  Values <- MCValues
  Deadlines <- MCDeadlines
  Length <- MCLength
  U32Max = 65535
  EmptyText <- MCEmpty
  Noise <- MCNoise
  MaxTime = 2
  MaxWrites = 2
SPECIFICATION Spec
INVARIANTS
  TypeOK
  SnapshotComplete
  DeadlinesKept
PROPERTIES
  RestartAllOrNothing
