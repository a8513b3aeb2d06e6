\* A deadline that passes between the save and the load.
CONSTANTS
  Nil = Nil
  NotInt = NotInt
  SampleSize = 1
  IntMax = 7
  Text <- MCText
  Parse <- MCParse
  Decimal <- MCDecimal
  Key <- MCKey
  Values <- MCValues
  Deadlines = {1}
  Length <- MCLength
  U32Max = 65535
  EmptyText <- MCEmpty
  Noise <- MCNoise
  MaxTime = 2
  MaxWrites = 2
SPECIFICATION Spec
INVARIANTS
  ExpiredDiscarded
