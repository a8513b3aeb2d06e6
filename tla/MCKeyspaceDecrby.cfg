\* The smallest history that shows what the run is about.
CONSTANTS
  Key = {k1, k2}
  Nil = Nil
  NotInt = NotInt
  SampleSize = 1
  IntMax = 3
  Second = 2
  Text <- MCText
  Parse <- MCParse
  Decimal <- Numerals
  Concat <- MCConcat
  Size <- MCSize
  Values = {"x", "02", "2"}
  Amounts <- MCAmounts
  Delays <- MCDelays
  Dates <- MCDates
  MaxTime = 1
SPECIFICATION Spec
SYMMETRY Symmetry
INVARIANTS
  DecrbyExact
