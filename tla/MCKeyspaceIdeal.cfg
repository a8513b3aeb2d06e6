\* Every command against the map whose entries vanish at their deadlines, and
\* a cron that finds the keys nobody asks for.
CONSTANTS
  Key = {k1, k2}
  Nil = Nil
  NotInt = NotInt
  SampleSize = 1
  IntMax = 3
  Second = 2
  Text <- MCText
  Parse <- MCParse
  Decimal <- Numerals
  Concat <- MCConcat
  Size <- MCSize
  Values = {"x"}
  Amounts <- MCAmounts
  Delays <- MCFewDelays
  Dates <- MCDates
  MaxTime = 1
SPECIFICATION FairSpec
PROPERTIES
  ImplementsExpiringMap
  ExpiredKeysGo
