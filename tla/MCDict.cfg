\* Five keys and two values: every shape of the tables that a move can leave,
\* every answer against the abstract map, and a cron that runs for ever.
CONSTANTS
  Key = {"a", "b", "c", "d", "e"}
  Val = {v1, v2}
  NoVal = NoVal
  Hash <- MCHash
  Counts = {2}
  CronSteps = 2
SPECIFICATION FairSpec
INVARIANTS
  TypeOK
  UsedCountsEntries
  NoTwinEntries
  EntriesFindable
  RehashInBounds
PROPERTIES
  RehashAdvances
  ImplementsKeyMap
  RehashCompletes
