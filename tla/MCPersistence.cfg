\* Crashes and disk errors, but one save at a time, which comes to its end.
CONSTANTS
  Chunks = 2
  MaxVersion = 3
  Events = {"disk_error", "crash"}
SPECIFICATION FairSpec
INVARIANTS
  TypeOK
  DumpNeverPartial
  SavedStaysSaved
PROPERTIES
  BgsaveEnds
