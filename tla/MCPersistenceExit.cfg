\* No failure and one save at a time.
CONSTANTS
  Chunks = 2
  MaxVersion = 3
  Events = {}
SPECIFICATION Spec
INVARIANTS
  CleanExitKeepsWrites
