\* Two saves at a time, no failure.
CONSTANTS
  Chunks = 2
  MaxVersion = 3
  Events = {"overlap"}
SPECIFICATION Spec
INVARIANTS
  DumpNeverPartial
