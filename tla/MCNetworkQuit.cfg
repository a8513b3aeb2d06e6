\* A connection that is to close once its replies are out.
CONSTANTS
  c1 = c1
  c2 = c2
  Client = {c1, c2}
  Script <- MCScript
  Fd = {3, 4}
  Listen = 0
  SendRoom = 1
SPECIFICATION FairSpec
CHECK_DEADLOCK FALSE
PROPERTIES
  WriteOnlyCloses
