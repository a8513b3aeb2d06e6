\* Two clients on two descriptors, and a send buffer that one reply fills.
CONSTANTS
  c1 = c1
  c2 = c2
  Client = {c1, c2}
  Script <- MCScript
  Fd = {3, 4}
  Listen = 0
  SendRoom = 1
SPECIFICATION FairSpec
CHECK_DEADLOCK FALSE
INVARIANTS
  TypeOK
  RegisteredIsConnected
  PendingAsksForWritable
  NothingSkipped
  RepliesInOrder
PROPERTIES
  CommandsAnswered
  BacklogAccepted
