CONSTANTS
  Producers = {p1, p2}
  Stoppers = {s1, s2}
  BufferSize = 2
  MaxTasks = 4
SPECIFICATION FairSpec
INVARIANTS
  QueueTypeOK
  NoSendOnClosed
  NothingLost
  StopDrains
PROPERTIES
  ImplementsWriteLog
  StopReturns
CHECK_DEADLOCK FALSE
