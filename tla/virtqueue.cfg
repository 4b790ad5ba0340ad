SPECIFICATION FairSpec
CONSTANTS
  Capacity = 2
  Data = {"x", "y"}
  QUEUE_SIZE = 4
  QueueMaxes = {0, 2, 3, 8}
  IndexMod = 8
INVARIANTS TypeOK IndicesAgree
PROPERTIES MemoryLent IsBlockDevice RequestReturns
CHECK_DEADLOCK FALSE
