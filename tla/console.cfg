SPECIFICATION FairConsoleSpec
CONSTANTS
  FifoSize = 2
  MinCap = 2
  MaxTyped = 5
INVARIANTS
  ConsoleTypeOK
  InputInOrder
  StacksKeptApart
PROPERTY InputDelivered
CHECK_DEADLOCK FALSE
