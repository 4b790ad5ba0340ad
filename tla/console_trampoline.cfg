SPECIFICATION ConsoleSpec
CONSTANTS
  FifoSize = 2
  MinCap = 2
  MaxTyped = 3
INVARIANT EveryTrapTellsMode
CHECK_DEADLOCK FALSE
