SPECIFICATION ShellFairSpec
CONSTANTS
  MAX_PROCESSES = 4
  MAX_FDS = 8
  UserFds = {}
  MAX_PIPES = 2
  PIPE_BUF_SIZE = 3
  Relock = TRUE
  MaxPid = 7
  MaxIO = 3
  MaxLeaks = 1
  NoFd = NoFd
  PlainFd = PlainFd
  NoPipe = NoPipe
  NoProc = NoProc
  Lines <- MCLines
  MaxLines = 2
  FileSizes = {0, 3}
  MAX_ARGS = 3
  MAX_STAGES = 3
INVARIANTS
  StdioRestored
  ChildrenAccountedFor
  PromptIsClean
  NoByteLost
  WaitersMustWait
  BlockedWillBeWoken
PROPERTIES PromptReturns ParsedAsMeant
