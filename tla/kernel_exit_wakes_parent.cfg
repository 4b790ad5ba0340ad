SPECIFICATION Spec
CONSTANTS
  MAX_PROCESSES = 2
  MAX_FDS = 3
  UserFds = {1, 2}
  MAX_PIPES = 1
  PIPE_BUF_SIZE = 2
  Relock = FALSE
  MaxPid = 3
  MaxIO = 1
  MaxLeaks = 0
  NoFd = NoFd
  PlainFd = PlainFd
  NoPipe = NoPipe
  NoProc = NoProc
INVARIANT NeverHangs
CHECK_DEADLOCK FALSE
