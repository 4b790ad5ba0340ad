SPECIFICATION Spec
CONSTANTS
  MAX_PROCESSES = 2
  MAX_FDS = 5
  UserFds = {3, 4}
  MAX_PIPES = 1
  PIPE_BUF_SIZE = 2
  Relock = FALSE
  MaxPid = 3
  MaxIO = 1
  MaxLeaks = 1
  NoFd = NoFd
  PlainFd = PlainFd
  NoPipe = NoPipe
  NoProc = NoProc
INVARIANT ReaderSeesEof
CHECK_DEADLOCK FALSE
