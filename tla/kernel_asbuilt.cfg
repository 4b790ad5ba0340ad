SPECIFICATION Spec
CONSTANTS
  MAX_PROCESSES = 2
  MAX_FDS = 3
  UserFds = {1, 2}
  MAX_PIPES = 1
  PIPE_BUF_SIZE = 3
  Relock = FALSE
  MaxPid = 3
  MaxIO = 2
  MaxLeaks = 1
  NoFd = NoFd
  PlainFd = PlainFd
  NoPipe = NoPipe
  NoProc = NoProc
INVARIANTS
  TypeOK
  FdsNeverDangle
  RefcountExact
  CpuOwner
PROPERTIES
  
  IsProcesses
CHECK_DEADLOCK FALSE
