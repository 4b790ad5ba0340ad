SPECIFICATION FairSpec
CONSTANTS
  MAX_PROCESSES = 3
  MaxPid = 3
  CallMod = 2
  NoProc = NoProc
  USER_IMAGE_BASE = 64
  USER_IMAGE_LIMIT = 96
  WORD = 2
  HEADER = 4
  PHENT = 2
  GET_ARG_MAX = 2
  Shell <- MCShell
  Programs <- MCPrograms
INVARIANTS
  TypeOK
  CpuOwner
  
  
  ProgramArrives
 
