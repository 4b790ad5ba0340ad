SPECIFICATION Spec
CONSTANTS
  MAX_PROCESSES = 2
  MaxPid = 2
  CallMod = 3
  NoProc = NoProc
  USER_IMAGE_BASE = 64
  USER_IMAGE_LIMIT = 96
  WORD = 2
  HEADER = 4
  PHENT = 2
  GET_ARG_MAX = 2
  Shell <- MCShell
  Programs <- MCPrograms
INVARIANT ReturnValuePreserved
