SPECIFICATION OpenSpec
CONSTANTS
  Paths <- MCPaths
  Contents <- MCContents
  MAX_FILES = 1
  Handles = {h1, h2}
  NoFile = NoFile
  Modes <- MCModes
  Buffers <- MCBuffers
  MaxRead = 2
  MaxLen = 2
  Bytes = {x, y}
INVARIANTS TypeOK AppendsAddUp ReadsEverythingOnce
PROPERTY FailureChangesNothing
SYMMETRY Symmetry
