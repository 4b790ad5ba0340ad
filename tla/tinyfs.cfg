SPECIFICATION MCSpec
CONSTANTS
  Names = {a, d}
  MaxDepth = 3
  Bytes = {"x"}
  Lengths = {0, 2}
  TOTAL_BLOCKS = 5
  MAX_FILES = 1
  MaxCrashes = 1
  CrashDepth = 2
INVARIANTS TypeOK NoSharedBlocks MemoryMatchesDisk
PROPERTY IsFileTree
SYMMETRY Symmetry
