SPECIFICATION RingSpec
CONSTANTS
  Byte = {b0, b1}
  Zero = b0
  PIPE_BUF_SIZE = 4
  MaxIO = 4
INVARIANT RingTypeOK
PROPERTY IsPipe
CHECK_DEADLOCK FALSE
