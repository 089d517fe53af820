CONSTANTS
  Sizes = {1}
  SndBuf = 1
  CHUNK_SIZE = 2
  Batch = 3
  SoftErrors = FALSE
  MaxWritten = 0
  MaxArrived = 4
  MaxQueued = 3
SPECIFICATION Spec
INVARIANT BatchBounded
