SPECIFICATION Spec
CONSTANTS
  MaxFrames = 5
  MinSilence = 3
  MinFlush = 3
  StaleAfter = 3
  ChunkRows = {1, 2}
  MaxChunks = 6
  IdleCap = 4
INVARIANT SilenceIsFull
CHECK_DEADLOCK FALSE
