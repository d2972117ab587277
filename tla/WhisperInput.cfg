SPECIFICATION Spec
CONSTANTS
  MaxFrames = 5
  MinSilence = 3
  MinFlush = 3
  StaleAfter = 3
  ChunkRows = {1, 2}
  MaxChunks = 6
  IdleCap = 4
  NMels = 2
  MinAsr = 3
  Window = 6
INVARIANTS
  TypeOK
  SpeechConserved
  NeverSpansSilence
  WhisperHearsBatch
CHECK_DEADLOCK FALSE
