SPECIFICATION Spec
CONSTANTS
  Engines = {"ASR", "LIP"}
  MaxFrames = 4
  MinSilence = 2
  MinFlush = 2
  StaleAfter = 2
  MinAsr = 2
  FaceWindow = 2
  ChunkRows = {1, 2}
  MaxChunks = 4
  MaxFaces = 4
  IdleCap = 2
INVARIANTS
  TypeOK
  OneLivePartial
  LipMatchesPartial
  SpeechConserved
  BufferIsNewest
PROPERTIES
  SilentAfterTeardown
  Transcript
CHECK_DEADLOCK FALSE
