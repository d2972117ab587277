SPECIFICATION Spec
CONSTANTS
  Engines = {"ASR", "LIP"}
  MaxFrames = 4
  MinSilence = 2
  MinFlush = 2
  StaleAfter = 2
  MinAsr = 2
  FaceWindow = 2
  ChunkRows = {1, 2}
  MaxChunks = 3
  MaxFaces = 2
  IdleCap = 2
PROPERTY FacesStayInUtterance
CHECK_DEADLOCK FALSE
