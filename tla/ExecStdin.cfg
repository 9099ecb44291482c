SPECIFICATION FairSpec
CONSTANTS
  StdinChunks = 5
  MaxOut = 3
  MaxCaptured = 1
  Buffer = 1
  PipeRoom = 1
  MayHang = FALSE
  MayLeave = FALSE
  StopMayFail = FALSE
  None = None
PROPERTIES CommandEnds
CHECK_DEADLOCK FALSE
