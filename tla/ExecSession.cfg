SPECIFICATION HostFairSpec
CONSTANTS
  StdinChunks = 2
  MaxOut = 3
  MaxCaptured = 1
  Buffer = 1
  PipeRoom = 1
  MayHang = TRUE
  MayLeave = TRUE
  StopMayFail = TRUE
  None = None
INVARIANTS
  TypeOK
  NothingLost
  StdinIntact
  TimedOutMeansStopped
PROPERTIES
  DeadlineEnds
  CommandEnds
CHECK_DEADLOCK FALSE
