CONSTANTS
  FileSize = 12
  SndMaxSize = 9
  ChunkSize = 4
  RcvMaxSize = 8
  MaxRetries = 3
  MaxIdle = 2
SPECIFICATION Spec
INVARIANT OversizeIsNotReportedSent
PROPERTY ImplementsFileTransfer
CHECK_DEADLOCK FALSE
