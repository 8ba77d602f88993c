CONSTANTS
  FileSize = 10
  SndMaxSize = 12
  ChunkSize = 4
  RcvMaxSize = 12
  MaxRetries = 5
  MaxIdle = 10
  Delay = 1
  SndVtime = 12
  RcvVtime = 6
  Nap = 2
  Pause = 3
  MaxRuns = 2
SPECIFICATION TimedSpec
INVARIANTS TimedInv OneUnderWay NoAttemptWasted
PROPERTIES SuccessAcrossRuns
CHECK_DEADLOCK FALSE
