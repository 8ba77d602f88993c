CONSTANTS
  FileSize = 10
  SndMaxSize = 12
  ChunkSize = 4
  RcvMaxSize = 12
  MaxRetries = 5
  MaxIdle = 3
SPECIFICATION FairSpec
INVARIANTS TypeOK ReceivedInOrder AcknowledgedIsDelivered SuccessMeansComplete
 BacklogBounded TransferInv
PROPERTIES ImplementsFileTransfer SenderReturns ReceiverReturns
CHECK_DEADLOCK FALSE
