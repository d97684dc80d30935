CONSTANTS
  QueueCapacity = 1
  FifoCapacity = 3
  LevelMax = 2
  WordSize = 2
  TxQueueCapacity = 5
  RxFifoCapacity = 6
  RxQueueCapacity = 1
  Payloads <- MCPlainAndStuffed
  PeerPayloads <- MCNone
  ReadLengths <- MCRead1
  MaxReported = 4
  MaxMessages = 0
SPECIFICATION LoopSpec
PROPERTIES
  LoopIsPipe
  LoopDrained
