CONSTANTS
  QueueCapacity = 2
  FifoCapacity = 4
  LevelMax = 3
  WordSize = 2
  TxQueueCapacity = 8
  RxFifoCapacity = 6
  RxQueueCapacity = 2
  Payloads <- MCTxPayloads
  PeerPayloads <- MCNone
  ReadLengths <- MCRead1
  MaxReported = 9
  MaxMessages = 0
SPECIFICATION ServicedSpec
PROPERTIES
  TxDrained
