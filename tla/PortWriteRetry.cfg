CONSTANTS
  QueueCapacity = 1
  FifoCapacity = 3
  LevelMax = 2
  WordSize = 2
  TxQueueCapacity = 5
  RxFifoCapacity = 4
  RxQueueCapacity = 2
  Payloads <- MCStuffed
  PeerPayloads <- MCNone
  ReadLengths <- MCNone
  MaxReported = 8
  MaxMessages = 0
SPECIFICATION WriteOnlySpec
PROPERTIES
  WritesDrain
