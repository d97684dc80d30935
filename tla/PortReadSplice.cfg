CONSTANTS
  QueueCapacity = 2
  FifoCapacity = 3
  LevelMax = 2
  WordSize = 2
  TxQueueCapacity = 4
  RxFifoCapacity = 7
  RxQueueCapacity = 3
  Payloads <- MCNone
  PeerPayloads <- MCTwoBytes
  ReadLengths <- MCRead0or2
  MaxReported = 0
  MaxMessages = 3
SPECIFICATION Spec
INVARIANTS
  DeliveredIsStream
