CONSTANTS
  QueueCapacity = 1
  FifoCapacity = 3
  LevelMax = 2
  WordSize = 2
  TxQueueCapacity = 5
  RxFifoCapacity = 4
  RxQueueCapacity = 2
  Payloads <- MCOneByte
  PeerPayloads <- MCPeerBytes
  ReadLengths <- MCRead1
  MaxReported = 1
  MaxMessages = 2
SPECIFICATION ServicedSpec
PROPERTIES
  RxDrained
