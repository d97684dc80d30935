CONSTANTS
  QueueCapacity = 2
  FifoCapacity = 2
  RingCapacity = 8
  Payloads <- MCPayloads
  RawBytes <- MCRaw
  Lengths <- MCLengths
  MaxTraffic = 10
SPECIFICATION Spec
INVARIANTS
  TypeOK
  TxKept
  RxKept
  DeliveredByPhase
  
  CountersAgree
PROPERTIES
  WedgedForGood
  QueueReadAccounts
