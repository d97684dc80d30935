CONSTANTS
  QueueCapacity = 3
  Alphabet <- MCAlphabet
  MaxLine = 8
SPECIFICATION Spec
INVARIANTS
  EncodeIsLoop
  DecodeIsLoop
  ScannersAreLoops
  RoundTrip
  FrameBoundaries
CHECK_DEADLOCK FALSE
