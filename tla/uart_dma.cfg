CONSTANTS
  Chunk = 3
  RingSize = 6
  CounterSpace = 12
  Sof = 6
  Eof = 5
  LenAt = 1
  Overhead = 3
  MaxLen = 5
  Messages <- MCMessages
  MaxSent = 3
  LineFaults = TRUE
  StartFails = TRUE
SPECIFICATION FairSpec
INVARIANT InOrder
PROPERTIES
  ImplementsFrameStream
  AllDelivered
  Drains
