\* Two clients over two bits; a client may leave and its bit be given out again.
\* One quality; a client may ask for another.
CONSTANTS
  ClientId = {c1, c2}
  MaxIndex = 2
  MaxQuality = 1
  PingWait = 0
  PongWait = 0
  QualityIndex = {0}
  MaxInstructions = 1
  MaxMessages = 2
SPECIFICATION EngineSpec
INVARIANT OnePingInFlight
INVARIANT NothingAfterDisconnect
INVARIANT OnlyFreedBitsMislead
PROPERTY PongSavesClient
 
