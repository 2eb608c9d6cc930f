\* Liveness; the clients compete for one bit, so that it is given out again.
CONSTANTS
  ClientId = {c1, c2}
  MaxIndex = 1
  MaxQuality = 1
  PingWait = 0
  PongWait = 0
  QualityIndex = {}
  MaxInstructions = 1
  MaxMessages = 2
SPECIFICATION FairEngineSpec
 
PROPERTY CrashedClientRemoved
