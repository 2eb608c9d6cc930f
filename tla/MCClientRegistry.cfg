\* Three ids compete for two bits; quality has a level to lose and one to gain.
\* No symmetry: the run checks liveness too.
CONSTANTS
  ClientId = {c1, c2, c3}
  MaxIndex = 2
  MaxQuality = 2
  PingWait = 0
  PongWait = 1
SPECIFICATION FairRegistrySpec
INVARIANT IndicesExact
INVARIANT GroupsExact
INVARIANT QualityAgrees
PROPERTY DisconnectIsLast
PROPERTY SilentClientRemoved
