\* Two ids: a peer that gave up and connects again leaves a client behind and takes
\* the second bit from the other peer.
CONSTANTS
  Peer = {p1, p2}
  ClientId = {c1, c2}
  MaxClients = 2
  Impatient = {p1}
  MaxAttempts = 2
  NoClient = NoClient
  Asked <- AskedByEach
SPECIFICATION FairConnectorSpec
CHECK_DEADLOCK FALSE
INVARIANT ClientsAreKnown
PROPERTY ImplementsExchange
PROPERTY PeerIsAnswered
