SPECIFICATION MCSpec
CONSTANTS
  NoBlock = NoBlock
  NoToken = NoToken
  NoHead = NoHead
  g0 = g0
  a1 = a1
  a2 = a2
  b1 = b1
  x = x
  p1 = p1
  Blocks <- MCBlocks
  Number <- MCNumber
  Parent <- MCParent
  Anc <- MCAnc
  Depth = 2
  Owners = {"host-1"}
  OwnerOf <- MCOwnerOf
  StreamMax = 1
  Replicas = {r1}
  Providers = {p1, p2}
  MaxBuffered = 1
  MaxFence = 2
  MaxEpoch = 1
  MaxFaults = 1
INVARIANTS
  AcceptedHeadIsSound
PROPERTIES
  FenceFallsOnEvidence
  RecoversWhenProvidersConverge
