SPECIFICATION LateSpec
CONSTANTS
  NoBlock = NoBlock
  NoToken = NoToken
  NoHead = NoHead
  g0 = g0
  a1 = a1
  b1 = b1
  Blocks <- MCBlocks
  Number <- MCNumber
  Parent <- MCParent
  Anc <- MCAnc
  Depth = 2
  Owners = {"host-1"}
  OwnerOf <- MCOwnerOf
  StreamMax = 1
  Replicas = {r1}
  Providers = {p1}
  MaxBuffered = 1
  MaxFence = 2
  MaxEpoch = 1
  MaxFaults = 1
  SameTerm = TRUE
PROPERTIES
  BranchLeftOnlyUnderFence
