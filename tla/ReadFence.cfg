SPECIFICATION Spec
CONSTANTS
  NoBlock = NoBlock
  NoHead = NoHead
  g0 = g0
  a1 = a1
  a2 = a2
  b1 = b1
  b2 = b2
  Blocks <- MCBlocks
  Number <- MCNumber
  Parent <- MCParent
  Anc <- MCAnc
  Depth = 1
  Items = {"static", "neutral", "latest", "number", "hash"}
  Kind <- MCKind
  Height <- MCHeight
  Hash <- MCHash
  MaxEpoch = 2
  MaxGeneration = 3
INVARIANTS
  TypeOK
  ServedFromAcceptedBranch
  NothingServedAcrossReorg
  AdvancementCancelsNothing
