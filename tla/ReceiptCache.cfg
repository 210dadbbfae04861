SPECIFICATION Spec
CONSTANTS
  NoBlock = NoBlock
  NoHead = NoHead
  a1 = a1
  a2 = a2
  a3 = a3
  b1 = b1
  b2 = b2
  Blocks <- MCBlocks
  Number <- MCNumber
  Parent <- MCParent
  Anc <- MCAnc
  Depth = 2
  Requests = {r1, r2}
  Providers = {p1, p2}
  Inclusion <- MCInclusion
  MaxEpoch = 1
  MaxGeneration = 2
SYMMETRY MCSymmetry
CHECK_DEADLOCK FALSE
INVARIANTS
  CachedReceiptIsCanonical
  ReceiptWithinOwnPin
  NullIsAboutOwnPin
  CancellationStaysOwn
