SPECIFICATION MCSpec
CONSTANTS
  NoBlock = NoBlock
  NoHead = NoHead
  g0 = g0
  a1 = a1
  a2 = a2
  a3 = a3
  b2 = b2
  Blocks <- MCBlocks
  Number <- MCNumber
  Parent <- MCParent
  Anc <- MCAnc
  Depth = 2
  Subs = {s1, s2}
  StreamMax = 2
  ReadMax = 2
  QueueSize = 2
  SubLimit = 2
  SeenLimit = 2
  HistoryLimit = 1
  MaxEpoch = 2
  MaxGeneration = 4
  MaxRequests = 3
CHECK_DEADLOCK FALSE
SYMMETRY MCSymmetry
INVARIANTS
  AckPrecedesHeads
  NoHeadSkipped
  HeadsAreConnected
