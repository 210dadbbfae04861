SPECIFICATION PartsSpec
CONSTANTS
  NoBlock = NoBlock
  g0 = g0
  a1 = a1
  a2 = a2
  a3 = a3
  a4 = a4
  b2 = b2
  b3 = b3
  x = x
  y3 = y3
  o1 = o1
  z0 = z0
  u2 = u2
  Blocks <- MCBlocks
  Number <- MCNumber
  Parent <- MCParent
  Anc <- MCAnc
  Depth = 2
  Heights = {0, 1, 2}
  MaxMoves = 3
  Ids = {1, 2}
  Commitments = {"latest", "explicit"}
  MaxBatch = 3
  Keys = {k1, k2, k3, k4}
  Sizes = {1, 2, 3, 6}
  MaxEntries = 3
  MaxBytes = 5
  MaxEntryBytes = 3
  Callers = {c1, c2, c3, c4}
  Unbounded = {c1, c2}
  MaxConcurrency = 2
  Threshold = 5
  Upstreams = {u1, u2}
  Methods = {"eth_call", "eth_getCode"}
  Providers = {p1, p2}
  Subscribing = {p1}
  IdleTimeout = 2
  MaxHead = 2
  MaxFaults = 1
CHECK_DEADLOCK FALSE
INVARIANTS
  AnswerMeetsContract
  RecentBlockIsExact
  RangeExactUnlessThereAndBack
  LabelIsWhatHolds
  WithinBudget
  OpenCircuitDrains
  PinnedReadsGoToProvenUpstreams
  GoodUpstreamsServe
  NotPolledOnlyWhenCovered
PROPERTIES
  WalkEnds
  LeastRecentGoesFirst
  SlotsComeFree
  StartupCompletes
  
