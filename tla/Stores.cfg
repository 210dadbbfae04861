SPECIFICATION BothSpec
CONSTANTS
  NoToken = NoToken
  NoHead = NoHead
  NoBlock = NoBlock
  Blocks = {a, b}
  Owners = {"host-1"}
  Readers = {d1}
  Count = 2
  MaxGen = 5
  StreamMax = 2
CHECK_DEADLOCK FALSE
INVARIANTS
  PagesJoinUp
  StoresAgree
PROPERTIES
  KeepsPromise
  RedisKeepsPromise
