SPECIFICATION FairSpec
CONSTANTS
  a = a
  b = b
  d = d
  k = k
  None = None
  Pools = 2
  ShardCount = 2
  Job = {a, b, d}
  Key <- MCKey
  Size <- MCSize
  Parent <- MCParent
  Hash <- MCHash
  MaxLen = 2
  MaxBytes = 2
  DropHead = {1}
INVARIANTS TypeOK NothingLost KeyOrder
PROPERTY ShutdownReturns
CHECK_DEADLOCK FALSE
