\* Two requests and the pools and addresses of one network that stays in place.
SPECIFICATION Spec
CONSTANTS
  Tx = {t1, t2}
  t1 = t1
  t2 = t2
  Clusters = {c1}
  c1 = c1
  c2 = c2
  Nets = {n1}
  Pools = {p1}
  Ips = {i1, i2}
  i1 = i1
  i2 = i2
  MaxAddr = 1
  Disabled = {}
  NetworkInputs <- PoolNet
  NetworkChanges <- Nothing
  PoolInputs <- PoolInputSet
  PoolChanges <- PoolChangeSet
  MaxVersion = 3
  None = None
  Same = Same
SYMMETRY Symm
CHECK_DEADLOCK FALSE
INVARIANT TypeOK
INVARIANT ReservedFree
PROPERTY SourcePoolRecorded
PROPERTY LowestFreeAddress
PROPERTY LedgerSpec
