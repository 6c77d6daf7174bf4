\* One network that changes its gateway, CIDR, Cluster and switches and is
\* deleted and restored, while two requests allocate, restore and create pools.
SPECIFICATION Spec
CONSTANTS
  Tx = {t1, t2}
  t1 = t1
  t2 = t2
  Clusters = {c1, c2}
  c1 = c1
  c2 = c2
  Nets = {n1}
  Pools = {p1}
  Ips = {i1}
  i1 = i1
  i2 = i2
  MaxAddr = 3
  Disabled = {}
  NetworkInputs <- MoveNet
  NetworkChanges <- MoveChangeSet
  PoolInputs <- MovePools
  PoolChanges <- Nothing
  MaxVersion = 3
  None = None
  Same = Same
SYMMETRY SymmTx
CHECK_DEADLOCK FALSE
INVARIANT LockDiscipline
INVARIANT LocationConsistent
PROPERTY RestoreIntoCurrentNetwork
PROPERTY GatewayChangeAvoidsAddresses
PROPERTY DeletedOnlyWhenEmpty
