\* Two hosts of one Cluster, a machine that moves between them, its two
\* interfaces, one below the other; no restore.
SPECIFICATION LockingSpec
CONSTANTS
  Tx = {t1, t2}
  t1 = t1
  t2 = t2
  Clusters = {c1}
  c1 = c1
  c2 = c2
  Resources = {h1, h2, v1}
  h1 = h1
  h2 = h2
  v1 = v1
  BareMetal = {h1, h2}
  Interfaces = {f1, f2}
  f1 = f1
  f2 = f2
  f3 = f3
  ClusterOf <- OneCluster
  Owner <- GuestOwns
  MaxVersion = 3
  None = None
SYMMETRY FleetSymmetry
CHECK_DEADLOCK FALSE
INVARIANT UnreferencedHolds
INVARIANT HostsLive
INVARIANT OwnersLive
INVARIANT ParentsLive
