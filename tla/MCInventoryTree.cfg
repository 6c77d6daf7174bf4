\* Three interfaces of one host, created and then moved or deleted.
SPECIFICATION Spec
CONSTANTS
  Tx = {t1, t2}
  t1 = t1
  t2 = t2
  Clusters = {c1}
  c1 = c1
  c2 = c2
  Resources = {h1}
  h1 = h1
  h2 = h2
  v1 = v1
  BareMetal = {h1}
  Interfaces = {f1, f2, f3}
  f1 = f1
  f2 = f2
  f3 = f3
  ClusterOf <- OneCluster
  Owner <- HostOwns
  MaxVersion = 2
  None = None
SYMMETRY TreeSymmetry
CHECK_DEADLOCK FALSE
INVARIANT TypeOK
INVARIANT ChecksHold
INVARIANT Acyclic
