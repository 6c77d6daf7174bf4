\* Two Clusters with a host each and a machine of the first
\* with an interface, restores included.
SPECIFICATION Spec
CONSTANTS
  Tx = {t1, t2}
  t1 = t1
  t2 = t2
  Clusters = {c1, c2}
  c1 = c1
  c2 = c2
  Resources = {h1, h2, v1}
  h1 = h1
  h2 = h2
  v1 = v1
  BareMetal = {h1, h2}
  Interfaces = {f1}
  f1 = f1
  f2 = f2
  f3 = f3
  ClusterOf <- TwoClusters
  Owner <- GuestOwns
  MaxVersion = 3
  None = None
SYMMETRY RequestSymmetry
CHECK_DEADLOCK FALSE
INVARIANT WellPlaced
