----------------------------- MODULE MCInventory -----------------------------
(* Small instances of Inventory for TLC.                                   *)
EXTENDS Inventory, TLC

CONSTANTS c1, c2, h1, h2, v1, f1, f2, f3, t1, t2

\* Every Resource in one Cluster; or the host h2 in a Cluster of its own.
OneCluster == [r \in Resources |-> c1]
TwoClusters == [r \in Resources |-> IF r = h2 THEN c2 ELSE c1]

\* All interfaces on the host; or all on the machine.
HostOwns == [f \in Interfaces |-> h1]
GuestOwns == [f \in Interfaces |-> v1]

RequestSymmetry == Permutations({t1, t2})
FleetSymmetry == Permutations({h1, h2}) \cup Permutations({f1, f2}) \cup RequestSymmetry
TreeSymmetry == Permutations({f1, f2, f3}) \cup RequestSymmetry
=============================================================================
