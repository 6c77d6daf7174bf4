------------------------------- MODULE MCIpam -------------------------------
(* Small instances of Ipam for TLC.                                        *)
EXTENDS Ipam, TLC

CONSTANTS c1, c2, i1, i2, t1, t2

Small == [lo |-> 0, hi |-> 3]       \* usable 1..2
High == [lo |-> 4, hi |-> 7]
Pair == [lo |-> 0, hi |-> 1]        \* a /31: both addresses usable

Net(c, cidr, g, s, a) == [cluster |-> c, cidr |-> cidr, gateway |-> g,
                          status |-> s, auto |-> a]
NoChange == Net(Same, Same, Same, Same, Same)
Pool(lo, hi, m) == [range |-> [lo |-> lo, hi |-> hi], mode |-> m]

Symm == Permutations({i1, i2}) \cup Permutations({t1, t2})
SymmTx == Permutations({t1, t2})

Nothing == {}

\* Pools against allocations in one network of two usable addresses.
PoolNet == {Net(c1, Pair, None, "ACTIVE", TRUE)}
PoolInputSet == {Pool(0, 1, "AUTO"), Pool(1, 1, "RESERVED")}
PoolChangeSet == {[range |-> Same, mode |-> "RESERVED"], [range |-> Same, mode |-> "AUTO"],
                  [range |-> [lo |-> 0, hi |-> 1], mode |-> Same]}

\* Networks that change their gateway, their location and their switches.
MoveNet == {Net(c1, Small, None, "ACTIVE", TRUE), Net(c1, Pair, 1, "ACTIVE", TRUE)}
MoveChangeSet == {[NoChange EXCEPT !.gateway = 1], [NoChange EXCEPT !.gateway = None],
                  [NoChange EXCEPT !.cidr = Pair], [NoChange EXCEPT !.cluster = c2],
                  [NoChange EXCEPT !.status = "INACTIVE"]}
MovePools == {Pool(0, 1, "AUTO")}
=============================================================================
