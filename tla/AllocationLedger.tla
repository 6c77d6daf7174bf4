-------------------------- MODULE AllocationLedger --------------------------
(***************************************************************************)
(* What the IPAM part of CSM promises about addresses, with no             *)
(* transactions, locks, versions or soft deletes in sight: per network, a  *)
(* ledger of addresses held by at most one allocation each, and a set of   *)
(* reserved addresses that nobody holds.  Ipam.tla implements it.          *)
(***************************************************************************)
CONSTANTS Ips,      \* identities an allocation can have
          Nets,     \* networks
          Addr,     \* addresses
          None      \* no lease

VARIABLES leases,   \* the address each allocation holds, or None
          reserved  \* per network, the addresses set aside

vars == <<leases, reserved>>

Lease == [net : Nets, addr : Addr]

\* What the theorems ask of None.
NoneIsNoLease == None \notin Lease

Init == /\ leases = [i \in Ips |-> None]
        /\ reserved = [n \in Nets |-> {}]

\* An address nobody holds and that is not reserved is granted, atomically.
Grant(i, l) == /\ leases[i] = None
               /\ \A j \in Ips : leases[j] # l
               /\ l.addr \notin reserved[l.net]
               /\ leases' = [leases EXCEPT ![i] = l]
               /\ UNCHANGED reserved

Release(i) == /\ leases[i] # None
              /\ leases' = [leases EXCEPT ![i] = None]
              /\ UNCHANGED reserved

\* The reserved set of a network is replaced by one that no lease is in.
Reserve(n, R) == /\ \A i \in Ips : leases[i] # None /\ leases[i].net = n
                                      => leases[i].addr \notin R
                 /\ reserved' = [reserved EXCEPT ![n] = R]
                 /\ UNCHANGED leases

Next == \/ \E i \in Ips, l \in Lease : Grant(i, l)
        \/ \E i \in Ips : Release(i)
        \/ \E n \in Nets, R \in SUBSET Addr : Reserve(n, R)

Spec == Init /\ [][Next]_vars

\* Every lease is a network and an address, every reserved set a set of addresses.
TypeOK == /\ leases \in [Ips -> Lease \cup {None}]
          /\ reserved \in [Nets -> SUBSET Addr]

(***************************************************************************)
(* An address of a network has one holder, and a held address is never     *)
(* reserved: the two sentences of docs/product/requirements-v3.md 11.1 and *)
(* 12.1 that the code in services/ip_address.py and ip_pool.py upholds.    *)
(***************************************************************************)
Safe == /\ \A i, j \in Ips : leases[i] # None /\ leases[i] = leases[j] => i = j
        /\ \A i \in Ips : leases[i] # None
                             => leases[i].addr \notin reserved[leases[i].net]
=============================================================================
