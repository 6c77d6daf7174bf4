---------------------------- MODULE LedgerProofs ----------------------------
(* The abstract ledger keeps what it promises.                             *)
EXTENDS AllocationLedger, TLAPS

LEMMA LedgerTyping == Spec => []TypeOK
  <1>1. Init => TypeOK
    BY DEF Init, TypeOK
  <1>2. TypeOK /\ [Next]_vars => TypeOK'
    <2> SUFFICES ASSUME TypeOK, [Next]_vars PROVE TypeOK'
      OBVIOUS
    <2>1. ASSUME NEW i \in Ips, NEW l \in Lease, Grant(i, l) PROVE TypeOK'
      BY <2>1 DEF Grant, TypeOK
    <2>2. ASSUME NEW i \in Ips, Release(i) PROVE TypeOK'
      BY <2>2 DEF Release, TypeOK
    <2>3. ASSUME NEW n \in Nets, NEW R \in SUBSET Addr, Reserve(n, R) PROVE TypeOK'
      BY <2>3 DEF Reserve, TypeOK
    <2>4. CASE UNCHANGED vars
      BY <2>4 DEF vars, TypeOK
    <2> QED BY <2>1, <2>2, <2>3, <2>4 DEF Next
  <1> QED BY <1>1, <1>2, PTL DEF Spec

\* For any sets of networks and addresses: no two allocations hold one address
\* of a network, and none holds a reserved one.
THEOREM LedgerSafe == ASSUME NoneIsNoLease PROVE Spec => []Safe
  <1>1. Init => Safe
    BY DEF Init, Safe
  <1>2. TypeOK /\ Safe /\ [Next]_vars => Safe'
    <2> SUFFICES ASSUME TypeOK, Safe, [Next]_vars PROVE Safe'
      OBVIOUS
    <2>1. ASSUME NEW i \in Ips, NEW l \in Lease, Grant(i, l) PROVE Safe'
      <3>1. l # None /\ leases'[i] = l /\ reserved' = reserved
        BY <2>1, NoneIsNoLease DEF Grant, TypeOK, Lease, NoneIsNoLease
      <3>2. \A j \in Ips \ {i} : leases'[j] = leases[j]
        BY <2>1 DEF Grant, TypeOK
      <3> QED BY <2>1, <3>1, <3>2 DEF Grant, Safe
    <2>2. ASSUME NEW i \in Ips, Release(i) PROVE Safe'
      <3>1. leases'[i] = None /\ reserved' = reserved
        BY <2>2 DEF Release, TypeOK
      <3>2. \A j \in Ips \ {i} : leases'[j] = leases[j]
        BY <2>2 DEF Release, TypeOK
      <3> QED BY <3>1, <3>2 DEF Safe
    <2>3. ASSUME NEW n \in Nets, NEW R \in SUBSET Addr, Reserve(n, R) PROVE Safe'
      <3>1. leases' = leases /\ reserved'[n] = R
        BY <2>3 DEF Reserve, TypeOK
      <3>2. \A m \in Nets \ {n} : reserved'[m] = reserved[m]
        BY <2>3 DEF Reserve, TypeOK
      <3>3. \A i \in Ips : leases[i] # None => leases[i].net \in Nets
        BY DEF TypeOK, Lease
      <3> QED BY <2>3, <3>1, <3>2, <3>3 DEF Reserve, Safe
    <2>4. CASE UNCHANGED vars
      BY <2>4 DEF vars, Safe
    <2> QED BY <2>1, <2>2, <2>3, <2>4 DEF Next
  <1> QED BY <1>1, <1>2, LedgerTyping, PTL DEF Spec
=============================================================================
