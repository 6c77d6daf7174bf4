----------------------------- MODULE IpamProofs -----------------------------
(* Proofs about Ipam: typing, the lock discipline, and what it protects.   *)
EXTENDS Ipam, TLAPS

-----------------------------------------------------------------------------
(* The operators.                                                          *)

LEMMA UsableIsAddr ==
    ASSUME NEW r \in Interval PROVE Usable(r) \subseteq Addr /\ Block(r) \subseteq Addr
  BY ConstantsOK DEF Usable, Block, Interval, Addr

LEMMA NewIsOld == \A S : \A x \in S \cup {Same}, y \in S : New(x, y) \in S
  BY DEF New

LEMMA JobFields ==
    ASSUME NEW j \in Job
    PROVE  /\ j.op \in {"createIp", "autoAllocate"}
              => /\ j.net \in Nets /\ j.addr \in Addr \cup {None}
                 /\ j.pool \in Pools \cup {None} /\ j.seen \in NetColumns
           /\ j.op = "createPool"
              => j.net \in Nets /\ j.input \in PoolColumns /\ j.seen \in NetColumns
           /\ j.op = "updatePool"
              => j.net \in Nets /\ j.pool \in Pools /\ j.ver \in Version /\ j.change \in PoolChange
           /\ j.op = "restorePool" => j.net \in Nets /\ j.pool \in Pools /\ j.ver \in Version
           /\ j.op = "restoreIp" => j.net \in Nets /\ j.ip \in Ips /\ j.ver \in Version
           /\ j.op = "updateNetwork"
              => j.net \in Nets /\ j.ver \in Version /\ j.change \in NetChange
           /\ j.op = "deleteNetwork" => j.net \in Nets /\ j.ver \in Version
           /\ j.op # "none" => j.net \in Nets
  BY DEF Job, NoJob

-----------------------------------------------------------------------------
(* Typing.                                                                 *)

LEMMA InitTyped == Init => TypeOK
  <1>1. NoNet \in NetRow
    BY ConstantsOK DEF NoNet, NetRow, RowState, Status, NoRange, Interval, Addr
  <1>2. NoPool \in PoolRow
    BY ConstantsOK DEF NoPool, PoolRow, RowState, Mode, NoRange, Interval, Addr
  <1>3. NoIp \in IpRow
    BY ConstantsOK DEF NoIp, IpRow, RowState, Addr
  <1>4. NoJob \in Job
    BY DEF Job
  <1> QED BY <1>1, <1>2, <1>3, <1>4 DEF Init, TypeOK

\* Starting, locking, checking and ending a request keep the types of the rest.
LEMMA BeginTyped ==
    ASSUME TypeOK, NEW t \in Tx, NEW j \in Job, Begin(t, j) PROVE TypeOK'
  BY DEF TypeOK, Begin, tables

LEMMA PassTyped ==
    ASSUME TypeOK, NEW t \in Tx, NEW j \in Job, Pass(t, j) PROVE TypeOK'
  BY DEF TypeOK, Pass, tables

LEMMA EndTyped ==
    ASSUME TypeOK, NEW t \in Tx, End(t)
    PROVE  /\ lock' \in [Nets -> Tx \cup {None}]
           /\ pc' \in [Tx -> {"idle", "waiting", "locked", "checked"}]
           /\ job' \in [Tx -> Job]
  BY DEF TypeOK, End, Job

LEMMA PutNetTyped ==
    ASSUME TypeOK, NEW n, NEW row \in NetRow, PutNet(n, row)
    PROVE  networks' \in [Nets -> NetRow] /\ pools' \in [Pools -> PoolRow] /\ ips' \in [Ips -> IpRow]
  BY DEF TypeOK, PutNet

LEMMA PutPoolTyped ==
    ASSUME TypeOK, NEW p, NEW row \in PoolRow, PutPool(p, row)
    PROVE  networks' \in [Nets -> NetRow] /\ pools' \in [Pools -> PoolRow] /\ ips' \in [Ips -> IpRow]
  BY DEF TypeOK, PutPool

LEMMA PutIpTyped ==
    ASSUME TypeOK, NEW i, NEW row \in IpRow, PutIp(i, row)
    PROVE  networks' \in [Nets -> NetRow] /\ pools' \in [Pools -> PoolRow] /\ ips' \in [Ips -> IpRow]
  BY DEF TypeOK, PutIp

LEMMA ColumnsTyped == ASSUME TypeOK, NEW n \in Nets PROVE Columns(n) \in NetColumns
  BY DEF TypeOK, Columns, NetColumns, NetRow

LEMMA ChangedNetTyped ==
    ASSUME NEW row \in NetRow, NEW ch \in NetChange, row.version < MaxVersion
    PROVE  ChangedNet(row, ch) \in NetRow
  <1>1. /\ New(ch.cluster, row.cluster) \in Clusters
        /\ New(ch.cidr, row.cidr) \in Interval
        /\ New(ch.gateway, row.gateway) \in Addr \cup {None}
        /\ New(ch.status, row.status) \in Status
        /\ New(ch.auto, row.auto) \in BOOLEAN
    BY NewIsOld DEF NetRow, NetChange
  <1>2. row.version + 1 \in 0..MaxVersion
    BY ConstantsOK DEF NetRow
  <1> QED BY <1>1, <1>2 DEF ChangedNet, NetRow

\* A row that is written with its version moved on and a state of RowState.
LEMMA BumpTyped ==
    ASSUME NEW s \in RowState
    PROVE  /\ \A row \in NetRow : row.version < MaxVersion
                 => [row EXCEPT !.state = s, !.version = @ + 1] \in NetRow
           /\ \A row \in PoolRow : row.version < MaxVersion
                 => [row EXCEPT !.state = s, !.version = @ + 1] \in PoolRow
           /\ \A row \in IpRow : row.version < MaxVersion
                 => [row EXCEPT !.state = s, !.version = @ + 1] \in IpRow
  <1>1. \A v \in 0..MaxVersion : v < MaxVersion => v + 1 \in 0..MaxVersion
    BY ConstantsOK
  <1>2. ASSUME NEW row \in NetRow, row.version < MaxVersion
        PROVE  [row EXCEPT !.state = s, !.version = @ + 1] \in NetRow
    BY <1>1, <1>2 DEF NetRow
  <1>3. ASSUME NEW row \in PoolRow, row.version < MaxVersion
        PROVE  [row EXCEPT !.state = s, !.version = @ + 1] \in PoolRow
    BY <1>1, <1>3 DEF PoolRow
  <1>4. ASSUME NEW row \in IpRow, row.version < MaxVersion
        PROVE  [row EXCEPT !.state = s, !.version = @ + 1] \in IpRow
    BY <1>1, <1>4 DEF IpRow
  <1> QED BY <1>2, <1>3, <1>4

\* A version a request named and that is still there can be incremented.
LEMMA VersionLeft == \A v \in Version : v < MaxVersion
  BY ConstantsOK DEF Version

LEMMA AllocationTyped ==
    ASSUME TypeOK, NEW t \in Tx, WriteAllocation(t) PROVE TypeOK'
  <1>1. PICK i \in Ips : /\ IpFits(job[t].net, job[t].seen.cluster, job[t].addr)
                         /\ PutIp(i, [state |-> "live", version |-> 1, net |-> job[t].net,
                                      cluster |-> job[t].seen.cluster,
                                      addr |-> job[t].addr, pool |-> job[t].pool])
    BY DEF WriteAllocation
  <1>2. /\ job[t].net \in Nets /\ job[t].pool \in Pools \cup {None}
        /\ job[t].seen \in NetColumns
    BY JobFields DEF WriteAllocation, TypeOK
  <1>3. job[t].addr \in Addr
    <2>1. networks[job[t].net].cidr \in Interval
      BY <1>2 DEF TypeOK, NetRow
    <2> QED BY <1>1, <2>1, UsableIsAddr DEF IpFits
  <1>4. job[t].seen.cluster \in Clusters
    BY <1>2 DEF NetColumns
  <1>5. 1 \in 0..MaxVersion
    BY ConstantsOK
  <1>6. [state |-> "live", version |-> 1, net |-> job[t].net,
         cluster |-> job[t].seen.cluster,
         addr |-> job[t].addr, pool |-> job[t].pool] \in IpRow
    BY <1>2, <1>3, <1>4, <1>5 DEF IpRow, RowState
  <1>7. End(t)
    BY DEF WriteAllocation
  <1> QED BY <1>1, <1>6, <1>7, PutIpTyped, EndTyped DEF TypeOK

LEMMA NetworkStepTyped ==
    ASSUME TypeOK, NEW t \in Tx, NetworkStep(t) PROVE TypeOK'
  <1>0. job[t] \in Job
    BY DEF TypeOK
  <1>1. ASSUME NEW n \in Nets, NEW ch \in NetworkChanges, ReadUpdateNetwork(t, n, ch)
        PROVE  TypeOK'
    <2>1. networks[n].version \in Version
      BY <1>1, ConstantsOK DEF ReadUpdateNetwork, TypeOK, NetRow, Version
    <2>2. ch \in NetChange
      BY ConstantsOK
    <2>3. [op |-> "updateNetwork", net |-> n, ver |-> networks[n].version,
           change |-> ch] \in Job
      BY <2>1, <2>2 DEF Job
    <2> QED BY <1>1, <2>3, BeginTyped DEF ReadUpdateNetwork
  <1>2. CASE CheckUpdateNetwork(t)
    BY <1>0, <1>2, PassTyped DEF CheckUpdateNetwork
  <1>3. CASE WriteUpdateNetwork(t)
    <2>1. job[t].net \in Nets /\ job[t].ver \in Version /\ job[t].change \in NetChange
      BY <1>0, <1>3, JobFields DEF WriteUpdateNetwork, Checked
    <2>2. ChangedNet(networks[job[t].net], job[t].change) \in NetRow
      BY <1>3, <2>1, VersionLeft, ChangedNetTyped DEF WriteUpdateNetwork, TypeOK
    <2> QED BY <1>3, <2>2, PutNetTyped, EndTyped DEF WriteUpdateNetwork, TypeOK
  <1>4. ASSUME NEW n \in Nets, ReadDeleteNetwork(t, n) PROVE TypeOK'
    <2>1. networks[n].version \in Version
      BY <1>4, ConstantsOK DEF ReadDeleteNetwork, TypeOK, NetRow, Version
    <2>2. [op |-> "deleteNetwork", net |-> n, ver |-> networks[n].version] \in Job
      BY <2>1 DEF Job
    <2> QED BY <1>4, <2>2, BeginTyped DEF ReadDeleteNetwork
  <1>5. CASE CheckDeleteNetwork(t)
    BY <1>0, <1>5, PassTyped DEF CheckDeleteNetwork
  <1>6. CASE WriteDeleteNetwork(t)
    <2>1. job[t].net \in Nets /\ job[t].ver \in Version
      BY <1>0, <1>6, JobFields DEF WriteDeleteNetwork, Checked
    <2>2. [networks[job[t].net] EXCEPT !.state = "deleted", !.version = @ + 1] \in NetRow
      BY <1>6, <2>1, VersionLeft, BumpTyped DEF WriteDeleteNetwork, TypeOK, RowState
    <2> QED BY <1>6, <2>2, PutNetTyped, EndTyped DEF WriteDeleteNetwork, TypeOK
  <1> QED BY <1>1, <1>2, <1>3, <1>4, <1>5, <1>6 DEF NetworkStep

LEMMA PoolStepTyped ==
    ASSUME TypeOK, NEW t \in Tx, PoolStep(t) PROVE TypeOK'
  <1>0. job[t] \in Job
    BY DEF TypeOK
  <1>1. ASSUME NEW n \in Nets, NEW in \in PoolInputs, ReadCreatePool(t, n, in)
        PROVE  TypeOK'
    <2>1. in \in PoolColumns /\ Columns(n) \in NetColumns
      BY ConstantsOK, ColumnsTyped
    <2>2. [op |-> "createPool", net |-> n, input |-> in, seen |-> Columns(n)] \in Job
      BY <2>1 DEF Job
    <2> QED BY <1>1, <2>2, BeginTyped DEF ReadCreatePool
  <1>2. CASE CheckCreatePool(t)
    BY <1>0, <1>2, PassTyped DEF CheckCreatePool
  <1>3. CASE WriteCreatePool(t)
    <2>1. job[t].net \in Nets /\ job[t].input \in PoolColumns
      BY <1>0, <1>3, JobFields DEF WriteCreatePool, Checked
    <2>2. PICK p \in Pools : PutPool(p, [state |-> "live", version |-> 1, net |-> job[t].net,
                              range |-> job[t].input.range, mode |-> job[t].input.mode])
      BY <1>3 DEF WriteCreatePool
    <2>3. [state |-> "live", version |-> 1, net |-> job[t].net,
           range |-> job[t].input.range, mode |-> job[t].input.mode] \in PoolRow
      BY <2>1, ConstantsOK DEF PoolRow, PoolColumns, RowState
    <2> QED BY <1>3, <2>2, <2>3, PutPoolTyped, EndTyped DEF WriteCreatePool, TypeOK
  <1>4. ASSUME NEW p \in Pools, NEW ch \in PoolChanges, ReadUpdatePool(t, p, ch)
        PROVE  TypeOK'
    <2>1. pools[p].version \in Version /\ pools[p].net \in Nets
      BY <1>4, ConstantsOK DEF ReadUpdatePool, TypeOK, PoolRow, Version
    <2>2. ch \in PoolChange
      BY ConstantsOK
    <2>3. [op |-> "updatePool", net |-> pools[p].net, pool |-> p,
           ver |-> pools[p].version, change |-> ch] \in Job
      BY <2>1, <2>2 DEF Job
    <2> QED BY <1>4, <2>3, BeginTyped DEF ReadUpdatePool
  <1>5. CASE CheckUpdatePool(t)
    BY <1>0, <1>5, PassTyped DEF CheckUpdatePool
  <1>6. CASE WriteUpdatePool(t)
    <2> DEFINE p == job[t].pool
               ch == job[t].change
    <2>1. p \in Pools /\ job[t].ver \in Version /\ ch \in PoolChange
      BY <1>0, <1>6, JobFields DEF WriteUpdatePool, Checked
    <2>2. pools[p] \in PoolRow /\ pools[p].version < MaxVersion
      BY <1>6, <2>1, VersionLeft DEF WriteUpdatePool, TypeOK
    <2>3. pools[p].version + 1 \in 0..MaxVersion
      BY <2>2, ConstantsOK DEF PoolRow
    <2>4. New(ch.range, pools[p].range) \in Interval /\ New(ch.mode, pools[p].mode) \in Mode
      BY <2>1, <2>2, NewIsOld DEF PoolRow, PoolChange
    <2>5. [pools[p] EXCEPT !.version = @ + 1, !.range = New(ch.range, @),
                           !.mode = New(ch.mode, @)] \in PoolRow
      BY <2>2, <2>3, <2>4 DEF PoolRow
    <2> QED BY <1>6, <2>5, PutPoolTyped, EndTyped DEF WriteUpdatePool, TypeOK
  <1>7. ASSUME NEW p \in Pools, ReadRestorePool(t, p) PROVE TypeOK'
    <2>1. pools[p].version \in Version /\ pools[p].net \in Nets
      BY <1>7, ConstantsOK DEF ReadRestorePool, TypeOK, PoolRow, Version
    <2>2. [op |-> "restorePool", net |-> pools[p].net, pool |-> p,
           ver |-> pools[p].version] \in Job
      BY <2>1 DEF Job
    <2> QED BY <1>7, <2>2, BeginTyped DEF ReadRestorePool
  <1>8. CASE CheckRestorePool(t)
    BY <1>0, <1>8, PassTyped DEF CheckRestorePool
  <1>9. CASE WriteRestorePool(t)
    <2>1. job[t].pool \in Pools /\ job[t].ver \in Version
      BY <1>0, <1>9, JobFields DEF WriteRestorePool, Checked
    <2>2. [pools[job[t].pool] EXCEPT !.state = "live", !.version = @ + 1] \in PoolRow
      BY <1>9, <2>1, VersionLeft, BumpTyped DEF WriteRestorePool, TypeOK, RowState
    <2> QED BY <1>9, <2>2, PutPoolTyped, EndTyped DEF WriteRestorePool, TypeOK
  <1> QED BY <1>1, <1>2, <1>3, <1>4, <1>5, <1>6, <1>7, <1>8, <1>9 DEF PoolStep

LEMMA IpStepTyped ==
    ASSUME TypeOK, NEW t \in Tx, IpStep(t) PROVE TypeOK'
  <1>0. job[t] \in Job
    BY DEF TypeOK
  <1>1. ASSUME NEW n \in Nets, NEW a \in Addr, ReadCreateIp(t, n, a) PROVE TypeOK'
    <2>1. [op |-> "createIp", net |-> n, addr |-> a, pool |-> None,
           seen |-> Columns(n)] \in Job
      BY ColumnsTyped DEF Job
    <2> QED BY <1>1, <2>1, BeginTyped DEF ReadCreateIp
  <1>2. CASE CheckCreateIp(t)
    <2> DEFINE pool == DerivedPool(job[t].net, job[t].addr)
    <2>1. pool \in Pools \cup {None}
      BY DEF DerivedPool, LivePools
    <2>2. [job[t] EXCEPT !.pool = pool] \in Job
      <3>1. job[t] \in [op : {"createIp", "autoAllocate"}, net : Nets,
                        addr : Addr \cup {None}, pool : Pools \cup {None}, seen : NetColumns]
        BY <1>0, <1>2 DEF CheckCreateIp, Locked, Job, NoJob
      <3> HIDE DEF pool
      <3> QED BY <2>1, <3>1 DEF Job
    <2> QED BY <1>2, <2>2, PassTyped DEF CheckCreateIp
  <1>3. ASSUME NEW n \in Nets, NEW p \in Pools, ReadAutoAllocate(t, n, p) PROVE TypeOK'
    <2>1. [op |-> "autoAllocate", net |-> n, addr |-> None, pool |-> p,
           seen |-> Columns(n)] \in Job
      BY ColumnsTyped DEF Job
    <2> QED BY <1>3, <2>1, BeginTyped DEF ReadAutoAllocate
  <1>4. CASE CheckAutoAllocate(t)
    <2>1. job[t] \in [op : {"createIp", "autoAllocate"}, net : Nets,
                      addr : Addr \cup {None}, pool : Pools \cup {None}, seen : NetColumns]
      BY <1>0, <1>4 DEF CheckAutoAllocate, Locked, Job, NoJob
    <2>2. PICK a \in FreeIn(job[t].pool, job[t].net, job[t].seen) :
             Pass(t, [job[t] EXCEPT !.addr = a])
      BY <1>4 DEF CheckAutoAllocate
    <2>3. pools[job[t].pool].range \in Interval
      BY <1>4 DEF CheckAutoAllocate, LivePools, TypeOK, PoolRow
    <2>4. a \in Addr
      BY <2>2, <2>3, UsableIsAddr DEF FreeIn
    <2>5. [job[t] EXCEPT !.addr = a] \in Job
      BY <2>1, <2>4 DEF Job
    <2> QED BY <2>2, <2>5, PassTyped
  <1>5. CASE WriteAllocation(t)
    BY <1>5, AllocationTyped
  <1>6. ASSUME NEW i \in Ips, ReadRestoreIp(t, i) PROVE TypeOK'
    <2>1. ips[i].version \in Version /\ ips[i].net \in Nets
      BY <1>6, ConstantsOK DEF ReadRestoreIp, TypeOK, IpRow, Version
    <2>2. [op |-> "restoreIp", net |-> ips[i].net, ip |-> i, ver |-> ips[i].version] \in Job
      BY <2>1 DEF Job
    <2> QED BY <1>6, <2>2, BeginTyped DEF ReadRestoreIp
  <1>7. CASE CheckRestoreIp(t)
    BY <1>0, <1>7, PassTyped DEF CheckRestoreIp
  <1>8. CASE WriteRestoreIp(t)
    <2>1. job[t].ip \in Ips /\ job[t].ver \in Version
      BY <1>0, <1>8, JobFields DEF WriteRestoreIp, Checked
    <2>2. [ips[job[t].ip] EXCEPT !.state = "live", !.version = @ + 1] \in IpRow
      BY <1>8, <2>1, VersionLeft, BumpTyped DEF WriteRestoreIp, TypeOK, RowState
    <2> QED BY <1>8, <2>2, PutIpTyped, EndTyped DEF WriteRestoreIp, TypeOK
  <1> QED BY <1>1, <1>2, <1>3, <1>4, <1>5, <1>6, <1>7, <1>8 DEF IpStep

LEMMA UnlockedStepTyped ==
    ASSUME TypeOK, UnlockedStep PROVE TypeOK'
  <1>1. ASSUME NEW n \in Nets, NEW in \in NetworkInputs, CreateNetwork(n, in) PROVE TypeOK'
    <2>1. in \in NetColumns
      BY ConstantsOK
    <2>2. [state |-> "live", version |-> 1, cluster |-> in.cluster, cidr |-> in.cidr,
           gateway |-> in.gateway, status |-> in.status, auto |-> in.auto] \in NetRow
      BY <2>1, ConstantsOK DEF NetRow, NetColumns, RowState
    <2> QED BY <1>1, <2>2, PutNetTyped DEF CreateNetwork, TypeOK
  <1>2. ASSUME NEW n \in Nets, NEW ch \in NetworkChanges, SwitchNetwork(n, ch) PROVE TypeOK'
    <2>1. ch \in NetChange
      BY ConstantsOK
    <2>2. ChangedNet(networks[n], ch) \in NetRow
      BY <1>2, <2>1, ChangedNetTyped DEF SwitchNetwork, TypeOK
    <2> QED BY <1>2, <2>2, PutNetTyped DEF SwitchNetwork, TypeOK
  <1>3. ASSUME NEW n \in Nets, RestoreNetwork(n) PROVE TypeOK'
    <2>1. [networks[n] EXCEPT !.state = "live", !.version = @ + 1] \in NetRow
      BY <1>3, BumpTyped DEF RestoreNetwork, TypeOK, RowState
    <2> QED BY <1>3, <2>1, PutNetTyped DEF RestoreNetwork, TypeOK
  <1>4. ASSUME NEW p \in Pools, DeletePool(p) PROVE TypeOK'
    <2>1. [pools[p] EXCEPT !.state = "deleted", !.version = @ + 1] \in PoolRow
      BY <1>4, BumpTyped DEF DeletePool, TypeOK, RowState
    <2> QED BY <1>4, <2>1, PutPoolTyped DEF DeletePool, TypeOK
  <1>5. ASSUME NEW i \in Ips, DeleteIp(i) PROVE TypeOK'
    <2>1. [ips[i] EXCEPT !.state = "deleted", !.version = @ + 1] \in IpRow
      BY <1>5, BumpTyped DEF DeleteIp, TypeOK, RowState
    <2> QED BY <1>5, <2>1, PutIpTyped DEF DeleteIp, TypeOK
  <1> QED BY <1>1, <1>2, <1>3, <1>4, <1>5 DEF UnlockedStep

LEMMA NextTyped == TypeOK /\ [Next]_vars => TypeOK'
  <1> SUFFICES ASSUME TypeOK, [Next]_vars PROVE TypeOK'
    OBVIOUS
  <1>1. CASE UnlockedStep
    BY <1>1, UnlockedStepTyped
  <1>2. ASSUME NEW t \in Tx, Acquire(t) PROVE TypeOK'
    BY <1>2 DEF Acquire, TypeOK, tables
  <1>3. ASSUME NEW t \in Tx, Abort(t) PROVE TypeOK'
    BY <1>3, EndTyped DEF Abort, TypeOK, tables
  <1>4. ASSUME NEW t \in Tx, NetworkStep(t) \/ PoolStep(t) \/ IpStep(t) PROVE TypeOK'
    BY <1>4, NetworkStepTyped, PoolStepTyped, IpStepTyped
  <1>5. CASE UNCHANGED vars
    BY <1>5 DEF vars, tables, TypeOK
  <1> QED BY <1>1, <1>2, <1>3, <1>4, <1>5 DEF Next

\* Whatever requests run and however they interleave, the tables, the row lock
\* and the requests in flight keep their shape (the state of services/network.py,
\* ip_pool.py and ip_address.py).
THEOREM Typing == Spec => []TypeOK
  BY InitTyped, NextTyped, PTL DEF Spec

-----------------------------------------------------------------------------
(* The lock discipline.                                                    *)

Safety == LockDiscipline /\ LocationConsistent /\ ReservedFree

\* A step never forgets that a row was written, nor what it belongs to.
Persist ==
    /\ \A n \in Nets : networks[n].state # "absent" => networks'[n].state # "absent"
    /\ \A p \in Pools : pools[p].state # "absent"
          => pools'[p].state # "absent" /\ pools'[p].net = pools[p].net
    /\ \A i \in Ips : ips[i].state # "absent"
          => ips'[i].state # "absent" /\ ips'[i].net = ips[i].net

\* A step writes no row of another network than n.
OnlyNet(n) ==
    /\ \A m \in Nets \ {n} : networks'[m] = networks[m]
    /\ \A p \in Pools : \/ pools'[p] = pools[p]
                        \/ /\ pools'[p].net = n
                           /\ pools[p].state = "absent" \/ pools[p].net = n
    /\ \A i \in Ips : \/ ips'[i] = ips[i]
                      \/ /\ ips'[i].net = n
                         /\ ips[i].state = "absent" \/ ips[i].net = n

\* The rows of network n are the same before and after a step.
Kept(n) ==
    /\ networks'[n] = networks[n]
    /\ \A p \in Pools : \/ pools'[p] = pools[p]
                        \/ /\ pools'[p].net # n
                           /\ pools[p].state = "absent" \/ pools[p].net # n
    /\ \A i \in Ips : \/ ips'[i] = ips[i]
                      \/ /\ ips'[i].net # n
                         /\ ips[i].state = "absent" \/ ips[i].net # n

LEMMA OthersKept ==
    ASSUME NEW n \in Nets, NEW m \in Nets, n # m, OnlyNet(n) PROVE Kept(m)
  BY DEF OnlyNet, Kept

LEMMA InReserved ==
    ASSUME NEW n \in Nets, NEW a
    PROVE  a \in Reserved(n) <=> \E p \in Pools : /\ pools[p].state = "live"
                                                 /\ pools[p].net = n
                                                 /\ pools[p].mode = "RESERVED"
                                                 /\ a \in Block(pools[p].range)
  BY DEF Reserved, LivePools

LEMMA KeptTables ==
    ASSUME NEW n \in Nets, Kept(n)
    PROVE  /\ Reserved(n)' = Reserved(n)
           /\ LivePools(n)' = LivePools(n) /\ LiveIps(n)' = LiveIps(n)
           /\ \A p \in LivePools(n) : pools'[p] = pools[p]
           /\ \A i \in LiveIps(n) : ips'[i] = ips[i]
  <1>1. LivePools(n)' = LivePools(n) /\ LiveIps(n)' = LiveIps(n)
    BY DEF Kept, LivePools, LiveIps
  <1>2. /\ \A p \in LivePools(n) : pools'[p] = pools[p]
        /\ \A i \in LiveIps(n) : ips'[i] = ips[i]
    BY DEF Kept, LivePools, LiveIps
  <1>3. Reserved(n)' = Reserved(n)
    BY <1>1, <1>2 DEF Reserved
  <1> QED BY <1>1, <1>2, <1>3

\* What a request has checked outlives every step that keeps its network's rows.
LEMMA KeptHolds ==
    ASSUME NEW j \in Job, j.net \in Nets, JobLocated(j), StillHolds(j), Kept(j.net),
           j.op \in {"updatePool", "restorePool"} => j.pool \in Pools,
           j.op = "restoreIp" => j.ip \in Ips
    PROVE  StillHolds(j)'
  <1>1. /\ Reserved(j.net)' = Reserved(j.net)
        /\ InUse(j.net)' = InUse(j.net)
    BY KeptTables DEF InUse
  <1>2. \A r : Vacant(j.net, r)' = Vacant(j.net, r)
    BY KeptTables DEF Vacant, Block
  <1>3. j.op \in {"updatePool", "restorePool"} => pools'[j.pool] = pools[j.pool]
    BY DEF JobLocated, Kept
  <1>4. j.op = "restoreIp" => ips'[j.ip] = ips[j.ip]
    BY DEF JobLocated, Kept
  <1>5. LiveNet(j.net)' = LiveNet(j.net) /\ networks'[j.net] = networks[j.net]
    BY DEF Kept, LiveNet
  <1>6. \A a : a \in Allocatable(j.net, Columns(j.net))
                => a \in Allocatable(j.net, Columns(j.net))'
    BY <1>1, <1>5 DEF Allocatable, Columns, Usable, Block
  <1>7. \A i \in LiveIps(j.net)' : i \in LiveIps(j.net) /\ ips'[i] = ips[i]
    BY KeptTables
  <1>8. j.op \in {"createIp", "autoAllocate"} => j.addr \notin Reserved(j.net)'
    BY <1>1 DEF StillHolds
  <1>9. j.op = "restoreIp" => /\ LiveNet(j.net)'
                             /\ (ips[j.ip].addr \in Allocatable(j.net, Columns(j.net)))'
    BY <1>4, <1>5, <1>6 DEF StillHolds
  <1>10. /\ j.op = "createPool" /\ j.input.mode = "RESERVED"
            => Vacant(j.net, j.input.range)'
         /\ /\ j.op = "updatePool"
            /\ pools'[j.pool].state = "live"
            /\ New(j.change.mode, pools'[j.pool].mode) = "RESERVED"
            => Vacant(j.net, New(j.change.range, pools[j.pool].range))'
         /\ j.op = "restorePool"
            => /\ LiveNet(j.net)'
               /\ pools'[j.pool].mode = "RESERVED" => Vacant(j.net, pools[j.pool].range)'
    BY <1>2, <1>3, <1>5 DEF StillHolds
  <1>11. j.op = "updateNetwork"
            => /\ MovesNetwork(j.change) => ~InUse(j.net)'
               /\ j.change.gateway # Same
                  => \A i \in LiveIps(j.net)' : ips'[i].addr # j.change.gateway
    BY <1>1, <1>7 DEF StillHolds
  <1>12. j.op = "deleteNetwork" => ~InUse(j.net)'
    BY <1>1 DEF StillHolds
  <1> QED BY <1>8, <1>9, <1>10, <1>11, <1>12 DEF StillHolds

LEMMA InFlightJob ==
    ASSUME TypeOK, NEW u \in Tx, job[u].op # "none"
    PROVE  /\ job[u] \in Job /\ job[u].net \in Nets
           /\ job[u].op \in {"updatePool", "restorePool"} => job[u].pool \in Pools
           /\ job[u].op = "restoreIp" => job[u].ip \in Ips
  BY JobFields DEF TypeOK

LEMMA LocatedPersists ==
    ASSUME Persist, NEW j, j.net \in Nets, JobLocated(j),
           j.op \in {"updatePool", "restorePool"} => j.pool \in Pools,
           j.op = "restoreIp" => j.ip \in Ips
    PROVE  JobLocated(j)'
  BY DEF Persist, JobLocated

\* The requests other than t, across a step that leaves them where they are and
\* writes at most rows of a network that none of them has locked.
LEMMA OthersKeep ==
    ASSUME TypeOK, InFlight, LockHeld, ChecksStillHold, Persist, NEW n \in Nets, OnlyNet(n),
           NEW u \in Tx, pc'[u] = pc[u], job'[u] = job[u],
           lock[n] # u \/ networks[n].state = "absent",
           \A m \in Nets : lock[m] = u => lock'[m] = u
    PROVE  /\ pc'[u] # "idle" => job'[u].op # "none" /\ JobLocated(job[u])'
           /\ pc'[u] \in {"locked", "checked"} => lock'[job'[u].net] = u
           /\ pc'[u] = "checked" => StillHolds(job[u])'
  <1>1. CASE pc[u] = "idle"
    BY <1>1
  <1>2. CASE pc[u] # "idle"
    <2>1. job[u].op # "none" /\ JobLocated(job[u])
      BY <1>2 DEF InFlight
    <2>2. /\ job[u] \in Job /\ job[u].net \in Nets
          /\ job[u].op \in {"updatePool", "restorePool"} => job[u].pool \in Pools
          /\ job[u].op = "restoreIp" => job[u].ip \in Ips
      BY <2>1, InFlightJob
    <2>3. PICK j \in Job : j = job[u]
      BY <2>2
    <2>4. JobLocated(j)'
      BY <2>1, <2>2, <2>3, LocatedPersists
    <2>5. pc[u] \in {"locked", "checked"} => lock'[j.net] = u
      BY <2>2, <2>3 DEF LockHeld
    <2>6. ASSUME pc[u] = "checked" PROVE StillHolds(j)'
      <3>1. StillHolds(j)
        BY <2>3, <2>6 DEF ChecksStillHold
      <3>2. lock[j.net] = u /\ networks[j.net].state # "absent"
        BY <2>1, <2>3, <2>6 DEF LockHeld, JobLocated
      <3>3. Kept(j.net)
        BY <2>2, <2>3, <3>2, OthersKept
      <3> QED BY <2>1, <2>2, <2>3, <3>1, <3>3, KeptHolds
    <2>7. job'[u] = j
      BY <2>3
    <2> QED BY <2>1, <2>3, <2>4, <2>5, <2>6, <2>7
  <1> QED BY <1>1, <1>2

\* LockDiscipline and the two invariants, one kind of step at a time.  First a
\* step of t that leaves the tables alone and takes up the request j.
LEMMA QuietKeeps ==
    ASSUME TypeOK, Safety, UNCHANGED tables, NEW t \in Tx, NEW j \in Job,
           pc' = [pc EXCEPT ![t] = pc'[t]],
           job' = [job EXCEPT ![t] = j],
           \A u \in Tx \ {t}, m \in Nets : lock[m] = u => lock'[m] = u,
           pc'[t] # "idle" => j.op # "none" /\ JobLocated(j),
           pc'[t] \in {"locked", "checked"} => lock'[j.net] = t,
           pc'[t] = "checked" => StillHolds(j)
    PROVE  Safety'
  <1>1. Persist /\ \A n \in Nets : OnlyNet(n)
    BY DEF tables, Persist, OnlyNet
  <1>2. NetworksExist' /\ LocationConsistent' /\ ReservedFree'
    BY DEF tables, Safety, LockDiscipline, NetworksExist, LocationConsistent, PoolFits,
           ReservedFree, Reserved, LivePools
  <1>3. job'[t] = j
    BY DEF TypeOK
  <1>4. /\ pc'[t] # "idle" => job'[t].op # "none" /\ JobLocated(job[t])'
        /\ pc'[t] \in {"locked", "checked"} => lock'[job'[t].net] = t
        /\ pc'[t] = "checked" => StillHolds(job[t])'
    <2>1. JobLocated(j)' <=> JobLocated(j)
      BY DEF tables, JobLocated
    <2>2. StillHolds(j)' <=> StillHolds(j)
      BY DEF tables, StillHolds, Reserved, LivePools, LiveIps, Vacant, InUse, LiveNet,
             Allocatable, Columns
    <2> QED BY <1>3, <2>1, <2>2
  <1>5. ASSUME NEW u \in Tx \ {t}
        PROVE  /\ pc'[u] # "idle" => job'[u].op # "none" /\ JobLocated(job[u])'
               /\ pc'[u] \in {"locked", "checked"} => lock'[job'[u].net] = u
               /\ pc'[u] = "checked" => StillHolds(job[u])'
    <2>1. pc'[u] = pc[u] /\ job'[u] = job[u]
      BY DEF TypeOK
    <2>2. CASE pc[u] = "idle"
      BY <2>1, <2>2
    <2>3. CASE pc[u] # "idle"
      <3>1. job[u].op # "none" /\ JobLocated(job[u]) /\ job[u].net \in Nets
        BY <2>3, InFlightJob DEF Safety, LockDiscipline, InFlight
      <3>2. PICK k : k = job[u]
        OBVIOUS
      <3>3. JobLocated(k)' /\ (StillHolds(k) => StillHolds(k)')
        BY <3>1, <3>2 DEF tables, JobLocated, StillHolds, Reserved, LivePools, LiveIps,
           Vacant, InUse, LiveNet, Allocatable, Columns
      <3>4. job'[u] = k
        BY <2>1, <3>2
      <3> QED BY <2>1, <3>1, <3>2, <3>3, <3>4
             DEF Safety, LockDiscipline, LockHeld, ChecksStillHold
    <2> QED BY <2>2, <2>3
  <1>6. InFlight' /\ LockHeld' /\ ChecksStillHold'
    BY <1>4, <1>5 DEF InFlight, LockHeld, ChecksStillHold
  <1> QED BY <1>2, <1>6 DEF Safety, LockDiscipline

\* A step of t that writes rows of the network it has locked and ends.
LEMMA WriteKeeps ==
    ASSUME TypeOK, TypeOK', Safety, NEW t \in Tx, pc[t] = "checked", End(t),
           Persist, OnlyNet(job[t].net),
           NetworksExist', LocationConsistent', ReservedFree'
    PROVE  Safety'
  <1>1. job[t].net \in Nets /\ lock[job[t].net] = t
    BY InFlightJob DEF Safety, LockDiscipline, InFlight, LockHeld
  <1>2. pc'[t] = "idle"
    BY DEF End, TypeOK
  <1>3. ASSUME NEW u \in Tx \ {t}
        PROVE  /\ pc'[u] # "idle" => job'[u].op # "none" /\ JobLocated(job[u])'
               /\ pc'[u] \in {"locked", "checked"} => lock'[job'[u].net] = u
               /\ pc'[u] = "checked" => StillHolds(job[u])'
    <2>1. /\ pc'[u] = pc[u] /\ job'[u] = job[u]
          /\ \A m \in Nets : lock[m] = u => lock'[m] = u
          /\ lock[job[t].net] # u
      BY <1>1 DEF End, TypeOK
    <2> QED BY <1>1, <2>1, OthersKeep DEF Safety, LockDiscipline
  <1>4. InFlight' /\ LockHeld' /\ ChecksStillHold'
    BY <1>2, <1>3 DEF InFlight, LockHeld, ChecksStillHold
  <1> QED BY <1>4 DEF Safety, LockDiscipline

\* A handler without the lock that writes rows of a network nobody has locked.
LEMMA UnlockedKeeps ==
    ASSUME TypeOK, TypeOK', Safety, UNCHANGED <<lock, pc, job>>, NEW n \in Nets,
           lock[n] = None \/ networks[n].state = "absent",
           Persist, OnlyNet(n),
           NetworksExist', LocationConsistent', ReservedFree'
    PROVE  Safety'
  <1>1. ASSUME NEW u \in Tx
        PROVE  /\ pc'[u] # "idle" => job'[u].op # "none" /\ JobLocated(job[u])'
               /\ pc'[u] \in {"locked", "checked"} => lock'[job'[u].net] = u
               /\ pc'[u] = "checked" => StillHolds(job[u])'
    <2>1. lock[n] # u \/ networks[n].state = "absent"
      BY NullsOK
    <2> QED BY <2>1, OthersKeep DEF Safety, LockDiscipline
  <1>2. InFlight' /\ LockHeld' /\ ChecksStillHold'
    BY <1>1 DEF InFlight, LockHeld, ChecksStillHold
  <1> QED BY <1>2 DEF Safety, LockDiscipline

LEMMA BeginKeeps ==
    ASSUME TypeOK, Safety, NEW t \in Tx, NEW j \in Job, j.op # "none", JobLocated(j),
           Begin(t, j)
    PROVE  Safety'
  <1>1. /\ UNCHANGED tables /\ lock' = lock
        /\ pc' = [pc EXCEPT ![t] = pc'[t]] /\ pc'[t] = "waiting"
        /\ job' = [job EXCEPT ![t] = j]
    BY DEF Begin, TypeOK
  <1> QED BY <1>1, QuietKeeps

LEMMA AcquireKeeps ==
    ASSUME TypeOK, Safety, NEW t \in Tx, Acquire(t) PROVE Safety'
  <1>1. PICK j \in Job : j = job[t]
    BY DEF TypeOK
  <1>2. j.op # "none" /\ JobLocated(j) /\ j.net \in Nets
    BY <1>1, InFlightJob DEF Acquire, Safety, LockDiscipline, InFlight
  <1>3. /\ UNCHANGED tables /\ lock' = [lock EXCEPT ![j.net] = t] /\ lock[j.net] = None
        /\ pc' = [pc EXCEPT ![t] = pc'[t]] /\ pc'[t] = "locked"
        /\ job' = [job EXCEPT ![t] = j]
    BY <1>1 DEF Acquire, TypeOK
  <1>4. lock'[j.net] = t
    BY <1>2, <1>3 DEF TypeOK
  <1>5. \A u \in Tx \ {t}, m \in Nets : lock[m] = u => lock'[m] = u
    BY <1>3, NullsOK DEF TypeOK
  <1> QED BY <1>2, <1>3, <1>4, <1>5, QuietKeeps

LEMMA AbortKeeps ==
    ASSUME TypeOK, Safety, NEW t \in Tx, Abort(t) PROVE Safety'
  <1>1. /\ UNCHANGED tables
        /\ pc' = [pc EXCEPT ![t] = pc'[t]] /\ pc'[t] = "idle"
        /\ job' = [job EXCEPT ![t] = NoJob]
        /\ \A u \in Tx \ {t}, m \in Nets : lock[m] = u => lock'[m] = u
    BY DEF Abort, End, TypeOK
  <1>2. NoJob \in Job
    BY DEF Job
  <1> QED BY <1>1, <1>2, QuietKeeps

\* A check that passes with what StillHolds asks of it.
LEMMA PassKeeps ==
    ASSUME TypeOK, Safety, NEW t \in Tx, pc[t] = "locked", NEW j \in Job, Pass(t, j),
           j.net = job[t].net, j.op # "none", JobLocated(j), StillHolds(j)
    PROVE  Safety'
  <1>1. /\ UNCHANGED tables /\ lock' = lock
        /\ pc' = [pc EXCEPT ![t] = pc'[t]]
        /\ job' = [job EXCEPT ![t] = j]
    BY DEF Pass, TypeOK
  <1>2. lock[j.net] = t
    BY DEF Safety, LockDiscipline, LockHeld
  <1> QED BY <1>1, <1>2, QuietKeeps

\* Where LiveIps carry their network's Cluster, the occupancy query finds them.
LEMMA UnoccupiedIsVacant ==
    ASSUME LocationConsistent, NEW n \in Nets, NEW r, Unoccupied(n, r) PROVE Vacant(n, r)
  BY DEF LocationConsistent, Unoccupied, AddressTaken, Vacant, LiveIps

-----------------------------------------------------------------------------
(* Networks.                                                               *)

\* A step that writes one networks row, which is not "absent" afterwards; its
\* cluster and cidr move only when no undeleted row depends on them.
LEMMA PutNetKeeps ==
    ASSUME TypeOK, Safety, NEW n \in Nets, NEW row \in NetRow, PutNet(n, row),
           row.state # "absent",
           \/ row.cluster = networks[n].cluster /\ row.cidr = networks[n].cidr
           \/ ~InUse(n)
    PROVE  Persist /\ OnlyNet(n) /\ NetworksExist' /\ LocationConsistent' /\ ReservedFree'
  <1>1. /\ networks' = [networks EXCEPT ![n] = row] /\ pools' = pools /\ ips' = ips
    BY DEF PutNet
  <1>2. /\ networks'[n] = row
        /\ \A m \in Nets \ {n} : networks'[m] = networks[m]
    BY <1>1 DEF TypeOK
  <1>3. Persist /\ OnlyNet(n)
    BY <1>1, <1>2 DEF Persist, OnlyNet
  <1>4. NetworksExist'
    BY <1>1, <1>2 DEF NetworksExist, Safety, LockDiscipline, TypeOK, PoolRow, IpRow
  <1>5. ReservedFree'
    BY <1>1 DEF ReservedFree, Reserved, LivePools, Safety
  <1>6. LocationConsistent'
    <2>1. \A i \in Ips : ips[i].net \in Nets
      BY DEF TypeOK, IpRow
    <2>2. \A p \in Pools : pools[p].net \in Nets
      BY DEF TypeOK, PoolRow
    <2>3. \A i \in Ips : ips[i].state = "live"
             => /\ networks'[ips[i].net].cluster = networks[ips[i].net].cluster
                /\ networks'[ips[i].net].cidr = networks[ips[i].net].cidr
      BY <1>2, <2>1 DEF InUse, LiveIps
    <2>4. \A p \in Pools : pools[p].state = "live"
             => networks'[pools[p].net].cidr = networks[pools[p].net].cidr
      BY <1>2, <2>2 DEF InUse, LivePools
    <2> QED BY <1>1, <2>3, <2>4 DEF LocationConsistent, PoolFits, Safety
  <1> QED BY <1>3, <1>4, <1>5, <1>6

LEMMA ChangedNetFields ==
    ASSUME NEW row \in NetRow, NEW ch \in NetChange
    PROVE  /\ ChangedNet(row, ch).state = row.state
           /\ ~MovesNetwork(ch) => /\ ChangedNet(row, ch).cluster = row.cluster
                                  /\ ChangedNet(row, ch).cidr = row.cidr
  BY DEF ChangedNet, NetRow, MovesNetwork, New

LEMMA NetworkStepKeeps ==
    ASSUME TypeOK, TypeOK', Safety, NEW t \in Tx, NetworkStep(t) PROVE Safety'
  <1>0. job[t] \in Job
    BY DEF TypeOK
  <1>1. ASSUME NEW n \in Nets, NEW ch \in NetworkChanges, ReadUpdateNetwork(t, n, ch)
        PROVE  Safety'
    <2> DEFINE j == [op |-> "updateNetwork", net |-> n, ver |-> networks[n].version,
                     change |-> ch]
    <2>1. networks[n].version \in Version /\ ch \in NetChange
      BY <1>1, ConstantsOK DEF ReadUpdateNetwork, TypeOK, NetRow, Version
    <2>2. j \in Job /\ j.op # "none" /\ JobLocated(j)
      BY <1>1, <2>1 DEF Job, JobLocated, ReadUpdateNetwork, LiveNet
    <2> QED BY <1>1, <2>2, BeginKeeps DEF ReadUpdateNetwork
  <1>2. CASE CheckUpdateNetwork(t)
    <2>1. pc[t] = "locked" /\ job[t].op = "updateNetwork" /\ Pass(t, job[t])
      BY <1>2 DEF CheckUpdateNetwork, Locked
    <2>2. JobLocated(job[t]) /\ job[t].net \in Nets
      BY <1>0, <2>1, JobFields DEF Safety, LockDiscipline, InFlight
    <2> DEFINE n == job[t].net
               gateway == job[t].change.gateway
    <2>3. ASSUME gateway # Same, NEW i \in LiveIps(n) PROVE ips[i].addr # gateway
      <3>1. ips[i].addr # None
        BY NullsOK DEF LiveIps, TypeOK, IpRow
      <3>2. CASE gateway = None
        BY <3>1, <3>2
      <3>3. CASE gateway # None
        <4>1. ~AddressTaken(networks[n].cluster, gateway)
          BY <1>2, <2>3, <3>3 DEF CheckUpdateNetwork, New
        <4>2. ips[i].state = "live" /\ ips[i].cluster = networks[n].cluster /\ i \in Ips
          BY DEF LiveIps, Safety, LocationConsistent
        <4> QED BY <4>1, <4>2 DEF AddressTaken
      <3> QED BY <3>2, <3>3
    <2>4. StillHolds(job[t])
      BY <1>2, <2>1, <2>3 DEF CheckUpdateNetwork, StillHolds
    <2> QED BY <1>0, <2>1, <2>2, <2>4, PassKeeps
  <1>3. CASE WriteUpdateNetwork(t)
    <2> DEFINE n == job[t].net
               ch == job[t].change
               row == ChangedNet(networks[n], ch)
    <2>1. /\ pc[t] = "checked" /\ job[t].op = "updateNetwork" /\ End(t)
          /\ LiveNet(n) /\ networks[n].version = job[t].ver /\ PutNet(n, row)
      BY <1>3 DEF WriteUpdateNetwork, Checked
    <2>2. n \in Nets /\ ch \in NetChange /\ job[t].ver \in Version
      BY <1>0, <2>1, JobFields
    <2>3. networks[n] \in NetRow /\ row \in NetRow
      BY <2>1, <2>2, VersionLeft, ChangedNetTyped DEF TypeOK
    <2>4. row.state # "absent"
      BY <2>1, <2>2, <2>3, ChangedNetFields DEF LiveNet
    <2>5. \/ row.cluster = networks[n].cluster /\ row.cidr = networks[n].cidr
          \/ ~InUse(n)
      BY <2>1, <2>2, <2>3, ChangedNetFields
         DEF Safety, LockDiscipline, ChecksStillHold, StillHolds
    <2> HIDE DEF row
    <2>6. Persist /\ OnlyNet(n) /\ NetworksExist' /\ LocationConsistent' /\ ReservedFree'
      BY <2>1, <2>2, <2>3, <2>4, <2>5, PutNetKeeps
    <2> QED BY <2>1, <2>6, WriteKeeps
  <1>4. ASSUME NEW n \in Nets, ReadDeleteNetwork(t, n) PROVE Safety'
    <2> DEFINE j == [op |-> "deleteNetwork", net |-> n, ver |-> networks[n].version]
    <2>1. networks[n].version \in Version
      BY <1>4, ConstantsOK DEF ReadDeleteNetwork, TypeOK, NetRow, Version
    <2>2. j \in Job /\ j.op # "none" /\ JobLocated(j)
      BY <1>4, <2>1 DEF Job, JobLocated, ReadDeleteNetwork, LiveNet
    <2> QED BY <1>4, <2>2, BeginKeeps DEF ReadDeleteNetwork
  <1>5. CASE CheckDeleteNetwork(t)
    <2>1. pc[t] = "locked" /\ job[t].op = "deleteNetwork" /\ Pass(t, job[t])
      BY <1>5 DEF CheckDeleteNetwork, Locked
    <2>2. JobLocated(job[t])
      BY <2>1 DEF Safety, LockDiscipline, InFlight
    <2>3. StillHolds(job[t])
      BY <1>5, <2>1 DEF CheckDeleteNetwork, StillHolds
    <2> QED BY <1>0, <2>1, <2>2, <2>3, PassKeeps
  <1>6. CASE WriteDeleteNetwork(t)
    <2> DEFINE n == job[t].net
               row == [networks[n] EXCEPT !.state = "deleted", !.version = @ + 1]
    <2>1. /\ pc[t] = "checked" /\ job[t].op = "deleteNetwork" /\ End(t)
          /\ networks[n].version = job[t].ver /\ PutNet(n, row)
      BY <1>6 DEF WriteDeleteNetwork, Checked
    <2>2. n \in Nets /\ job[t].ver \in Version
      BY <1>0, <2>1, JobFields
    <2>3. row \in NetRow
      BY <2>1, <2>2, VersionLeft, BumpTyped DEF TypeOK, RowState
    <2>4. /\ row.state # "absent"
          /\ row.cluster = networks[n].cluster /\ row.cidr = networks[n].cidr
      BY <2>2 DEF TypeOK, NetRow
    <2> HIDE DEF row
    <2>5. Persist /\ OnlyNet(n) /\ NetworksExist' /\ LocationConsistent' /\ ReservedFree'
      BY <2>1, <2>2, <2>3, <2>4, PutNetKeeps
    <2> QED BY <2>1, <2>5, WriteKeeps
  <1> QED BY <1>1, <1>2, <1>3, <1>4, <1>5, <1>6 DEF NetworkStep

-----------------------------------------------------------------------------
(* IP pools.                                                               *)

\* A step that writes one ip_pools row: where it is undeleted it lies in its
\* network's CIDR, and where it is RESERVED no undeleted address lies in it.
LEMMA PutPoolKeeps ==
    ASSUME TypeOK, Safety, NEW p \in Pools, NEW row \in PoolRow, PutPool(p, row),
           row.state # "absent", networks[row.net].state # "absent",
           pools[p].state = "absent" \/ pools[p].net = row.net,
           row.state = "live" => PoolFits(row.net, row.range),
           row.state = "live" /\ row.mode = "RESERVED" => Vacant(row.net, row.range)
    PROVE  Persist /\ OnlyNet(row.net) /\ NetworksExist' /\ LocationConsistent' /\ ReservedFree'
  <1>1. /\ networks' = networks /\ ips' = ips
        /\ pools'[p] = row
        /\ \A q \in Pools \ {p} : pools'[q] = pools[q]
    BY DEF PutPool, TypeOK
  <1>2. Persist /\ OnlyNet(row.net)
    BY <1>1 DEF Persist, OnlyNet
  <1>3. NetworksExist'
    BY <1>1 DEF NetworksExist, Safety, LockDiscipline
  <1>4. LocationConsistent'
    BY <1>1 DEF LocationConsistent, PoolFits, Safety
  <1>5. ReservedFree'
    <2> SUFFICES ASSUME NEW i \in Ips, ips[i].state = "live", NEW q \in Pools,
                        pools'[q].state = "live", pools'[q].net = ips[i].net,
                        pools'[q].mode = "RESERVED", ips[i].addr \in Block(pools'[q].range)
                 PROVE  FALSE
      BY <1>1 DEF ReservedFree, Reserved, LivePools
    <2>1. CASE q = p
      BY <1>1, <2>1 DEF Vacant, LiveIps
    <2>2. CASE q # p
      <3>1. ips[i].addr \in Reserved(ips[i].net)
        BY <1>1, <2>2, InReserved DEF TypeOK, IpRow
      <3> QED BY <3>1 DEF Safety, ReservedFree
    <2> QED BY <2>1, <2>2
  <1> QED BY <1>2, <1>3, <1>4, <1>5

\* A range that grows at neither end lies in the old one.
LEMMA NarrowerIsVacant ==
    ASSUME TypeOK, Safety, NEW p \in Pools, NEW r \in Interval,
           pools[p].state = "live", pools[p].mode = "RESERVED",
           ~(r.lo < pools[p].range.lo), ~(r.hi > pools[p].range.hi)
    PROVE  Vacant(pools[p].net, r)
  <1>1. pools[p].range \in Interval
    BY DEF TypeOK, PoolRow
  <1>2. Block(r) \subseteq Block(pools[p].range)
    BY <1>1 DEF Block, Interval, Addr
  <1>3. \A a \in Block(pools[p].range) : a \in Reserved(pools[p].net)
    BY DEF Reserved, LivePools
  <1> QED BY <1>2, <1>3 DEF Vacant, LiveIps, Safety, ReservedFree

LEMMA PoolStepKeeps ==
    ASSUME TypeOK, TypeOK', Safety, NEW t \in Tx, PoolStep(t) PROVE Safety'
  <1>0. job[t] \in Job
    BY DEF TypeOK
  <1>1. ASSUME NEW n \in Nets, NEW in \in PoolInputs, ReadCreatePool(t, n, in)
        PROVE  Safety'
    <2> DEFINE j == [op |-> "createPool", net |-> n, input |-> in, seen |-> Columns(n)]
    <2>1. in \in PoolColumns /\ Columns(n) \in NetColumns
      BY ConstantsOK, ColumnsTyped
    <2>2. j \in Job /\ j.op # "none" /\ JobLocated(j)
      BY <1>1, <2>1 DEF Job, JobLocated, ReadCreatePool, LiveNet
    <2> QED BY <1>1, <2>2, BeginKeeps DEF ReadCreatePool
  <1>2. CASE CheckCreatePool(t)
    <2>1. pc[t] = "locked" /\ job[t].op = "createPool" /\ Pass(t, job[t])
      BY <1>2 DEF CheckCreatePool, Locked
    <2>2. JobLocated(job[t]) /\ job[t].net \in Nets
      BY <1>0, <2>1, JobFields DEF Safety, LockDiscipline, InFlight
    <2>3. StillHolds(job[t])
      BY <1>2, <2>1, <2>2, UnoccupiedIsVacant DEF CheckCreatePool, StillHolds, Safety
    <2> QED BY <1>0, <2>1, <2>2, <2>3, PassKeeps
  <1>3. CASE WriteCreatePool(t)
    <2> DEFINE n == job[t].net
               in == job[t].input
               row == [state |-> "live", version |-> 1, net |-> n,
                       range |-> in.range, mode |-> in.mode]
    <2>1. pc[t] = "checked" /\ job[t].op = "createPool" /\ End(t)
      BY <1>3 DEF WriteCreatePool, Checked
    <2>2. PICK p \in Pools : /\ pools[p].state = "absent"
                             /\ PoolFits(n, in.range) /\ PutPool(p, row)
      BY <1>3 DEF WriteCreatePool
    <2>3. n \in Nets /\ in \in PoolColumns
      BY <1>0, <2>1, JobFields
    <2>4. row \in PoolRow
      BY <2>3, ConstantsOK DEF PoolRow, PoolColumns, RowState
    <2>5. networks[n].state # "absent"
      BY <2>1 DEF Safety, LockDiscipline, InFlight, JobLocated
    <2>6. in.mode = "RESERVED" => Vacant(n, in.range)
      BY <2>1 DEF Safety, LockDiscipline, ChecksStillHold, StillHolds
    <2>7. /\ row.state = "live" /\ row.net = n
          /\ row.range = in.range /\ row.mode = in.mode
      OBVIOUS
    <2> HIDE DEF row
    <2>8. Persist /\ OnlyNet(n) /\ NetworksExist' /\ LocationConsistent' /\ ReservedFree'
      BY <2>2, <2>4, <2>5, <2>6, <2>7, PutPoolKeeps
    <2> QED BY <2>1, <2>8, WriteKeeps
  <1>4. ASSUME NEW p \in Pools, NEW ch \in PoolChanges, ReadUpdatePool(t, p, ch)
        PROVE  Safety'
    <2> DEFINE j == [op |-> "updatePool", net |-> pools[p].net, pool |-> p,
                     ver |-> pools[p].version, change |-> ch]
    <2>1. pools[p].version \in Version /\ pools[p].net \in Nets /\ ch \in PoolChange
      BY <1>4, ConstantsOK DEF ReadUpdatePool, TypeOK, PoolRow, Version
    <2>2. networks[pools[p].net].state # "absent"
      BY <1>4 DEF ReadUpdatePool, Safety, LockDiscipline, NetworksExist
    <2>3. j \in Job /\ j.op # "none" /\ JobLocated(j)
      BY <1>4, <2>1, <2>2 DEF Job, JobLocated, ReadUpdatePool
    <2> QED BY <1>4, <2>3, BeginKeeps DEF ReadUpdatePool
  <1>5. CASE CheckUpdatePool(t)
    <2> DEFINE p == job[t].pool
               n == job[t].net
               ch == job[t].change
               range == New(ch.range, pools[p].range)
    <2>1. pc[t] = "locked" /\ job[t].op = "updatePool" /\ Pass(t, job[t])
      BY <1>5 DEF CheckUpdatePool, Locked
    <2>2. JobLocated(job[t]) /\ n \in Nets /\ p \in Pools /\ ch \in PoolChange
      BY <1>0, <2>1, JobFields DEF Safety, LockDiscipline, InFlight
    <2>3. range \in Interval /\ pools[p].net = n
      BY <2>1, <2>2, NewIsOld DEF TypeOK, PoolRow, PoolChange, JobLocated
    <2>4. ASSUME pools[p].state = "live", New(ch.mode, pools[p].mode) = "RESERVED"
          PROVE  Vacant(n, range)
      <3>1. CASE NeedsOccupancyCheck(pools[p], ch)
        BY <1>5, <2>2, <3>1, UnoccupiedIsVacant DEF CheckUpdatePool, Safety
      <3>2. CASE ~NeedsOccupancyCheck(pools[p], ch)
        <4>1. /\ pools[p].mode = "RESERVED"
              /\ ~(range.lo < pools[p].range.lo) /\ ~(range.hi > pools[p].range.hi)
          BY <2>4, <3>2 DEF NeedsOccupancyCheck
        <4> HIDE DEF range
        <4> QED BY <2>2, <2>3, <2>4, <4>1, NarrowerIsVacant
      <3> QED BY <3>1, <3>2
    <2>5. StillHolds(job[t])
      BY <2>1, <2>4 DEF StillHolds
    <2> QED BY <1>0, <2>1, <2>2, <2>5, PassKeeps
  <1>6. CASE WriteUpdatePool(t)
    <2> DEFINE p == job[t].pool
               n == job[t].net
               ch == job[t].change
               range == New(ch.range, pools[p].range)
               mode == New(ch.mode, pools[p].mode)
               row == [pools[p] EXCEPT !.version = @ + 1, !.range = New(ch.range, @),
                                       !.mode = New(ch.mode, @)]
    <2>1. /\ pc[t] = "checked" /\ job[t].op = "updatePool" /\ End(t)
          /\ pools[p].state = "live" /\ pools[p].version = job[t].ver
          /\ PoolFits(row.net, row.range) /\ PutPool(p, row)
      BY <1>6 DEF WriteUpdatePool, Checked
    <2>2. p \in Pools /\ n \in Nets /\ job[t].ver \in Version /\ ch \in PoolChange
      BY <1>0, <2>1, JobFields
    <2>3. pools[p] \in PoolRow /\ pools[p].version + 1 \in 0..MaxVersion
      BY <2>1, <2>2, VersionLeft, ConstantsOK DEF TypeOK, PoolRow
    <2>4. range \in Interval /\ mode \in Mode
      BY <2>2, <2>3, NewIsOld DEF PoolRow, PoolChange
    <2>5. row \in PoolRow
      BY <2>3, <2>4 DEF PoolRow
    <2>6. pools[p].net = n /\ networks[n].state # "absent"
      BY <2>1 DEF Safety, LockDiscipline, InFlight, JobLocated
    <2>7. /\ row.state = "live" /\ row.net = n
          /\ row.range = range /\ row.mode = mode
      BY <2>1, <2>3, <2>6 DEF PoolRow
    <2>8. mode = "RESERVED" => Vacant(n, range)
      BY <2>1 DEF Safety, LockDiscipline, ChecksStillHold, StillHolds
    <2> HIDE DEF row, range, mode
    <2>9. Persist /\ OnlyNet(n) /\ NetworksExist' /\ LocationConsistent' /\ ReservedFree'
      BY <2>1, <2>2, <2>5, <2>6, <2>7, <2>8, PutPoolKeeps
    <2> QED BY <2>1, <2>9, WriteKeeps
  <1>7. ASSUME NEW p \in Pools, ReadRestorePool(t, p) PROVE Safety'
    <2> DEFINE j == [op |-> "restorePool", net |-> pools[p].net, pool |-> p,
                     ver |-> pools[p].version]
    <2>1. pools[p].version \in Version /\ pools[p].net \in Nets
      BY <1>7, ConstantsOK DEF ReadRestorePool, TypeOK, PoolRow, Version
    <2>2. networks[pools[p].net].state # "absent"
      BY <1>7 DEF ReadRestorePool, Safety, LockDiscipline, NetworksExist
    <2>3. j \in Job /\ j.op # "none" /\ JobLocated(j)
      BY <1>7, <2>1, <2>2 DEF Job, JobLocated, ReadRestorePool
    <2> QED BY <1>7, <2>3, BeginKeeps DEF ReadRestorePool
  <1>8. CASE CheckRestorePool(t)
    <2>1. pc[t] = "locked" /\ job[t].op = "restorePool" /\ Pass(t, job[t])
      BY <1>8 DEF CheckRestorePool, Locked
    <2>2. JobLocated(job[t]) /\ job[t].net \in Nets
      BY <1>0, <2>1, JobFields DEF Safety, LockDiscipline, InFlight
    <2>3. StillHolds(job[t])
      BY <1>8, <2>1, <2>2, UnoccupiedIsVacant DEF CheckRestorePool, StillHolds, Safety
    <2> QED BY <1>0, <2>1, <2>2, <2>3, PassKeeps
  <1>9. CASE WriteRestorePool(t)
    <2> DEFINE p == job[t].pool
               n == job[t].net
               row == [pools[p] EXCEPT !.state = "live", !.version = @ + 1]
    <2>1. /\ pc[t] = "checked" /\ job[t].op = "restorePool" /\ End(t)
          /\ pools[p].version = job[t].ver
          /\ PoolFits(n, pools[p].range) /\ PutPool(p, row)
      BY <1>9 DEF WriteRestorePool, Checked
    <2>2. p \in Pools /\ n \in Nets /\ job[t].ver \in Version
      BY <1>0, <2>1, JobFields
    <2>3. row \in PoolRow
      BY <2>1, <2>2, VersionLeft, BumpTyped DEF TypeOK, RowState
    <2>4. pools[p].net = n /\ networks[n].state # "absent"
      BY <2>1 DEF Safety, LockDiscipline, InFlight, JobLocated
    <2>5. /\ row.state = "live" /\ row.net = n
          /\ row.range = pools[p].range /\ row.mode = pools[p].mode
      BY <2>2, <2>4 DEF TypeOK, PoolRow
    <2>6. pools[p].mode = "RESERVED" => Vacant(n, pools[p].range)
      BY <2>1 DEF Safety, LockDiscipline, ChecksStillHold, StillHolds
    <2> HIDE DEF row
    <2>7. Persist /\ OnlyNet(n) /\ NetworksExist' /\ LocationConsistent' /\ ReservedFree'
      BY <2>1, <2>2, <2>3, <2>4, <2>5, <2>6, PutPoolKeeps
    <2> QED BY <2>1, <2>7, WriteKeeps
  <1> QED BY <1>1, <1>2, <1>3, <1>4, <1>5, <1>6, <1>7, <1>8, <1>9 DEF PoolStep

-----------------------------------------------------------------------------
(* IP addresses.                                                           *)

\* A step that writes one ip_addresses row: where it is undeleted it has the
\* Cluster of its network, lies in the usable part and in no RESERVED pool.
LEMMA PutIpKeeps ==
    ASSUME TypeOK, Safety, NEW i \in Ips, NEW row \in IpRow, PutIp(i, row),
           row.state # "absent", networks[row.net].state # "absent",
           ips[i].state = "absent" \/ ips[i].net = row.net,
           row.state = "live"
              => /\ row.cluster = networks[row.net].cluster
                 /\ row.addr \in Usable(networks[row.net].cidr) \ Disabled
                 /\ row.addr \notin Reserved(row.net)
    PROVE  Persist /\ OnlyNet(row.net) /\ NetworksExist' /\ LocationConsistent' /\ ReservedFree'
  <1>1. /\ networks' = networks /\ pools' = pools
        /\ ips'[i] = row
        /\ \A k \in Ips \ {i} : ips'[k] = ips[k]
    BY DEF PutIp, TypeOK
  <1>2. Persist /\ OnlyNet(row.net)
    BY <1>1 DEF Persist, OnlyNet
  <1>3. NetworksExist'
    BY <1>1 DEF NetworksExist, Safety, LockDiscipline
  <1>4. LocationConsistent'
    BY <1>1 DEF LocationConsistent, PoolFits, Safety
  <1>5. \A n : Reserved(n)' = Reserved(n)
    BY <1>1 DEF Reserved, LivePools
  <1>6. ReservedFree'
    <2> SUFFICES ASSUME NEW k \in Ips, ips'[k].state = "live"
                 PROVE  ips'[k].addr \notin Reserved(ips[k].net)'
      BY DEF ReservedFree
    <2>1. PICK n : n = ips'[k].net
      OBVIOUS
    <2>2. ips'[k].addr \notin Reserved(n)
      BY <1>1, <2>1 DEF Safety, ReservedFree
    <2>3. Reserved(n)' = Reserved(n)
      BY <1>5
    <2> QED BY <2>1, <2>2, <2>3
  <1> QED BY <1>2, <1>3, <1>4, <1>6

LEMMA FreeIsUnreserved ==
    ASSUME NEW n, NEW cols, NEW a, a \in Allocatable(n, cols)
    PROVE  a \notin Reserved(n)
  BY DEF Allocatable

LEMMA IpStepKeeps ==
    ASSUME TypeOK, TypeOK', Safety, NEW t \in Tx, IpStep(t) PROVE Safety'
  <1>0. job[t] \in Job
    BY DEF TypeOK
  <1> DEFINE Allocation == [op : {"createIp", "autoAllocate"}, net : Nets,
                            addr : Addr \cup {None}, pool : Pools \cup {None},
                            seen : NetColumns]
  <1>1. ASSUME NEW n \in Nets, NEW a \in Addr, ReadCreateIp(t, n, a) PROVE Safety'
    <2> DEFINE j == [op |-> "createIp", net |-> n, addr |-> a, pool |-> None,
                     seen |-> Columns(n)]
    <2>1. j \in Job /\ j.op # "none" /\ JobLocated(j)
      BY <1>1, ColumnsTyped DEF Job, JobLocated, ReadCreateIp, LiveNet
    <2> QED BY <1>1, <2>1, BeginKeeps DEF ReadCreateIp
  <1>2. CASE CheckCreateIp(t)
    <2> DEFINE pool == DerivedPool(job[t].net, job[t].addr)
               j == [job[t] EXCEPT !.pool = pool]
    <2>1. /\ pc[t] = "locked" /\ job[t].op = "createIp" /\ Pass(t, j)
          /\ job[t].addr \in Allocatable(job[t].net, job[t].seen)
      BY <1>2 DEF CheckCreateIp, Locked
    <2>2. pool \in Pools \cup {None}
      BY DEF DerivedPool, LivePools
    <2>3. job[t] \in Allocation
      BY <1>0, <2>1 DEF Job, NoJob
    <2> HIDE DEF pool
    <2>4. j \in Job /\ j.op = "createIp" /\ j.net = job[t].net /\ j.addr = job[t].addr
      BY <2>1, <2>2, <2>3 DEF Job
    <2> HIDE DEF j
    <2>5. JobLocated(j)
      BY <2>1, <2>4 DEF JobLocated, Safety, LockDiscipline, InFlight
    <2>6. StillHolds(j)
      BY <2>1, <2>4, FreeIsUnreserved DEF StillHolds
    <2> QED BY <2>1, <2>4, <2>5, <2>6, PassKeeps
  <1>3. ASSUME NEW n \in Nets, NEW p \in Pools, ReadAutoAllocate(t, n, p) PROVE Safety'
    <2> DEFINE j == [op |-> "autoAllocate", net |-> n, addr |-> None, pool |-> p,
                     seen |-> Columns(n)]
    <2>1. j \in Job /\ j.op # "none" /\ JobLocated(j)
      BY <1>3, ColumnsTyped DEF Job, JobLocated, ReadAutoAllocate, LiveNet
    <2> QED BY <1>3, <2>1, BeginKeeps DEF ReadAutoAllocate
  <1>4. CASE CheckAutoAllocate(t)
    <2>1. pc[t] = "locked" /\ job[t].op = "autoAllocate" /\ job[t].pool \in Pools
      BY <1>4 DEF CheckAutoAllocate, Locked, LivePools
    <2>2. PICK a \in FreeIn(job[t].pool, job[t].net, job[t].seen) :
             Pass(t, [job[t] EXCEPT !.addr = a])
      BY <1>4 DEF CheckAutoAllocate
    <2> DEFINE j == [job[t] EXCEPT !.addr = a]
    <2>3. pools[job[t].pool].range \in Interval
      BY <2>1 DEF TypeOK, PoolRow
    <2>4. a \in Addr /\ a \in Allocatable(job[t].net, job[t].seen)
      BY <2>2, <2>3, UsableIsAddr DEF FreeIn
    <2>5. job[t] \in Allocation
      BY <1>0, <2>1 DEF Job, NoJob
    <2>6. j \in Job /\ j.op = "autoAllocate" /\ j.net = job[t].net /\ j.addr = a
      BY <2>1, <2>4, <2>5 DEF Job
    <2>7. Pass(t, j)
      BY <2>2
    <2> HIDE DEF j
    <2>8. JobLocated(j)
      BY <2>1, <2>6 DEF JobLocated, Safety, LockDiscipline, InFlight
    <2>9. StillHolds(j)
      BY <2>4, <2>6, FreeIsUnreserved DEF StillHolds
    <2> QED BY <2>1, <2>6, <2>7, <2>8, <2>9, PassKeeps
  <1>5. CASE WriteAllocation(t)
    <2> DEFINE n == job[t].net
               row == [state |-> "live", version |-> 1, net |-> n,
                       cluster |-> job[t].seen.cluster, addr |-> job[t].addr,
                       pool |-> job[t].pool]
    <2>1. pc[t] = "checked" /\ job[t].op \in {"createIp", "autoAllocate"} /\ End(t)
      BY <1>5 DEF WriteAllocation
    <2>2. PICK i \in Ips : /\ ips[i].state = "absent"
                           /\ IpFits(n, job[t].seen.cluster, job[t].addr)
                           /\ PutIp(i, row)
      BY <1>5 DEF WriteAllocation
    <2>3. ips'[i] = row
      BY <2>2 DEF PutIp, TypeOK
    <2>4. row \in IpRow
      BY <2>3 DEF TypeOK
    <2>5. networks[n].state # "absent" /\ job[t].addr \notin Reserved(n)
      BY <2>1 DEF Safety, LockDiscipline, InFlight, JobLocated, ChecksStillHold, StillHolds
    <2>6. /\ row.state = "live" /\ row.net = n
          /\ row.addr = job[t].addr /\ row.cluster = job[t].seen.cluster
      OBVIOUS
    <2> HIDE DEF row
    <2>7. Persist /\ OnlyNet(n) /\ NetworksExist' /\ LocationConsistent' /\ ReservedFree'
      BY <2>2, <2>4, <2>5, <2>6, PutIpKeeps DEF IpFits
    <2> QED BY <2>1, <2>7, WriteKeeps
  <1>6. ASSUME NEW i \in Ips, ReadRestoreIp(t, i) PROVE Safety'
    <2> DEFINE j == [op |-> "restoreIp", net |-> ips[i].net, ip |-> i, ver |-> ips[i].version]
    <2>1. ips[i].version \in Version /\ ips[i].net \in Nets
      BY <1>6, ConstantsOK DEF ReadRestoreIp, TypeOK, IpRow, Version
    <2>2. networks[ips[i].net].state # "absent"
      BY <1>6 DEF ReadRestoreIp, Safety, LockDiscipline, NetworksExist
    <2>3. j \in Job /\ j.op # "none" /\ JobLocated(j)
      BY <1>6, <2>1, <2>2 DEF Job, JobLocated, ReadRestoreIp
    <2> QED BY <1>6, <2>3, BeginKeeps DEF ReadRestoreIp
  <1>7. CASE CheckRestoreIp(t)
    <2>1. /\ pc[t] = "locked" /\ job[t].op = "restoreIp" /\ Pass(t, job[t])
          /\ LiveNet(job[t].net)
          /\ ips[job[t].ip].addr \in Allocatable(job[t].net, Columns(job[t].net))
      BY <1>7 DEF CheckRestoreIp, Locked
    <2>2. JobLocated(job[t])
      BY <2>1 DEF Safety, LockDiscipline, InFlight
    <2>3. StillHolds(job[t])
      BY <2>1 DEF StillHolds
    <2> QED BY <1>0, <2>1, <2>2, <2>3, PassKeeps
  <1>8. CASE WriteRestoreIp(t)
    <2> DEFINE i == job[t].ip
               n == job[t].net
               row == [ips[i] EXCEPT !.state = "live", !.version = @ + 1]
    <2>1. /\ pc[t] = "checked" /\ job[t].op = "restoreIp" /\ End(t)
          /\ IpFits(n, ips[i].cluster, ips[i].addr) /\ PutIp(i, row)
      BY <1>8 DEF WriteRestoreIp, Checked
    <2>2. i \in Ips /\ n \in Nets
      BY <1>0, <2>1, JobFields
    <2>3. ips'[i] = row
      BY <2>1, <2>2 DEF PutIp, TypeOK
    <2>4. row \in IpRow
      BY <2>2, <2>3 DEF TypeOK
    <2>5. ips[i].net = n /\ networks[n].state # "absent" /\ ips[i].addr \notin Reserved(n)
      BY <2>1, FreeIsUnreserved
         DEF Safety, LockDiscipline, InFlight, JobLocated, ChecksStillHold, StillHolds
    <2>6. /\ row.state = "live" /\ row.net = n
          /\ row.addr = ips[i].addr /\ row.cluster = ips[i].cluster
      BY <2>2, <2>5 DEF TypeOK, IpRow
    <2> HIDE DEF row
    <2>7. Persist /\ OnlyNet(n) /\ NetworksExist' /\ LocationConsistent' /\ ReservedFree'
      BY <2>1, <2>2, <2>4, <2>5, <2>6, PutIpKeeps DEF IpFits
    <2> QED BY <2>1, <2>7, WriteKeeps
  <1> QED BY <1>1, <1>2, <1>3, <1>4, <1>5, <1>6, <1>7, <1>8 DEF IpStep

-----------------------------------------------------------------------------
(* The handlers without the lock, and the theorems.                        *)

LEMMA UnlockedStepKeeps ==
    ASSUME TypeOK, TypeOK', Safety, UnlockedStep PROVE Safety'
  <1>1. ASSUME NEW n \in Nets, NEW in \in NetworkInputs, CreateNetwork(n, in) PROVE Safety'
    <2> DEFINE row == [state |-> "live", version |-> 1, cluster |-> in.cluster,
                       cidr |-> in.cidr, gateway |-> in.gateway,
                       status |-> in.status, auto |-> in.auto]
    <2>1. PutNet(n, row) /\ networks[n].state = "absent" /\ UNCHANGED <<lock, pc, job>>
      BY <1>1 DEF CreateNetwork
    <2>2. networks'[n] = row
      BY <2>1 DEF PutNet, TypeOK
    <2>3. row \in NetRow /\ row.state = "live"
      BY <2>2 DEF TypeOK
    <2>4. ~InUse(n)
      BY <2>1 DEF InUse, LivePools, LiveIps, Safety, LockDiscipline, NetworksExist
    <2> HIDE DEF row
    <2>5. Persist /\ OnlyNet(n) /\ NetworksExist' /\ LocationConsistent' /\ ReservedFree'
      BY <2>1, <2>3, <2>4, PutNetKeeps
    <2> QED BY <2>1, <2>5, UnlockedKeeps
  <1>2. ASSUME NEW n \in Nets, NEW ch \in NetworkChanges, SwitchNetwork(n, ch) PROVE Safety'
    <2> DEFINE row == ChangedNet(networks[n], ch)
    <2>1. /\ PutNet(n, row) /\ lock[n] = None /\ UNCHANGED <<lock, pc, job>>
          /\ LiveNet(n) /\ ~MovesNetwork(ch)
      BY <1>2 DEF SwitchNetwork
    <2>2. networks[n] \in NetRow /\ ch \in NetChange
      BY ConstantsOK DEF TypeOK
    <2>3. networks'[n] = row
      BY <2>1 DEF PutNet, TypeOK
    <2>4. row \in NetRow
      BY <2>3 DEF TypeOK
    <2>5. /\ row.state # "absent"
          /\ row.cluster = networks[n].cluster /\ row.cidr = networks[n].cidr
      BY <2>1, <2>2, ChangedNetFields DEF LiveNet
    <2> HIDE DEF row
    <2>6. Persist /\ OnlyNet(n) /\ NetworksExist' /\ LocationConsistent' /\ ReservedFree'
      BY <2>1, <2>4, <2>5, PutNetKeeps
    <2> QED BY <2>1, <2>6, UnlockedKeeps
  <1>3. ASSUME NEW n \in Nets, RestoreNetwork(n) PROVE Safety'
    <2> DEFINE row == [networks[n] EXCEPT !.state = "live", !.version = @ + 1]
    <2>1. PutNet(n, row) /\ lock[n] = None /\ UNCHANGED <<lock, pc, job>>
      BY <1>3 DEF RestoreNetwork
    <2>2. networks'[n] = row
      BY <2>1 DEF PutNet, TypeOK
    <2>3. /\ row \in NetRow /\ row.state # "absent"
          /\ row.cluster = networks[n].cluster /\ row.cidr = networks[n].cidr
      BY <2>2 DEF TypeOK, NetRow
    <2> HIDE DEF row
    <2>4. Persist /\ OnlyNet(n) /\ NetworksExist' /\ LocationConsistent' /\ ReservedFree'
      BY <2>1, <2>3, PutNetKeeps
    <2> QED BY <2>1, <2>4, UnlockedKeeps
  <1>4. ASSUME NEW p \in Pools, DeletePool(p) PROVE Safety'
    <2> DEFINE row == [pools[p] EXCEPT !.state = "deleted", !.version = @ + 1]
               n == pools[p].net
    <2>1. /\ PutPool(p, row) /\ lock[n] = None /\ UNCHANGED <<lock, pc, job>>
          /\ pools[p].state = "live"
      BY <1>4 DEF DeletePool
    <2>2. pools'[p] = row
      BY <2>1 DEF PutPool, TypeOK
    <2>3. row \in PoolRow /\ row.state = "deleted" /\ row.net = n /\ n \in Nets
      BY <2>2 DEF TypeOK, PoolRow
    <2>4. networks[n].state # "absent"
      BY <2>1 DEF Safety, LockDiscipline, NetworksExist
    <2> HIDE DEF row
    <2>5. Persist /\ OnlyNet(n) /\ NetworksExist' /\ LocationConsistent' /\ ReservedFree'
      BY <2>1, <2>3, <2>4, PutPoolKeeps
    <2> QED BY <2>1, <2>3, <2>5, UnlockedKeeps
  <1>5. ASSUME NEW i \in Ips, DeleteIp(i) PROVE Safety'
    <2> DEFINE row == [ips[i] EXCEPT !.state = "deleted", !.version = @ + 1]
               n == ips[i].net
    <2>1. /\ PutIp(i, row) /\ lock[n] = None /\ UNCHANGED <<lock, pc, job>>
          /\ ips[i].state = "live"
      BY <1>5 DEF DeleteIp
    <2>2. ips'[i] = row
      BY <2>1 DEF PutIp, TypeOK
    <2>3. row \in IpRow /\ row.state = "deleted" /\ row.net = n /\ n \in Nets
      BY <2>2 DEF TypeOK, IpRow
    <2>4. networks[n].state # "absent"
      BY <2>1 DEF Safety, LockDiscipline, NetworksExist
    <2> HIDE DEF row
    <2>5. Persist /\ OnlyNet(n) /\ NetworksExist' /\ LocationConsistent' /\ ReservedFree'
      BY <2>1, <2>3, <2>4, PutIpKeeps
    <2> QED BY <2>1, <2>3, <2>5, UnlockedKeeps
  <1> QED BY <1>1, <1>2, <1>3, <1>4, <1>5 DEF UnlockedStep

LEMMA InitSafe == Init => Safety
  <1> SUFFICES ASSUME Init PROVE Safety
    OBVIOUS
  <1>1. /\ \A p \in Pools : pools[p].state = "absent"
        /\ \A i \in Ips : ips[i].state = "absent"
        /\ \A t \in Tx : pc[t] = "idle"
    BY DEF Init, NoPool, NoIp
  <1> QED BY <1>1 DEF Safety, LockDiscipline, NetworksExist, InFlight, LockHeld,
                      ChecksStillHold, LocationConsistent, ReservedFree

LEMMA NextSafe == TypeOK /\ TypeOK' /\ Safety /\ [Next]_vars => Safety'
  <1> SUFFICES ASSUME TypeOK, TypeOK', Safety, [Next]_vars PROVE Safety'
    OBVIOUS
  <1>1. CASE UnlockedStep
    BY <1>1, UnlockedStepKeeps
  <1>2. ASSUME NEW t \in Tx, Acquire(t) PROVE Safety'
    BY <1>2, AcquireKeeps
  <1>3. ASSUME NEW t \in Tx, Abort(t) PROVE Safety'
    BY <1>3, AbortKeeps
  <1>4. ASSUME NEW t \in Tx, NetworkStep(t) \/ PoolStep(t) \/ IpStep(t) PROVE Safety'
    BY <1>4, NetworkStepKeeps, PoolStepKeeps, IpStepKeeps
  <1>5. CASE UNCHANGED vars
    BY <1>5 DEF vars, tables, Safety, LockDiscipline, NetworksExist, InFlight, JobLocated,
                LockHeld, ChecksStillHold, StillHolds, Vacant, InUse, LiveIps, LivePools,
                LiveNet, Allocatable, Columns, Reserved, LocationConsistent, PoolFits, ReservedFree
  <1> QED BY <1>1, <1>2, <1>3, <1>4, <1>5 DEF Next

LEMMA SafetyHolds == Spec => []Safety
  BY InitTyped, NextTyped, InitSafe, NextSafe, PTL DEF Spec

\* For any number of requests, networks, pools and addresses: what a locking
\* handler of services/network.py, ip_pool.py and ip_address.py has checked
\* under the networks row lock still holds when it commits.
THEOREM Discipline == Spec => []LockDiscipline
  <1>1. Safety => LockDiscipline
    BY DEF Safety
  <1> QED BY <1>1, SafetyHolds, PTL

\* No undeleted address ever lies in an undeleted RESERVED pool of its network,
\* whatever creations, restores and pool changes run concurrently.
THEOREM NoReservedAddress == Spec => []ReservedFree
  <1>1. Safety => ReservedFree
    BY DEF Safety
  <1> QED BY <1>1, SafetyHolds, PTL

\* Undeleted addresses and pools always lie in their network's CIDR and carry
\* its Cluster, although update_network may change both.
THEOREM Located == Spec => []LocationConsistent
  <1>1. Safety => LocationConsistent
    BY DEF Safety
  <1> QED BY <1>1, SafetyHolds, PTL

-----------------------------------------------------------------------------
(* Action properties.                                                      *)

\* Only update_network and its unlocked half, delete_network and
\* restore_network write an existing networks row.
LEMMA NetworkWrites ==
    ASSUME TypeOK, [Next]_vars, NEW n \in Nets, networks'[n] # networks[n]
    PROVE  \/ networks[n].state # "live"
           \/ /\ networks'[n].gateway = networks[n].gateway
              /\ networks'[n].state = networks[n].state
           \/ \E t \in Tx : /\ pc[t] = "checked" /\ job[t].net = n
                            /\ \/ /\ job[t].op = "updateNetwork"
                                  /\ networks'[n].state = networks[n].state
                                  /\ networks'[n].gateway
                                       = New(job[t].change.gateway, networks[n].gateway)
                               \/ /\ job[t].op = "deleteNetwork"
                                  /\ networks'[n].gateway = networks[n].gateway
  <1>0. networks[n] \in NetRow
    BY DEF TypeOK
  <1>1. CASE UnlockedStep
    <2>1. ASSUME NEW m \in Nets, NEW in \in NetworkInputs, CreateNetwork(m, in)
          PROVE  networks[n].state # "live"
      BY <2>1 DEF CreateNetwork, PutNet, TypeOK
    <2>2. ASSUME NEW m \in Nets, NEW ch \in NetworkChanges, SwitchNetwork(m, ch)
          PROVE  /\ networks'[n].gateway = networks[n].gateway
                 /\ networks'[n].state = networks[n].state
      BY <1>0, <2>2 DEF SwitchNetwork, PutNet, TypeOK, ChangedNet, New, NetRow
    <2>3. ASSUME NEW m \in Nets, RestoreNetwork(m) PROVE networks[n].state # "live"
      BY <2>3 DEF RestoreNetwork, PutNet, TypeOK
    <2> QED BY <1>1, <2>1, <2>2, <2>3 DEF UnlockedStep, DeletePool, PutPool, DeleteIp, PutIp
  <1>2. ASSUME NEW t \in Tx, NetworkStep(t)
        PROVE  /\ pc[t] = "checked" /\ job[t].net = n
               /\ \/ /\ job[t].op = "updateNetwork"
                     /\ networks'[n].state = networks[n].state
                     /\ networks'[n].gateway
                          = New(job[t].change.gateway, networks[n].gateway)
                  \/ /\ job[t].op = "deleteNetwork"
                     /\ networks'[n].gateway = networks[n].gateway
    <2>1. CASE WriteUpdateNetwork(t)
      BY <1>0, <2>1 DEF WriteUpdateNetwork, Checked, PutNet, TypeOK, ChangedNet, NetRow
    <2>2. CASE WriteDeleteNetwork(t)
      BY <1>0, <2>2 DEF WriteDeleteNetwork, Checked, PutNet, TypeOK, NetRow
    <2> QED BY <1>2, <2>1, <2>2 DEF NetworkStep, ReadUpdateNetwork, CheckUpdateNetwork,
              ReadDeleteNetwork, CheckDeleteNetwork, Begin, Pass, tables
  <1>3. ASSUME NEW t \in Tx, PoolStep(t) PROVE networks' = networks
    BY <1>3 DEF PoolStep, ReadCreatePool, CheckCreatePool, WriteCreatePool, ReadUpdatePool,
                CheckUpdatePool, WriteUpdatePool, ReadRestorePool, CheckRestorePool,
                WriteRestorePool, Begin, Pass, PutPool, tables
  <1>4. ASSUME NEW t \in Tx, IpStep(t) PROVE networks' = networks
    BY <1>4 DEF IpStep, ReadCreateIp, CheckCreateIp, ReadAutoAllocate, CheckAutoAllocate,
                WriteAllocation, ReadRestoreIp, CheckRestoreIp, WriteRestoreIp,
                Begin, Pass, PutIp, tables
  <1>5. ASSUME NEW t \in Tx, Acquire(t) \/ Abort(t) PROVE networks' = networks
    BY <1>5 DEF Acquire, Abort, tables
  <1> QED BY <1>1, <1>2, <1>3, <1>4, <1>5 DEF Next, vars, tables

LEMMA DeleteStep == TypeOK /\ Safety /\ [Next]_vars => DeletesEmpty
  <1> SUFFICES ASSUME TypeOK, Safety, [Next]_vars, NEW n \in Nets,
                      LiveNet(n), networks'[n].state = "deleted"
               PROVE  ~InUse(n)
    BY DEF DeletesEmpty
  <1>1. PICK t \in Tx : pc[t] = "checked" /\ job[t].net = n /\ job[t].op = "deleteNetwork"
    BY NetworkWrites DEF LiveNet
  <1> QED BY <1>1 DEF Safety, LockDiscipline, ChecksStillHold, StillHolds

\* delete_network never commits over an undeleted pool or address.
THEOREM DeletedEmpty == Spec => DeletedOnlyWhenEmpty
  BY Typing, SafetyHolds, DeleteStep, PTL DEF Spec, DeletedOnlyWhenEmpty

LEMMA GatewayStep == TypeOK /\ Safety /\ [Next]_vars => MovesGatewayAside
  <1> SUFFICES ASSUME TypeOK, Safety, [Next]_vars, NEW n \in Nets, LiveNet(n),
                      networks'[n].gateway # networks[n].gateway, NEW i \in LiveIps(n)
               PROVE  ips[i].addr # networks'[n].gateway
    BY DEF MovesGatewayAside
  <1>1. PICK t \in Tx : /\ pc[t] = "checked" /\ job[t].net = n
                        /\ job[t].op = "updateNetwork"
                        /\ networks'[n].gateway
                             = New(job[t].change.gateway, networks[n].gateway)
    BY NetworkWrites DEF LiveNet
  <1>2. job[t].change.gateway # Same /\ networks'[n].gateway = job[t].change.gateway
    BY <1>1 DEF New
  <1> QED BY <1>1, <1>2 DEF Safety, LockDiscipline, ChecksStillHold, StillHolds

\* update_network never commits a gateway that an undeleted address holds.
THEOREM GatewayAside == Spec => GatewayChangeAvoidsAddresses
  BY Typing, SafetyHolds, GatewayStep, PTL DEF Spec, GatewayChangeAvoidsAddresses

\* Only restore_ip_address brings a deleted address back.
LEMMA IpRestores ==
    ASSUME TypeOK, [Next]_vars, NEW i \in Ips, Restored(ips[i], ips'[i])
    PROVE  \E t \in Tx : WriteRestoreIp(t) /\ job[t].ip = i
  <1>0. ips'[i] # ips[i]
    BY DEF Restored
  <1>1. ASSUME UnlockedStep PROVE FALSE
    BY <1>0, <1>1 DEF UnlockedStep, CreateNetwork, SwitchNetwork, RestoreNetwork, PutNet,
              DeletePool, PutPool, DeleteIp, PutIp, TypeOK, Restored
  <1>2. ASSUME NEW t \in Tx, NetworkStep(t) PROVE FALSE
    BY <1>0, <1>2 DEF NetworkStep, ReadUpdateNetwork, CheckUpdateNetwork, WriteUpdateNetwork,
              ReadDeleteNetwork, CheckDeleteNetwork, WriteDeleteNetwork, Begin, Pass, PutNet, tables
  <1>3. ASSUME NEW t \in Tx, PoolStep(t) PROVE FALSE
    BY <1>0, <1>3 DEF PoolStep, ReadCreatePool, CheckCreatePool, WriteCreatePool, ReadUpdatePool,
              CheckUpdatePool, WriteUpdatePool, ReadRestorePool, CheckRestorePool,
              WriteRestorePool, Begin, Pass, PutPool, tables
  <1>4. ASSUME NEW t \in Tx, IpStep(t) PROVE WriteRestoreIp(t) /\ job[t].ip = i
    <2>1. CASE WriteAllocation(t)
      BY <1>0, <2>1 DEF WriteAllocation, PutIp, TypeOK, Restored
    <2>2. CASE WriteRestoreIp(t)
      BY <1>0, <2>2 DEF WriteRestoreIp, PutIp, TypeOK
    <2> QED BY <1>0, <1>4, <2>1, <2>2 DEF IpStep, ReadCreateIp, CheckCreateIp, ReadAutoAllocate,
              CheckAutoAllocate, ReadRestoreIp, CheckRestoreIp, Begin, Pass, tables
  <1>5. ASSUME NEW t \in Tx, Acquire(t) \/ Abort(t) PROVE FALSE
    BY <1>0, <1>5 DEF Acquire, Abort, tables
  <1> QED BY <1>0, <1>1, <1>2, <1>3, <1>4, <1>5 DEF Next, vars, tables

\* How a step can write the row of a pool: its UPDATE waited for the holder of
\* the networks row, or its transaction is that holder and ends.
WritesPool(p, n) ==
    /\ pools'[p].net = n
    /\ pools[p].state = "absent" \/ pools[p].net = n
    /\ pools'[p].state = "live" => ~PoolsOverlap(n, pools'[p].range, p)
    /\ \A q \in Pools \ {p} : pools'[q] = pools[q]

HolderEnds(t, n) == pc[t] = "checked" /\ pc'[t] = "idle" /\ job[t].net = n

LEMMA PoolWrites ==
    ASSUME TypeOK, TypeOK', Safety, [Next]_vars, NEW p \in Pools, pools'[p] # pools[p]
    PROVE  \E n \in Nets :
              /\ WritesPool(p, n)
              /\ \/ lock[n] = None /\ pools'[p].state = "deleted"
                 \/ \E t \in Tx : /\ HolderEnds(t, n)
                                  /\ Restored(pools[p], pools'[p])
                                        => job[t].op = "restorePool"
  <1> DEFINE Goal(n, t) == WritesPool(p, n) /\ HolderEnds(t, n)
  <1>1. ASSUME UnlockedStep
        PROVE  \E n \in Nets : WritesPool(p, n) /\ lock[n] = None /\ pools'[p].state = "deleted"
    <2>1. DeletePool(p)
      BY <1>1 DEF UnlockedStep, CreateNetwork, SwitchNetwork, RestoreNetwork, PutNet,
              DeletePool, PutPool, DeleteIp, PutIp, TypeOK
    <2>2. /\ pools'[p] = [pools[p] EXCEPT !.state = "deleted", !.version = @ + 1]
          /\ \A q \in Pools \ {p} : pools'[q] = pools[q]
          /\ lock[pools[p].net] = None
      BY <2>1 DEF DeletePool, PutPool, TypeOK
    <2>3. pools'[p].net = pools[p].net /\ pools'[p].state = "deleted" /\ pools[p].net \in Nets
      BY <2>2 DEF TypeOK, PoolRow
    <2> QED BY <2>2, <2>3 DEF WritesPool
  <1>2. ASSUME NEW t \in Tx, NetworkStep(t) PROVE FALSE
    BY <1>2 DEF NetworkStep, ReadUpdateNetwork, CheckUpdateNetwork, WriteUpdateNetwork,
            ReadDeleteNetwork, CheckDeleteNetwork, WriteDeleteNetwork, Begin, Pass, PutNet, tables
  <1>3. ASSUME NEW t \in Tx, PoolStep(t)
        PROVE  \E n \in Nets : /\ Goal(n, t)
                               /\ Restored(pools[p], pools'[p]) => job[t].op = "restorePool"
    <2>0. ASSUME Checked(t, job[t].op), End(t), job[t].op # "none"
          PROVE  pc[t] = "checked" /\ pc'[t] = "idle" /\ job[t].net \in Nets
      BY <2>0, InFlightJob DEF Checked, End, TypeOK
    <2>1. CASE WriteCreatePool(t)
      <3> DEFINE n == job[t].net
                 in == job[t].input
      <3>1. PICK q \in Pools : /\ pools[q].state = "absent" /\ ~PoolsOverlap(n, in.range, q)
                               /\ PutPool(q, [state |-> "live", version |-> 1, net |-> n,
                                              range |-> in.range, mode |-> in.mode])
        BY <2>1 DEF WriteCreatePool
      <3>2. q = p
        BY <3>1 DEF PutPool, TypeOK
      <3>3. /\ pools'[p].net = n /\ pools'[p].range = in.range /\ pools[p].state = "absent"
            /\ \A r \in Pools \ {p} : pools'[r] = pools[r]
        BY <3>1, <3>2 DEF PutPool, TypeOK
      <3>4. HolderEnds(t, n) /\ n \in Nets
        BY <2>0, <2>1 DEF WriteCreatePool, Checked, HolderEnds
      <3> QED BY <3>1, <3>2, <3>3, <3>4 DEF WritesPool, Restored
    <2>2. CASE WriteUpdatePool(t)
      <3> DEFINE row == [pools[p] EXCEPT !.version = @ + 1,
                                   !.range = New(job[t].change.range, @),
                                   !.mode = New(job[t].change.mode, @)]
      <3>1. p = job[t].pool
        BY <2>2 DEF WriteUpdatePool, PutPool, TypeOK
      <3>2. /\ pools[p].state = "live" /\ ~PoolsOverlap(row.net, row.range, p)
            /\ PutPool(p, row) /\ End(t) /\ pc[t] = "checked" /\ job[t].op = "updatePool"
        BY <2>2, <3>1 DEF WriteUpdatePool, Checked
      <3>3. pools'[p] = row /\ \A r \in Pools \ {p} : pools'[r] = pools[r]
        BY <3>2 DEF PutPool, TypeOK
      <3>4. row.net = pools[p].net /\ row.state = "live"
        BY <3>2 DEF TypeOK, PoolRow
      <3>5. pools[p].net = job[t].net
        BY <3>1, <3>2 DEF Safety, LockDiscipline, InFlight, JobLocated
      <3>6. HolderEnds(t, job[t].net) /\ job[t].net \in Nets
        BY <2>0, <3>2 DEF Checked, HolderEnds
      <3> HIDE DEF row
      <3> QED BY <3>2, <3>3, <3>4, <3>5, <3>6 DEF WritesPool, Restored
    <2>3. CASE WriteRestorePool(t)
      <3> DEFINE row == [pools[p] EXCEPT !.state = "live", !.version = @ + 1]
                 n == job[t].net
      <3>1. p = job[t].pool
        BY <2>3 DEF WriteRestorePool, PutPool, TypeOK
      <3>2. /\ pools[p].state = "deleted" /\ ~PoolsOverlap(n, pools[p].range, p)
            /\ PutPool(p, row) /\ End(t) /\ pc[t] = "checked" /\ job[t].op = "restorePool"
        BY <2>3, <3>1 DEF WriteRestorePool, Checked
      <3>3. pools'[p] = row /\ \A r \in Pools \ {p} : pools'[r] = pools[r]
        BY <3>2 DEF PutPool, TypeOK
      <3>4. row.net = pools[p].net /\ row.range = pools[p].range /\ row.state = "live"
        BY <3>2 DEF TypeOK, PoolRow
      <3>5. pools[p].net = n
        BY <3>1, <3>2 DEF Safety, LockDiscipline, InFlight, JobLocated
      <3>6. HolderEnds(t, n) /\ n \in Nets
        BY <2>0, <3>2 DEF Checked, HolderEnds
      <3> HIDE DEF row
      <3> QED BY <3>2, <3>3, <3>4, <3>5, <3>6 DEF WritesPool, Restored
    <2> QED BY <1>3, <2>1, <2>2, <2>3 DEF PoolStep, ReadCreatePool, CheckCreatePool,
              ReadUpdatePool, CheckUpdatePool, ReadRestorePool, CheckRestorePool,
              Begin, Pass, tables
  <1>4. ASSUME NEW t \in Tx, IpStep(t) PROVE FALSE
    BY <1>4 DEF IpStep, ReadCreateIp, CheckCreateIp, ReadAutoAllocate, CheckAutoAllocate,
            WriteAllocation, ReadRestoreIp, CheckRestoreIp, WriteRestoreIp,
            Begin, Pass, PutIp, tables
  <1>5. ASSUME NEW t \in Tx, Acquire(t) \/ Abort(t) PROVE FALSE
    BY <1>5 DEF Acquire, Abort, tables
  <1> QED BY <1>1, <1>2, <1>3, <1>4, <1>5 DEF Next, vars, tables

LEMMA RestoreStep == TypeOK /\ TypeOK' /\ Safety /\ [Next]_vars => RestoresAllocatable
  <1> SUFFICES ASSUME TypeOK, TypeOK', Safety, [Next]_vars PROVE RestoresAllocatable
    OBVIOUS
  <1>1. ASSUME NEW i \in Ips, Restored(ips[i], ips'[i])
        PROVE  /\ LiveNet(ips[i].net)
               /\ ips[i].addr \in Allocatable(ips[i].net, Columns(ips[i].net))
    <2>1. PICK t \in Tx : WriteRestoreIp(t) /\ job[t].ip = i
      BY <1>1, IpRestores
    <2>2. pc[t] = "checked" /\ job[t].op = "restoreIp"
      BY <2>1 DEF WriteRestoreIp, Checked
    <2> QED BY <2>1, <2>2
         DEF Safety, LockDiscipline, InFlight, JobLocated, ChecksStillHold, StillHolds
  <1>2. ASSUME NEW p \in Pools, Restored(pools[p], pools'[p]) PROVE LiveNet(pools[p].net)
    <2>1. PICK n \in Nets, t \in Tx : /\ WritesPool(p, n) /\ HolderEnds(t, n)
                                      /\ job[t].op = "restorePool"
      BY <1>2, PoolWrites DEF Restored
    <2>2. LiveNet(n) /\ pools[p].net = n
      BY <1>2, <2>1 DEF HolderEnds, WritesPool, Restored,
           Safety, LockDiscipline, ChecksStillHold, StillHolds
    <2> QED BY <2>2
  <1> QED BY <1>1, <1>2 DEF RestoresAllocatable

\* restore_ip_address and restore_ip_pool never commit into a deleted network,
\* nor an address that its network would not give out at that moment.
THEOREM RestoreCurrent == Spec => RestoreIntoCurrentNetwork
  BY Typing, SafetyHolds, RestoreStep, PTL DEF Spec, RestoreIntoCurrentNetwork

-----------------------------------------------------------------------------
(* The pool an allocation records.                                         *)

\* The undeleted pools of a network share no address, so that the pool an
\* address lies in is a function of the address.
PoolsApart == \A n \in Nets : \A p \in LivePools(n) : ~PoolsOverlap(n, pools[p].range, p)

\* The pool that an allocation has checked under the lock is the one its address
\* lies in, or there is none.
SourceOf(j) ==
    \/ j.pool = None /\ \A p \in LivePools(j.net) : j.addr \notin Block(pools[p].range)
    \/ j.pool \in LivePools(j.net) /\ j.addr \in Block(pools[j.pool].range)

SourcesChecked ==
    \A t \in Tx : pc[t] = "checked" /\ job[t].op \in {"createIp", "autoAllocate"}
                     => SourceOf(job[t])

SourcesKnown == PoolsApart /\ SourcesChecked

LEMMA DerivedIsSource ==
    ASSUME NEW n, NEW a
    PROVE  \/ /\ DerivedPool(n, a) = None
              /\ \A p \in LivePools(n) : a \notin Block(pools[p].range)
           \/ /\ DerivedPool(n, a) \in LivePools(n)
              /\ a \in Block(pools[DerivedPool(n, a)].range)
  <1> DEFINE in == {p \in LivePools(n) : a \in Block(pools[p].range)}
  <1>1. CASE in = {}
    BY <1>1 DEF DerivedPool
  <1>2. CASE in # {}
    <2>1. (CHOOSE p \in in : TRUE) \in in
      BY <1>2
    <2>2. DerivedPool(n, a) = CHOOSE p \in in : TRUE
      BY <1>2 DEF DerivedPool
    <2>3. DerivedPool(n, a) \in in
      BY <2>1, <2>2
    <2> QED BY <2>3
  <1> QED BY <1>1, <1>2

LEMMA SharedAddress ==
    ASSUME TypeOK, PoolsApart, NEW n \in Nets, NEW p \in LivePools(n), NEW q \in LivePools(n),
           NEW a, a \in Block(pools[p].range), a \in Block(pools[q].range)
    PROVE  p = q
  <1>1. pools[p].range \in Interval /\ pools[q].range \in Interval
    BY DEF LivePools, TypeOK, PoolRow
  <1>2. Overlap(pools[p].range, pools[q].range) /\ Overlap(pools[q].range, pools[p].range)
    BY <1>1, ConstantsOK DEF Interval, Addr, Block, Overlap
  <1> QED BY <1>2 DEF PoolsApart, PoolsOverlap

\* While the undeleted pools lie apart, SourceOf names DerivedPool.
LEMMA SourceIsDerived ==
    ASSUME TypeOK, PoolsApart, NEW j, j.net \in Nets, SourceOf(j)
    PROVE  j.pool = DerivedPool(j.net, j.addr)
  <1> DEFINE d == DerivedPool(j.net, j.addr)
  <1>1. \/ d = None /\ \A p \in LivePools(j.net) : j.addr \notin Block(pools[p].range)
        \/ d \in LivePools(j.net) /\ j.addr \in Block(pools[d].range)
    BY DerivedIsSource
  <1> HIDE DEF d
  <1>2. \A p, q \in LivePools(j.net) :
           j.addr \in Block(pools[p].range) /\ j.addr \in Block(pools[q].range) => p = q
    BY SharedAddress
  <1>3. j.pool = d
    BY <1>1, <1>2 DEF SourceOf
  <1> QED BY <1>3 DEF d

LEMMA InitKnown == Init => SourcesKnown
  BY DEF Init, NoPool, SourcesKnown, PoolsApart, PoolsOverlap, SourcesChecked, LivePools

LEMMA ApartKept ==
    ASSUME TypeOK, TypeOK', Safety, PoolsApart, [Next]_vars PROVE PoolsApart'
  <1> SUFFICES ASSUME NEW n \in Nets, NEW p \in Pools, NEW q \in Pools, p # q,
                      pools'[p].state = "live", pools'[p].net = n,
                      pools'[q].state = "live", pools'[q].net = n
               PROVE  ~Overlap(pools'[q].range, pools'[p].range)
    BY DEF PoolsApart, PoolsOverlap, LivePools
  <1>1. CASE pools'[p] # pools[p]
    <2>1. PICK m \in Nets : WritesPool(p, m)
      BY <1>1, PoolWrites
    <2>2. pools'[q] = pools[q] /\ m = n /\ ~PoolsOverlap(n, pools'[p].range, p)
      BY <2>1 DEF WritesPool
    <2> QED BY <2>2 DEF PoolsOverlap, LivePools
  <1>2. CASE pools'[q] # pools[q]
    <2>1. PICK m \in Nets : WritesPool(q, m)
      BY <1>2, PoolWrites
    <2>2. pools'[p] = pools[p] /\ m = n /\ ~PoolsOverlap(n, pools'[q].range, q)
      BY <2>1 DEF WritesPool
    <2>3. ~Overlap(pools'[p].range, pools'[q].range)
      BY <2>2 DEF PoolsOverlap, LivePools
    <2> QED BY <2>3 DEF Overlap
  <1>3. CASE pools'[p] = pools[p] /\ pools'[q] = pools[q]
    BY <1>3 DEF PoolsApart, PoolsOverlap, LivePools
  <1> QED BY <1>1, <1>2, <1>3

\* A request that stays "checked" sees no pool of its network move.
LEMMA CheckedPoolsKept ==
    ASSUME TypeOK, TypeOK', Safety, [Next]_vars, NEW t \in Tx,
           pc[t] = "checked", pc'[t] = "checked", job'[t] = job[t]
    PROVE  /\ LivePools(job[t].net)' = LivePools(job[t].net)
           /\ \A p \in LivePools(job[t].net) : pools'[p] = pools[p]
  <1>1. lock[job[t].net] = t /\ job[t].net \in Nets
    BY InFlightJob DEF Safety, LockDiscipline, LockHeld, InFlight
  <1>2. ASSUME NEW p \in Pools, pools'[p] # pools[p]
        PROVE  /\ pools'[p].net # job[t].net
               /\ pools[p].state = "absent" \/ pools[p].net # job[t].net
    <2>1. PICK n \in Nets : /\ WritesPool(p, n)
                            /\ lock[n] = None \/ \E u \in Tx : HolderEnds(u, n)
      BY <1>2, PoolWrites
    <2>2. CASE lock[n] = None
      BY <1>1, <2>1, <2>2, NullsOK DEF WritesPool
    <2>3. ASSUME NEW u \in Tx, HolderEnds(u, n) PROVE n # job[t].net
      <3>1. lock[n] = u /\ u # t
        BY <2>3 DEF HolderEnds, Safety, LockDiscipline, LockHeld
      <3> QED BY <1>1, <3>1
    <2> QED BY <2>1, <2>2, <2>3 DEF WritesPool
  <1> QED BY <1>2 DEF LivePools

\* Where a request becomes "checked", it is by Pass in its own step.
LEMMA BecomesChecked ==
    ASSUME TypeOK, [Next]_vars, NEW t \in Tx, pc'[t] = "checked",
           job'[t].op \in {"createIp", "autoAllocate"}
    PROVE  \/ pc[t] = "checked" /\ job'[t] = job[t]
           \/ CheckCreateIp(t)
           \/ CheckAutoAllocate(t)
  <1>1. CASE UnlockedStep
    BY <1>1 DEF UnlockedStep, CreateNetwork, SwitchNetwork, RestoreNetwork, DeletePool, DeleteIp
  <1>2. ASSUME NEW u \in Tx, Acquire(u) \/ Abort(u)
        PROVE  pc[t] = "checked" /\ job'[t] = job[t]
    BY <1>2 DEF Acquire, Abort, End, TypeOK
  <1>3. ASSUME NEW u \in Tx, NetworkStep(u) \/ PoolStep(u) \/ IpStep(u), u # t
        PROVE  pc[t] = "checked" /\ job'[t] = job[t]
    <2>1. ASSUME NEW j, Begin(u, j) \/ Pass(u, j) PROVE pc'[t] = pc[t] /\ job'[t] = job[t]
      BY <1>3, <2>1 DEF Begin, Pass, TypeOK
    <2>2. ASSUME End(u) PROVE pc'[t] = pc[t] /\ job'[t] = job[t]
      BY <1>3, <2>2 DEF End, TypeOK
    <2>3. CASE NetworkStep(u)
      BY <2>1, <2>2, <2>3 DEF NetworkStep, ReadUpdateNetwork, CheckUpdateNetwork,
           WriteUpdateNetwork, ReadDeleteNetwork, CheckDeleteNetwork, WriteDeleteNetwork
    <2>4. CASE PoolStep(u)
      BY <2>1, <2>2, <2>4 DEF PoolStep, ReadCreatePool, CheckCreatePool, WriteCreatePool,
           ReadUpdatePool, CheckUpdatePool, WriteUpdatePool, ReadRestorePool,
           CheckRestorePool, WriteRestorePool
    <2>5. CASE IpStep(u)
      BY <2>1, <2>2, <2>5 DEF IpStep, ReadCreateIp, CheckCreateIp, ReadAutoAllocate,
           CheckAutoAllocate, WriteAllocation, ReadRestoreIp, CheckRestoreIp, WriteRestoreIp
    <2> QED BY <1>3, <2>3, <2>4, <2>5
  <1>4. ASSUME NetworkStep(t) \/ PoolStep(t) \/ IpStep(t)
        PROVE  CheckCreateIp(t) \/ CheckAutoAllocate(t)
    <2>1. ASSUME NEW j, Begin(t, j) PROVE FALSE
      BY <2>1 DEF Begin, TypeOK
    <2>2. ASSUME End(t) PROVE FALSE
      BY <2>2 DEF End, TypeOK
    <2>3. ASSUME Pass(t, job[t]) PROVE job[t].op \in {"createIp", "autoAllocate"}
      BY <2>3 DEF Pass, TypeOK
    <2>4. CASE NetworkStep(t)
      BY <2>1, <2>2, <2>3, <2>4 DEF NetworkStep, ReadUpdateNetwork, CheckUpdateNetwork,
           WriteUpdateNetwork, ReadDeleteNetwork, CheckDeleteNetwork, WriteDeleteNetwork, Locked
    <2>5. CASE PoolStep(t)
      BY <2>1, <2>2, <2>3, <2>5 DEF PoolStep, ReadCreatePool, CheckCreatePool, WriteCreatePool,
           ReadUpdatePool, CheckUpdatePool, WriteUpdatePool, ReadRestorePool,
           CheckRestorePool, WriteRestorePool, Locked
    <2>6. CASE IpStep(t)
      BY <2>1, <2>2, <2>3, <2>6 DEF IpStep, ReadCreateIp, ReadAutoAllocate,
           WriteAllocation, ReadRestoreIp, CheckRestoreIp, WriteRestoreIp, Locked
    <2> QED BY <1>4, <2>4, <2>5, <2>6
  <1>5. CASE UNCHANGED vars
    BY <1>5 DEF vars
  <1> QED BY <1>1, <1>2, <1>3, <1>4, <1>5 DEF Next

LEMMA NextKnown ==
    TypeOK /\ TypeOK' /\ Safety /\ SourcesKnown /\ [Next]_vars => SourcesKnown'
  <1> SUFFICES ASSUME TypeOK, TypeOK', Safety, SourcesKnown, [Next]_vars,
                      NEW t \in Tx, pc'[t] = "checked",
                      job'[t].op \in {"createIp", "autoAllocate"}
               PROVE  SourceOf(job[t])'
    BY ApartKept DEF SourcesKnown, SourcesChecked
  <1>1. CASE pc[t] = "checked" /\ job'[t] = job[t]
    <2>1. SourceOf(job[t])
      BY <1>1 DEF SourcesKnown, SourcesChecked
    <2> QED BY <1>1, <2>1, CheckedPoolsKept DEF SourceOf
  <1>2. CASE CheckCreateIp(t)
    <2> DEFINE d == DerivedPool(job[t].net, job[t].addr)
    <2>1. /\ Pass(t, [job[t] EXCEPT !.pool = d])
          /\ job[t].op = "createIp"
      BY <1>2 DEF CheckCreateIp, Locked
    <2>2. \/ d = None /\ \A p \in LivePools(job[t].net) : job[t].addr \notin Block(pools[p].range)
          \/ d \in LivePools(job[t].net) /\ job[t].addr \in Block(pools[d].range)
      BY DerivedIsSource
    <2> HIDE DEF d
    <2>3. job[t] \in [op : {"createIp", "autoAllocate"}, net : Nets,
                      addr : Addr \cup {None}, pool : Pools \cup {None}, seen : NetColumns]
      BY <2>1 DEF TypeOK, Job, NoJob
    <2>4. /\ job'[t].net = job[t].net /\ job'[t].addr = job[t].addr /\ job'[t].pool = d
          /\ pools' = pools
      BY <2>1, <2>3 DEF Pass, TypeOK, tables
    <2> QED BY <2>2, <2>4 DEF SourceOf, LivePools
  <1>3. CASE CheckAutoAllocate(t)
    <2>1. PICK a \in FreeIn(job[t].pool, job[t].net, job[t].seen) :
             Pass(t, [job[t] EXCEPT !.addr = a])
      BY <1>3 DEF CheckAutoAllocate
    <2>2. job[t].pool \in LivePools(job[t].net) /\ a \in Block(pools[job[t].pool].range)
      BY <1>3, <2>1 DEF CheckAutoAllocate, FreeIn
    <2>3. job[t] \in [op : {"createIp", "autoAllocate"}, net : Nets,
                      addr : Addr \cup {None}, pool : Pools \cup {None}, seen : NetColumns]
      BY <1>3 DEF CheckAutoAllocate, Locked, TypeOK, Job, NoJob
    <2>4. /\ job'[t].net = job[t].net /\ job'[t].addr = a /\ job'[t].pool = job[t].pool
          /\ pools' = pools
      BY <2>1, <2>3 DEF Pass, TypeOK, tables
    <2> QED BY <2>2, <2>4 DEF SourceOf, LivePools
  <1> QED BY <1>1, <1>2, <1>3, BecomesChecked

\* Only stage_ip_address and auto_allocate_ip_address insert an address.
LEMMA IpInserts ==
    ASSUME TypeOK, [Next]_vars, NEW i \in Ips, Created(i)
    PROVE  \E t \in Tx : /\ WriteAllocation(t)
                         /\ ips'[i].net = job[t].net /\ ips'[i].addr = job[t].addr
                         /\ ips'[i].pool = job[t].pool
  <1>0. ips'[i] # ips[i] /\ ips[i].state = "absent"
    BY DEF Created
  <1>1. ASSUME UnlockedStep PROVE FALSE
    BY <1>0, <1>1 DEF UnlockedStep, CreateNetwork, SwitchNetwork, RestoreNetwork, PutNet,
              DeletePool, PutPool, DeleteIp, PutIp, TypeOK
  <1>2. ASSUME NEW t \in Tx, NetworkStep(t) PROVE FALSE
    BY <1>0, <1>2 DEF NetworkStep, ReadUpdateNetwork, CheckUpdateNetwork, WriteUpdateNetwork,
              ReadDeleteNetwork, CheckDeleteNetwork, WriteDeleteNetwork, Begin, Pass, PutNet, tables
  <1>3. ASSUME NEW t \in Tx, PoolStep(t) PROVE FALSE
    BY <1>0, <1>3 DEF PoolStep, ReadCreatePool, CheckCreatePool, WriteCreatePool, ReadUpdatePool,
              CheckUpdatePool, WriteUpdatePool, ReadRestorePool, CheckRestorePool,
              WriteRestorePool, Begin, Pass, PutPool, tables
  <1>4. ASSUME NEW t \in Tx, IpStep(t)
        PROVE  /\ WriteAllocation(t)
               /\ ips'[i].net = job[t].net /\ ips'[i].addr = job[t].addr
               /\ ips'[i].pool = job[t].pool
    <2>1. CASE WriteAllocation(t)
      <3>1. PICK k \in Ips :
               PutIp(k, [state |-> "live", version |-> 1, net |-> job[t].net,
                         cluster |-> job[t].seen.cluster, addr |-> job[t].addr,
                         pool |-> job[t].pool])
        BY <2>1 DEF WriteAllocation
      <3>2. k = i
        BY <1>0, <3>1 DEF PutIp, TypeOK
      <3> QED BY <2>1, <3>1, <3>2 DEF PutIp, TypeOK
    <2>2. ASSUME WriteRestoreIp(t) PROVE FALSE
      BY <1>0, <2>2 DEF WriteRestoreIp, PutIp, TypeOK
    <2> QED BY <1>0, <1>4, <2>1, <2>2 DEF IpStep, ReadCreateIp, CheckCreateIp, ReadAutoAllocate,
              CheckAutoAllocate, ReadRestoreIp, CheckRestoreIp, Begin, Pass, tables
  <1>5. ASSUME NEW t \in Tx, Acquire(t) \/ Abort(t) PROVE FALSE
    BY <1>0, <1>5 DEF Acquire, Abort, tables
  <1> QED BY <1>0, <1>1, <1>2, <1>3, <1>4, <1>5 DEF Next, vars, tables

RecordsSource == \A i \in Ips : Created(i) => ips'[i].pool = DerivedPool(ips'[i].net, ips'[i].addr)

LEMMA RecordStep == TypeOK /\ Safety /\ SourcesKnown /\ [Next]_vars => RecordsSource
  <1> SUFFICES ASSUME TypeOK, Safety, SourcesKnown, [Next]_vars, NEW i \in Ips, Created(i)
               PROVE  ips'[i].pool = DerivedPool(ips'[i].net, ips'[i].addr)
    BY DEF RecordsSource
  <1>1. PICK t \in Tx : /\ WriteAllocation(t)
                        /\ ips'[i].net = job[t].net /\ ips'[i].addr = job[t].addr
                        /\ ips'[i].pool = job[t].pool
    BY IpInserts
  <1>2. SourceOf(job[t]) /\ job[t].net \in Nets
    BY <1>1, InFlightJob DEF WriteAllocation, SourcesKnown, SourcesChecked
  <1>3. job[t].pool = DerivedPool(job[t].net, job[t].addr)
    BY <1>2, SourceIsDerived DEF SourcesKnown
  <1> QED BY <1>1, <1>3

\* Every new address records the undeleted pool it lies in at its commit,
\* although pools are created, moved, deleted and restored concurrently.
THEOREM SourceRecorded == Spec => SourcePoolRecorded
  <1>1. Spec => []SourcesKnown
    BY Typing, SafetyHolds, InitKnown, NextKnown, PTL DEF Spec
  <1> QED BY <1>1, Typing, SafetyHolds, RecordStep, PTL
         DEF Spec, SourcePoolRecorded, RecordsSource

-----------------------------------------------------------------------------
(* The lowest free address.                                                *)

\* Undeleted networks of one Cluster share no address.
NetworksApart == \A n \in Nets : LiveNet(n)
                    => ~NetworksOverlap(networks[n].cluster, networks[n].cidr, n)

\* The address an automatic allocation has checked is still the lowest that is
\* free, as long as its network is undeleted and in the Cluster it was read in.
LowestOf(j) == LiveNet(j.net) /\ networks[j.net].cluster = j.seen.cluster
                  => \A b \in FreeIn(j.pool, j.net, j.seen) : j.addr <= b

LowestChecked ==
    \A t \in Tx : pc[t] = "checked" /\ job[t].op = "autoAllocate"
                     => job[t].pool \in LivePools(job[t].net) /\ LowestOf(job[t])

LowestKnown == NetworksApart /\ LowestChecked

\* How a step can write a networks row: without overlapping the undeleted
\* networks of its Cluster, and not while another transaction has it locked.
LEMMA NetworkRowWrites ==
    ASSUME TypeOK, [Next]_vars, NEW n \in Nets, networks'[n] # networks[n]
    PROVE  /\ \A m \in Nets \ {n} : networks'[m] = networks[m]
           /\ \/ networks[n].state = "absent"
              \/ lock[n] = None
              \/ \E t \in Tx : HolderEnds(t, n)
           /\ \/ networks'[n].state # "live"
              \/ ~NetworksOverlap(networks'[n].cluster, networks'[n].cidr, n)
              \/ /\ LiveNet(n) /\ networks'[n].cluster = networks[n].cluster
                 /\ networks'[n].cidr = networks[n].cidr
  <1> DEFINE Others == \A m \in Nets \ {n} : networks'[m] = networks[m]
             Apart == ~NetworksOverlap(networks'[n].cluster, networks'[n].cidr, n)
  <1>0. networks[n] \in NetRow
    BY DEF TypeOK
  <1>1. ASSUME NEW m \in Nets, NEW in \in NetworkInputs, CreateNetwork(m, in)
        PROVE  Others /\ networks[n].state = "absent" /\ Apart
    <2> DEFINE row == [state |-> "live", version |-> 1, cluster |-> in.cluster,
                       cidr |-> in.cidr, gateway |-> in.gateway,
                       status |-> in.status, auto |-> in.auto]
    <2>1. /\ networks[m].state = "absent" /\ ~NetworksOverlap(in.cluster, in.cidr, m)
          /\ networks' = [networks EXCEPT ![m] = row]
      BY <1>1 DEF CreateNetwork, NetworkValid, PutNet
    <2>2. row.cluster = in.cluster /\ row.cidr = in.cidr
      OBVIOUS
    <2> HIDE DEF row
    <2>3. m = n /\ networks'[n] = row /\ Others
      BY <2>1 DEF TypeOK
    <2> QED BY <2>1, <2>2, <2>3
  <1>2. ASSUME NEW m \in Nets, NEW ch \in NetworkChanges, SwitchNetwork(m, ch)
        PROVE  /\ Others /\ lock[n] = None
               /\ LiveNet(n) /\ networks'[n].cluster = networks[n].cluster
               /\ networks'[n].cidr = networks[n].cidr
    <2> DEFINE row == ChangedNet(networks[m], ch)
    <2>1. networks' = [networks EXCEPT ![m] = row] /\ lock[m] = None /\ LiveNet(m)
      BY <1>2 DEF SwitchNetwork, PutNet
    <2>2. ch \in NetChange /\ ~MovesNetwork(ch)
      BY <1>2, ConstantsOK DEF SwitchNetwork
    <2>3. m = n
      BY <2>1 DEF TypeOK
    <2>4. row.cluster = networks[n].cluster /\ row.cidr = networks[n].cidr
      BY <1>0, <2>2, <2>3, ChangedNetFields
    <2> HIDE DEF row
    <2> QED BY <2>1, <2>3, <2>4 DEF TypeOK
  <1>3. ASSUME NEW m \in Nets, RestoreNetwork(m) PROVE Others /\ lock[n] = None /\ Apart
    <2> DEFINE row == [networks[m] EXCEPT !.state = "live", !.version = @ + 1]
    <2>1. /\ networks' = [networks EXCEPT ![m] = row] /\ lock[m] = None
          /\ ~NetworksOverlap(networks[m].cluster, networks[m].cidr, m)
      BY <1>3 DEF RestoreNetwork, PutNet
    <2>2. m = n
      BY <2>1 DEF TypeOK
    <2>3. row.cluster = networks[n].cluster /\ row.cidr = networks[n].cidr
      BY <1>0, <2>2 DEF NetRow
    <2> HIDE DEF row
    <2> QED BY <2>1, <2>2, <2>3 DEF TypeOK
  <1>4. ASSUME UnlockedStep
        PROVE  \/ \E m \in Nets, in \in NetworkInputs : CreateNetwork(m, in)
               \/ \E m \in Nets, ch \in NetworkChanges : SwitchNetwork(m, ch)
               \/ \E m \in Nets : RestoreNetwork(m)
    BY <1>4 DEF UnlockedStep, DeletePool, PutPool, DeleteIp, PutIp
  <1>5. ASSUME NEW t \in Tx, NetworkStep(t)
        PROVE  Others /\ HolderEnds(t, n) /\ (networks'[n].state # "live" \/ Apart)
    <2>1. CASE WriteUpdateNetwork(t)
      <3> DEFINE row == ChangedNet(networks[job[t].net], job[t].change)
      <3>1. /\ networks' = [networks EXCEPT ![job[t].net] = row]
            /\ ~NetworksOverlap(row.cluster, row.cidr, job[t].net)
            /\ pc[t] = "checked" /\ End(t)
        BY <2>1 DEF WriteUpdateNetwork, Checked, PutNet
      <3> HIDE DEF row
      <3>2. job[t].net = n /\ networks'[n] = row /\ Others
        BY <3>1 DEF TypeOK
      <3>3. pc'[t] = "idle"
        BY <3>1 DEF End, TypeOK
      <3> QED BY <3>1, <3>2, <3>3 DEF HolderEnds
    <2>2. CASE WriteDeleteNetwork(t)
      <3> DEFINE row == [networks[job[t].net] EXCEPT !.state = "deleted", !.version = @ + 1]
      <3>1. /\ networks' = [networks EXCEPT ![job[t].net] = row]
            /\ pc[t] = "checked" /\ End(t)
        BY <2>2 DEF WriteDeleteNetwork, Checked, PutNet
      <3>2. job[t].net = n
        BY <3>1 DEF TypeOK
      <3>3. row.state # "live"
        BY <1>0, <3>2 DEF NetRow
      <3> HIDE DEF row
      <3>4. networks'[n] = row /\ Others
        BY <3>1, <3>2 DEF TypeOK
      <3>5. pc'[t] = "idle"
        BY <3>1 DEF End, TypeOK
      <3> QED BY <3>1, <3>2, <3>3, <3>4, <3>5 DEF HolderEnds
    <2> QED BY <1>5, <2>1, <2>2 DEF NetworkStep, ReadUpdateNetwork, CheckUpdateNetwork,
              ReadDeleteNetwork, CheckDeleteNetwork, Begin, Pass, tables
  <1>6. ASSUME NEW t \in Tx, PoolStep(t) PROVE FALSE
    BY <1>6 DEF PoolStep, ReadCreatePool, CheckCreatePool, WriteCreatePool, ReadUpdatePool,
                CheckUpdatePool, WriteUpdatePool, ReadRestorePool, CheckRestorePool,
                WriteRestorePool, Begin, Pass, PutPool, tables
  <1>7. ASSUME NEW t \in Tx, IpStep(t) PROVE FALSE
    BY <1>7 DEF IpStep, ReadCreateIp, CheckCreateIp, ReadAutoAllocate, CheckAutoAllocate,
                WriteAllocation, ReadRestoreIp, CheckRestoreIp, WriteRestoreIp,
                Begin, Pass, PutIp, tables
  <1>8. ASSUME NEW t \in Tx, Acquire(t) \/ Abort(t) PROVE FALSE
    BY <1>8 DEF Acquire, Abort, tables
  <1>9. CASE UnlockedStep
    BY <1>1, <1>2, <1>3, <1>4, <1>9
  <1>10. CASE \E t \in Tx : NetworkStep(t)
    BY <1>5, <1>10
  <1> QED BY <1>6, <1>7, <1>8, <1>9, <1>10 DEF Next, vars, tables

LEMMA NetworksKeptApart ==
    ASSUME TypeOK, TypeOK', NetworksApart, [Next]_vars PROVE NetworksApart'
  <1> SUFFICES ASSUME NEW n \in Nets, NEW m \in Nets, m # n, LiveNet(n)', LiveNet(m)',
                      networks'[m].cluster = networks'[n].cluster
               PROVE  ~Overlap(networks'[m].cidr, networks'[n].cidr)
    BY DEF NetworksApart, NetworksOverlap
  <1>1. CASE networks'[n] # networks[n]
    <2>1. networks'[m] = networks[m]
      BY <1>1, NetworkRowWrites
    <2>2. CASE ~NetworksOverlap(networks'[n].cluster, networks'[n].cidr, n)
      BY <2>1, <2>2 DEF NetworksOverlap, LiveNet
    <2>3. CASE /\ LiveNet(n) /\ networks'[n].cluster = networks[n].cluster
               /\ networks'[n].cidr = networks[n].cidr
      BY <2>1, <2>3 DEF NetworksApart, NetworksOverlap, LiveNet
    <2> QED BY <1>1, <2>2, <2>3, NetworkRowWrites DEF LiveNet
  <1>2. CASE networks'[m] # networks[m]
    <2>1. networks'[n] = networks[n]
      BY <1>2, NetworkRowWrites
    <2>2. CASE ~NetworksOverlap(networks'[m].cluster, networks'[m].cidr, m)
      <3>1. ~Overlap(networks'[n].cidr, networks'[m].cidr)
        BY <2>1, <2>2 DEF NetworksOverlap, LiveNet
      <3> QED BY <3>1 DEF Overlap
    <2>3. CASE /\ LiveNet(m) /\ networks'[m].cluster = networks[m].cluster
               /\ networks'[m].cidr = networks[m].cidr
      BY <2>1, <2>3 DEF NetworksApart, NetworksOverlap, LiveNet
    <2> QED BY <1>2, <2>2, <2>3, NetworkRowWrites DEF LiveNet
  <1>3. CASE networks'[n] = networks[n] /\ networks'[m] = networks[m]
    BY <1>3 DEF NetworksApart, NetworksOverlap, LiveNet
  <1> QED BY <1>1, <1>2, <1>3

\* An undeleted address is written by delete_ip_address only, which waits for
\* whoever holds its network.
LEMMA LiveIpWrites ==
    ASSUME TypeOK, [Next]_vars, NEW i \in Ips, ips[i].state = "live", ips'[i] # ips[i]
    PROVE  lock[ips[i].net] = None
  <1>1. ASSUME UnlockedStep PROVE lock[ips[i].net] = None
    BY <1>1 DEF UnlockedStep, CreateNetwork, SwitchNetwork, RestoreNetwork, PutNet,
              DeletePool, PutPool, DeleteIp, PutIp, TypeOK
  <1>2. ASSUME NEW t \in Tx, NetworkStep(t) PROVE FALSE
    BY <1>2 DEF NetworkStep, ReadUpdateNetwork, CheckUpdateNetwork, WriteUpdateNetwork,
              ReadDeleteNetwork, CheckDeleteNetwork, WriteDeleteNetwork, Begin, Pass, PutNet, tables
  <1>3. ASSUME NEW t \in Tx, PoolStep(t) PROVE FALSE
    BY <1>3 DEF PoolStep, ReadCreatePool, CheckCreatePool, WriteCreatePool, ReadUpdatePool,
              CheckUpdatePool, WriteUpdatePool, ReadRestorePool, CheckRestorePool,
              WriteRestorePool, Begin, Pass, PutPool, tables
  <1>4. ASSUME NEW t \in Tx, IpStep(t) PROVE FALSE
    <2>1. ASSUME WriteAllocation(t) PROVE FALSE
      BY <2>1 DEF WriteAllocation, PutIp, TypeOK
    <2>2. ASSUME WriteRestoreIp(t) PROVE FALSE
      BY <2>2 DEF WriteRestoreIp, PutIp, TypeOK
    <2> QED BY <1>4, <2>1, <2>2 DEF IpStep, ReadCreateIp, CheckCreateIp, ReadAutoAllocate,
              CheckAutoAllocate, ReadRestoreIp, CheckRestoreIp, Begin, Pass, tables
  <1>5. ASSUME NEW t \in Tx, Acquire(t) \/ Abort(t) PROVE FALSE
    BY <1>5 DEF Acquire, Abort, tables
  <1> QED BY <1>1, <1>2, <1>3, <1>4, <1>5 DEF Next, vars, tables

\* Where every undeleted address is in an undeleted network, the only addresses
\* that occupy a pool are those of the pool's own network.
LEMMA OccupantsAreLocal ==
    ASSUME TypeOK, Safety, NetworksApart, NoOrphanAddress, NEW n \in Nets, LiveNet(n),
           NEW p \in LivePools(n), NEW i \in Ips, ips[i].state = "live",
           ips[i].cluster = networks[n].cluster, ips[i].addr \in Block(pools[p].range)
    PROVE  ips[i].net = n
  <1> DEFINE m == ips[i].net
  <1>1. m \in Nets /\ networks[m].cidr \in Interval /\ networks[n].cidr \in Interval
    BY DEF TypeOK, IpRow, NetRow
  <1>2. /\ LiveNet(m) /\ networks[m].cluster = networks[n].cluster
        /\ ips[i].addr \in Usable(networks[m].cidr)
    BY DEF NoOrphanAddress, Safety, LocationConsistent
  <1>3. ips[i].addr \in Block(networks[n].cidr)
    BY DEF Safety, LocationConsistent, PoolFits, LivePools
  <1>4. \A r \in Interval : Usable(r) \subseteq Block(r)
    BY ConstantsOK DEF Usable, Block, Interval, Addr
  <1>5. ips[i].addr \in Block(networks[m].cidr)
    BY <1>1, <1>2, <1>4
  <1> HIDE DEF m
  <1>6. Overlap(networks[m].cidr, networks[n].cidr)
    BY <1>1, <1>3, <1>5, ConstantsOK DEF Interval, Addr, Block, Overlap
  <1>7. m = n
    BY <1>1, <1>2, <1>6 DEF NetworksApart, NetworksOverlap
  <1> QED BY <1>7 DEF m

\* What was taken when a request checked stays taken while it stays "checked".
LEMMA LowestStays ==
    ASSUME TypeOK, TypeOK', Safety, LowestKnown, NoOrphanAddress, [Next]_vars,
           NEW t \in Tx, pc[t] = "checked", pc'[t] = "checked",
           job[t].op = "autoAllocate", job'[t] = job[t]
    PROVE  job[t].pool \in LivePools(job[t].net)' /\ LowestOf(job[t])'
  <1> DEFINE n == job[t].net
             p == job[t].pool
             c == job[t].seen.cluster
  <1>1. /\ n \in Nets /\ p \in LivePools(n) /\ LowestOf(job[t]) /\ lock[n] = t
        /\ networks[n].state # "absent"
    BY InFlightJob DEF LowestKnown, LowestChecked, Safety, LockDiscipline, LockHeld, InFlight,
                       JobLocated
  <1>2. LivePools(n)' = LivePools(n) /\ \A q \in LivePools(n) : pools'[q] = pools[q]
    BY CheckedPoolsKept
  <1>3. networks'[n] = networks[n]
    <2> SUFFICES ASSUME networks'[n] # networks[n] PROVE FALSE
      OBVIOUS
    <2>1. lock[n] = None \/ \E u \in Tx : HolderEnds(u, n)
      BY <1>1, NetworkRowWrites
    <2>2. ASSUME NEW u \in Tx, HolderEnds(u, n) PROVE FALSE
      BY <1>1, <2>2 DEF HolderEnds, Safety, LockDiscipline, LockHeld
    <2> QED BY <1>1, <2>1, <2>2, NullsOK
  <1>4. Reserved(n)' = Reserved(n)
    BY <1>2 DEF Reserved
  <1>5. ASSUME LiveNet(n), networks[n].cluster = c, NEW b \in Block(pools[p].range),
               AddressTaken(c, b)
        PROVE  AddressTaken(c, b)'
    <2>1. PICK i \in Ips : ips[i].state = "live" /\ ips[i].cluster = c /\ ips[i].addr = b
      BY <1>5 DEF AddressTaken
    <2>2. ips[i].net = n
      BY <1>1, <1>5, <2>1, OccupantsAreLocal DEF LowestKnown
    <2>3. ips'[i] = ips[i]
      BY <1>1, <2>1, <2>2, LiveIpWrites, NullsOK
    <2> QED BY <2>1, <2>3 DEF AddressTaken
  <1>6. ASSUME LiveNet(n), networks[n].cluster = c,
               NEW b \in FreeIn(p, n, job[t].seen)'
        PROVE  b \in FreeIn(p, n, job[t].seen)
    <2>1. b \in Block(pools[p].range) /\ b \in Allocatable(n, job[t].seen)
      BY <1>1, <1>2, <1>4 DEF FreeIn, Allocatable, Usable, Block
    <2>2. ~AddressTaken(c, b)
      BY <1>5, <1>6, <2>1 DEF FreeIn
    <2> QED BY <2>1, <2>2 DEF FreeIn
  <1>7. LowestOf(job[t])'
    BY <1>1, <1>3, <1>6 DEF LowestOf, LiveNet
  <1> QED BY <1>1, <1>2, <1>7

LEMMA InitLowest == Init => LowestKnown
  BY DEF Init, NoNet, LowestKnown, NetworksApart, LiveNet, LowestChecked

LEMMA NextLowest ==
    TypeOK /\ TypeOK' /\ Safety /\ NoOrphanAddress /\ LowestKnown /\ [Next]_vars
       => LowestKnown'
  <1> SUFFICES ASSUME TypeOK, TypeOK', Safety, NoOrphanAddress, LowestKnown, [Next]_vars,
                      NEW t \in Tx, pc'[t] = "checked", job'[t].op = "autoAllocate"
               PROVE  (job[t].pool \in LivePools(job[t].net) /\ LowestOf(job[t]))'
    BY NetworksKeptApart DEF LowestKnown, LowestChecked
  <1>1. CASE pc[t] = "checked" /\ job'[t] = job[t]
    <2>1. PICK j : j = job[t]
      OBVIOUS
    <2>2. j.pool \in LivePools(j.net)' /\ LowestOf(j)'
      BY <1>1, <2>1, LowestStays
    <2> QED BY <1>1, <2>1, <2>2
  <1>2. CASE CheckCreateIp(t)
    <2>1. /\ Pass(t, [job[t] EXCEPT !.pool = DerivedPool(job[t].net, job[t].addr)])
          /\ job[t].op = "createIp"
      BY <1>2 DEF CheckCreateIp, Locked
    <2>2. job[t] \in [op : {"createIp", "autoAllocate"}, net : Nets,
                      addr : Addr \cup {None}, pool : Pools \cup {None}, seen : NetColumns]
      BY <2>1 DEF TypeOK, Job, NoJob
    <2>3. job'[t].op = "createIp"
      BY <2>1, <2>2 DEF Pass, TypeOK
    <2> QED BY <2>3
  <1>3. CASE CheckAutoAllocate(t)
    <2>1. PICK a \in FreeIn(job[t].pool, job[t].net, job[t].seen) :
             /\ \A b \in FreeIn(job[t].pool, job[t].net, job[t].seen) : a <= b
             /\ Pass(t, [job[t] EXCEPT !.addr = a])
      BY <1>3 DEF CheckAutoAllocate
    <2>2. job[t] \in [op : {"createIp", "autoAllocate"}, net : Nets,
                      addr : Addr \cup {None}, pool : Pools \cup {None}, seen : NetColumns]
      BY <1>3 DEF CheckAutoAllocate, Locked, TypeOK, Job, NoJob
    <2>3. PICK j : j = [job[t] EXCEPT !.addr = a]
      OBVIOUS
    <2>4. /\ j.net = job[t].net /\ j.addr = a /\ j.pool = job[t].pool
          /\ j.seen = job[t].seen
      BY <2>2, <2>3
    <2>5. j.pool \in LivePools(j.net) /\ LowestOf(j)
      BY <1>3, <2>1, <2>4 DEF CheckAutoAllocate, LowestOf
    <2>6. job'[t] = j /\ UNCHANGED tables
      BY <2>1, <2>3 DEF Pass, TypeOK
    <2>7. j.pool \in LivePools(j.net)' /\ LowestOf(j)'
      BY <2>5, <2>6 DEF tables, LivePools, LowestOf, LiveNet, FreeIn, Allocatable,
                        Reserved, AddressTaken
    <2> QED BY <2>6, <2>7
  <1> QED BY <1>1, <1>2, <1>3, BecomesChecked

AllocatesLowest ==
    \A i \in Ips, t \in Tx :
       Created(i) /\ pc'[t] # pc[t] /\ job[t].op = "autoAllocate"
          => \A b \in FreeIn(job[t].pool, job[t].net, job[t].seen) : ips'[i].addr <= b

LEMMA LowestStep ==
    TypeOK /\ Safety /\ NoOrphanAddress' /\ LowestKnown /\ [Next]_vars => AllocatesLowest
  <1> SUFFICES ASSUME TypeOK, Safety, NoOrphanAddress', LowestKnown, [Next]_vars,
                      NEW i \in Ips, NEW t \in Tx, Created(i), pc'[t] # pc[t],
                      job[t].op = "autoAllocate",
                      NEW b \in FreeIn(job[t].pool, job[t].net, job[t].seen)
               PROVE  ips'[i].addr <= b
    BY DEF AllocatesLowest
  <1>1. PICK u \in Tx : /\ WriteAllocation(u)
                        /\ ips'[i].net = job[u].net /\ ips'[i].addr = job[u].addr
    BY IpInserts
  <1>2. u = t
    BY <1>1 DEF WriteAllocation, End, TypeOK
  <1>3. networks' = networks /\ networks[job[t].net].cluster = job[t].seen.cluster
    BY <1>1, <1>2 DEF WriteAllocation, PutIp, IpFits
  <1>4. LiveNet(job[t].net)
    BY <1>1, <1>2, <1>3 DEF NoOrphanAddress, LiveNet, Created
  <1>5. LowestOf(job[t])
    BY <1>1, <1>2 DEF WriteAllocation, LowestKnown, LowestChecked
  <1> QED BY <1>1, <1>2, <1>3, <1>4, <1>5 DEF LowestOf

\* As long as no undeleted address is left in a deleted network (what the run
\* orphan_address shows can happen), auto_allocate_ip_address commits the
\* lowest free address of its pool, for any number of networks and requests.
\* With such an address the promise is lost: it occupies an address of a network
\* that was created later, and its deletion waits for the wrong row.
THEOREM LowestAllocated == Spec /\ []NoOrphanAddress => LowestFreeAddress
  <1>1. Spec /\ []NoOrphanAddress => []LowestKnown
    BY Typing, SafetyHolds, InitLowest, NextLowest, PTL DEF Spec
  <1> QED BY <1>1, Typing, SafetyHolds, LowestStep, PTL
         DEF Spec, LowestFreeAddress, AllocatesLowest

-----------------------------------------------------------------------------
(* Ipam implements AllocationLedger: with soft deletes, versions and locks *)
(* hidden, every committed transaction is one atomic step of the ledger.   *)

\* What one step does to the pools and addresses: at most one row of one table.
PoolWritten(p) == /\ ips' = ips
                  /\ \A q \in Pools \ {p} : pools'[q] = pools[q]
                  /\ pools[p].state = "absent" \/ pools'[p].net = pools[p].net

Granted(i) == /\ ips[i].state # "live" /\ ips'[i].state = "live"
              /\ IpFits(ips'[i].net, ips'[i].cluster, ips'[i].addr)

IpWritten(i) == /\ pools' = pools
                /\ \A k \in Ips \ {i} : ips'[k] = ips[k]
                /\ \/ ips[i].state = "live" /\ ips'[i].state = "deleted"
                   \/ Granted(i)

Idle == pools' = pools /\ ips' = ips

LEMMA PoolStepShape ==
    ASSUME TypeOK, NEW t \in Tx, PoolStep(t)
    PROVE  Idle \/ \E p \in Pools : PoolWritten(p)
  <1>0. job[t] \in Job
    BY DEF TypeOK
  <1>1. CASE WriteCreatePool(t)
    <2>1. PICK p \in Pools : /\ pools[p].state = "absent"
                             /\ ips' = ips
                             /\ \E row : pools' = [pools EXCEPT ![p] = row]
      BY <1>1 DEF WriteCreatePool, PutPool
    <2> QED BY <2>1 DEF PoolWritten, TypeOK
  <1>2. CASE WriteUpdatePool(t)
    <2> DEFINE p == job[t].pool
    <2>1. p \in Pools
      BY <1>0, <1>2, JobFields DEF WriteUpdatePool, Checked
    <2>2. ips' = ips /\ \A q \in Pools \ {p} : pools'[q] = pools[q]
      BY <1>2 DEF WriteUpdatePool, PutPool, TypeOK
    <2>3. pools'[p].net = pools[p].net
      BY <1>2, <2>1 DEF WriteUpdatePool, PutPool, TypeOK, PoolRow
    <2> QED BY <2>1, <2>2, <2>3 DEF PoolWritten
  <1>3. CASE WriteRestorePool(t)
    <2> DEFINE p == job[t].pool
    <2>1. p \in Pools
      BY <1>0, <1>3, JobFields DEF WriteRestorePool, Checked
    <2>2. ips' = ips /\ \A q \in Pools \ {p} : pools'[q] = pools[q]
      BY <1>3 DEF WriteRestorePool, PutPool, TypeOK
    <2>3. pools'[p].net = pools[p].net
      BY <1>3, <2>1 DEF WriteRestorePool, PutPool, TypeOK, PoolRow
    <2> QED BY <2>1, <2>2, <2>3 DEF PoolWritten
  <1> QED BY <1>1, <1>2, <1>3
          DEF PoolStep, ReadCreatePool, CheckCreatePool, ReadUpdatePool, CheckUpdatePool,
              ReadRestorePool, CheckRestorePool, Begin, Pass, tables, Idle

LEMMA IpStepShape ==
    ASSUME TypeOK, Safety, NEW t \in Tx, IpStep(t)
    PROVE  Idle \/ \E i \in Ips : IpWritten(i)
  <1>0. job[t] \in Job
    BY DEF TypeOK
  <1>1. CASE WriteAllocation(t)
    <2> DEFINE row == [state |-> "live", version |-> 1, net |-> job[t].net,
                       cluster |-> job[t].seen.cluster, addr |-> job[t].addr,
                       pool |-> job[t].pool]
    <2>1. PICK i \in Ips : /\ ips[i].state = "absent"
                           /\ IpFits(job[t].net, job[t].seen.cluster, job[t].addr)
                           /\ PutIp(i, row)
      BY <1>1 DEF WriteAllocation
    <2>2. ips'[i] = row /\ pools' = pools /\ \A k \in Ips \ {i} : ips'[k] = ips[k]
      BY <2>1 DEF PutIp, TypeOK
    <2>3. Granted(i)
      BY <2>1, <2>2 DEF Granted
    <2> QED BY <2>2, <2>3 DEF IpWritten
  <1>2. CASE WriteRestoreIp(t)
    <2> DEFINE i == job[t].ip
    <2>1. /\ pc[t] = "checked" /\ job[t].op = "restoreIp"
          /\ ips[i].state = "deleted"
          /\ IpFits(job[t].net, ips[i].cluster, ips[i].addr)
          /\ PutIp(i, [ips[i] EXCEPT !.state = "live", !.version = @ + 1])
      BY <1>2 DEF WriteRestoreIp, Checked
    <2>2. i \in Ips /\ ips[i].net = job[t].net
      BY <1>0, <2>1, JobFields DEF Safety, LockDiscipline, InFlight, JobLocated
    <2>3. pools' = pools /\ \A k \in Ips \ {i} : ips'[k] = ips[k]
      BY <2>1 DEF PutIp, TypeOK
    <2>4. /\ ips'[i].state = "live" /\ ips'[i].net = ips[i].net
          /\ ips'[i].cluster = ips[i].cluster /\ ips'[i].addr = ips[i].addr
      BY <2>1, <2>2 DEF PutIp, TypeOK, IpRow
    <2>5. Granted(i)
      BY <2>1, <2>2, <2>4 DEF Granted
    <2> QED BY <2>2, <2>3, <2>5 DEF IpWritten
  <1> QED BY <1>1, <1>2
          DEF IpStep, ReadCreateIp, CheckCreateIp, ReadAutoAllocate, CheckAutoAllocate,
              ReadRestoreIp, CheckRestoreIp, Begin, Pass, tables, Idle

LEMMA NetworkStepShape ==
    ASSUME NEW t \in Tx, NetworkStep(t) PROVE Idle
  BY DEF NetworkStep, ReadUpdateNetwork, CheckUpdateNetwork, WriteUpdateNetwork,
         ReadDeleteNetwork, CheckDeleteNetwork, WriteDeleteNetwork, Begin, Pass, PutNet,
         tables, Idle

LEMMA UnlockedStepShape ==
    ASSUME TypeOK, UnlockedStep
    PROVE  Idle \/ (\E p \in Pools : PoolWritten(p)) \/ (\E i \in Ips : IpWritten(i))
  <1>1. ASSUME NEW p \in Pools, DeletePool(p) PROVE PoolWritten(p)
    BY <1>1 DEF DeletePool, PutPool, PoolWritten, TypeOK, PoolRow
  <1>2. ASSUME NEW i \in Ips, DeleteIp(i) PROVE IpWritten(i)
    BY <1>2 DEF DeleteIp, PutIp, IpWritten, TypeOK, IpRow
  <1> QED BY <1>1, <1>2 DEF UnlockedStep, CreateNetwork, SwitchNetwork, RestoreNetwork,
                            PutNet, Idle

LEMMA StepShape ==
    ASSUME TypeOK, Safety, [Next]_vars
    PROVE  Idle \/ (\E p \in Pools : PoolWritten(p)) \/ (\E i \in Ips : IpWritten(i))
  <1>1. ASSUME NEW t \in Tx, Acquire(t) \/ Abort(t) PROVE Idle
    BY <1>1 DEF Acquire, Abort, tables, Idle
  <1>2. CASE UNCHANGED vars
    BY <1>2 DEF vars, tables, Idle
  <1> QED BY <1>1, <1>2, NetworkStepShape, PoolStepShape, IpStepShape, UnlockedStepShape
          DEF Next

-----------------------------------------------------------------------------
(* Each shape is a step of the ledger or leaves it alone.                  *)

LEMMA IdleStutters == ASSUME Idle PROVE UNCHANGED Ledger!vars
  <1>1. Leases' = Leases
    BY DEF Idle, Leases
  <1>2. ReservedSets' = ReservedSets
    BY DEF Idle, ReservedSets, Reserved, LivePools
  <1> QED BY <1>1, <1>2 DEF Ledger!vars

LEMMA PoolWrittenReserves ==
    ASSUME TypeOK, TypeOK', Safety', NEW p \in Pools, PoolWritten(p)
    PROVE  Ledger!Next
  <1> DEFINE n == pools'[p].net
  <1>1. n \in Nets
    BY DEF TypeOK, PoolRow
  <1>2. Leases' = Leases
    BY DEF PoolWritten, Leases
  <1>3. ASSUME NEW m \in Nets, m # n PROVE Reserved(m)' = Reserved(m)
    <2>1. LivePools(m)' = LivePools(m) /\ p \notin LivePools(m)
      BY <1>3 DEF LivePools, PoolWritten
    <2>2. \A q \in LivePools(m) : pools'[q] = pools[q]
      BY <2>1 DEF PoolWritten, LivePools
    <2> QED BY <2>1, <2>2 DEF Reserved
  <1>4. PICK k \in Nets : k = n
    BY <1>1
  <1>5. ReservedSets' = [ReservedSets EXCEPT ![k] = Reserved(k)']
    <2>1. ReservedSets' = [m \in Nets |-> Reserved(m)']
      BY DEF ReservedSets
    <2>2. [ReservedSets EXCEPT ![k] = Reserved(k)']
             = [m \in Nets |-> IF m = k THEN Reserved(k)' ELSE Reserved(m)]
      BY DEF ReservedSets
    <2>3. \A m \in Nets : Reserved(m)' = IF m = k THEN Reserved(k)' ELSE Reserved(m)
      BY <1>3, <1>4
    <2> QED BY <2>1, <2>2, <2>3
  <1>6. Reserved(k)' \in SUBSET Addr
    <2>1. \A q \in Pools : pools'[q].range \in Interval
      BY DEF TypeOK, PoolRow
    <2> QED BY <2>1, UsableIsAddr DEF Reserved, LivePools
  <1>7. \A i \in Ips : Leases[i] # None /\ Leases[i].net = k => Leases[i].addr \notin Reserved(k)'
    <2> SUFFICES ASSUME NEW i \in Ips, Leases[i] # None, Leases[i].net = k
                 PROVE  Leases[i].addr \notin Reserved(k)'
      OBVIOUS
    <2>1. ips[i].state = "live" /\ ips[i].net = k /\ Leases[i].addr = ips[i].addr
      BY DEF Leases
    <2>2. ips' = ips
      BY DEF PoolWritten
    <2>3. ips'[i].addr \notin Reserved(ips[i].net)'
      BY <2>1, <2>2 DEF Safety, ReservedFree
    <2>4. ips'[i].net = k
      BY <2>1, <2>2
    <2> QED BY <2>1, <2>2, <2>3, <2>4
  <1>8. Ledger!Reserve(k, Reserved(k)')
    BY <1>2, <1>5, <1>7 DEF Ledger!Reserve
  <1> QED BY <1>6, <1>8 DEF Ledger!Next

LEMMA ReleaseStep ==
    ASSUME TypeOK, NEW i \in Ips, IpWritten(i), ips[i].state = "live",
           ips'[i].state = "deleted"
    PROVE  Ledger!Release(i)
  <1>1. Leases' = [Leases EXCEPT ![i] = None]
    BY DEF Leases, IpWritten, TypeOK
  <1>2. Leases[i] # None
    <2>1. Leases[i] \in [net : Nets, addr : Addr]
      BY DEF Leases, TypeOK, IpRow
    <2> QED BY <2>1, NullsOK
  <1>3. ReservedSets' = ReservedSets
    BY DEF IpWritten, ReservedSets, Reserved, LivePools
  <1> QED BY <1>1, <1>2, <1>3 DEF Ledger!Release

LEMMA GrantStep ==
    ASSUME TypeOK, TypeOK', Safety, Safety', NEW i \in Ips, IpWritten(i), Granted(i)
    PROVE  \E l \in Ledger!Lease : Ledger!Grant(i, l)
  <1>1. PICK l \in Ledger!Lease : l = [net |-> ips'[i].net, addr |-> ips'[i].addr]
    BY DEF Ledger!Lease, TypeOK, IpRow
  <1>2. Leases[i] = None
    BY DEF Leases, Granted
  <1>3. Leases' = [Leases EXCEPT ![i] = l]
    BY <1>1 DEF Leases, IpWritten, Granted, TypeOK
  <1>4. ReservedSets' = ReservedSets
    BY DEF IpWritten, ReservedSets, Reserved, LivePools
  <1>5. l.addr \notin ReservedSets[l.net]
    <2>1. PICK n \in Nets : n = l.net
      BY <1>1 DEF TypeOK, IpRow
    <2>2. ips'[i].net = n /\ ips'[i].addr = l.addr
      BY <1>1, <2>1
    <2>3. ips'[i].addr \notin Reserved(n)'
      BY <2>2 DEF Safety, ReservedFree, Granted
    <2>4. Reserved(n)' = Reserved(n)
      BY DEF IpWritten, Reserved, LivePools
    <2> QED BY <2>1, <2>2, <2>3, <2>4 DEF ReservedSets
  <1>6. ASSUME NEW j \in Ips, Leases[j] = l PROVE FALSE
    <2>1. l # None
      BY <1>1, NullsOK DEF TypeOK, IpRow
    <2>2. ips[j].state = "live" /\ ips[j].net = ips'[i].net /\ ips[j].addr = ips'[i].addr
      BY <1>1, <1>6, <2>1 DEF Leases
    <2>3. ips[j].cluster = networks[ips'[i].net].cluster
      BY <2>2 DEF Safety, LocationConsistent
    <2> QED BY <2>2, <2>3 DEF Granted, IpFits, AddressTaken
  <1> QED BY <1>2, <1>3, <1>4, <1>5, <1>6 DEF Ledger!Grant

LEMMA IpWrittenLeases ==
    ASSUME TypeOK, TypeOK', Safety, Safety', NEW i \in Ips, IpWritten(i)
    PROVE  Ledger!Next
  <1>1. CASE ips[i].state = "live" /\ ips'[i].state = "deleted"
    BY <1>1, ReleaseStep DEF Ledger!Next
  <1>2. CASE Granted(i)
    BY <1>2, GrantStep DEF Ledger!Next
  <1> QED BY <1>1, <1>2 DEF IpWritten

-----------------------------------------------------------------------------
LEMMA LedgerInit == Init => Ledger!Init
  <1> SUFFICES ASSUME Init PROVE Ledger!Init
    OBVIOUS
  <1>1. Leases = [i \in Ips |-> None]
    BY DEF Init, Leases, NoIp
  <1>2. \A n : LivePools(n) = {}
    BY DEF Init, LivePools, NoPool
  <1>3. ReservedSets = [n \in Nets |-> {}]
    BY <1>2 DEF ReservedSets, Reserved
  <1> QED BY <1>1, <1>3 DEF Ledger!Init

LEMMA LedgerNext ==
    TypeOK /\ TypeOK' /\ Safety /\ Safety' /\ [Next]_vars => [Ledger!Next]_(Ledger!vars)
  BY StepShape, IdleStutters, PoolWrittenReserves, IpWrittenLeases

\* Every behaviour of the network, pool and address handlers, seen through the
\* undeleted addresses and the RESERVED pools, is a behaviour of the ledger: one
\* commit is at most one atomic grant, release or change of a reserved set.
THEOREM ImplementsLedger == Spec => LedgerSpec
  BY Typing, SafetyHolds, LedgerInit, LedgerNext, PTL DEF Spec, LedgerSpec, Ledger!Spec

Law == INSTANCE LedgerProofs WITH leases <- Leases, reserved <- ReservedSets

\* What the abstract ledger promises therefore holds of the tables at every
\* moment, whatever requests interleave: one undeleted holder per address of a
\* network, and no undeleted holder of an address of an undeleted RESERVED pool.
THEOREM OneHolder == Spec => []Ledger!Safe
  <1>1. Law!NoneIsNoLease
    BY NullsOK DEF Law!NoneIsNoLease, Law!Lease
  <1>2. Law!Spec => []Law!Safe
    BY <1>1, Law!LedgerSafe
  <1>3. Law!Spec <=> LedgerSpec
    BY DEF LedgerSpec, Law!Spec, Ledger!Spec, Law!Init, Ledger!Init, Law!vars, Ledger!vars,
           Law!Next, Ledger!Next, Law!Grant, Ledger!Grant, Law!Release, Ledger!Release,
           Law!Reserve, Ledger!Reserve, Law!Lease, Ledger!Lease
  <1>4. Law!Safe <=> Ledger!Safe
    BY DEF Law!Safe, Ledger!Safe
  <1> QED BY <1>2, <1>3, <1>4, ImplementsLedger, PTL

-----------------------------------------------------------------------------
(* The only way to an undeleted address in a deleted network.              *)

Allocating(t) == pc[t] # "idle" /\ job[t].op \in {"createIp", "autoAllocate"}

\* A step that deletes no network which an allocation in flight has read.
SparesAllocations ==
    \A t \in Tx : Allocating(t) /\ LiveNet(job[t].net)
                     => networks'[job[t].net].state = "live"

\* The networks of the allocations in flight are undeleted, like those of the
\* undeleted addresses.
AllocationsLive == \A t \in Tx : Allocating(t) => LiveNet(job[t].net)

\* An allocation reads its network once; afterwards it stays with it.
LEMMA AllocationsRead ==
    ASSUME TypeOK, [Next]_vars, NEW t \in Tx, Allocating(t)'
    PROVE  \/ Allocating(t) /\ job'[t].net = job[t].net
           \/ networks' = networks /\ LiveNet(job'[t].net)
  <1>1. CASE UnlockedStep
    BY <1>1 DEF UnlockedStep, CreateNetwork, SwitchNetwork, RestoreNetwork, DeletePool, DeleteIp,
                Allocating
  <1>2. ASSUME NEW u \in Tx, Acquire(u) \/ Abort(u)
        PROVE  Allocating(t) /\ job'[t].net = job[t].net
    BY <1>2 DEF Acquire, Abort, End, TypeOK, Allocating
  <1>3. ASSUME NEW u \in Tx, NetworkStep(u) \/ PoolStep(u) \/ IpStep(u), u # t
        PROVE  Allocating(t) /\ job'[t].net = job[t].net
    <2>1. ASSUME NEW j, Begin(u, j) \/ Pass(u, j) PROVE pc'[t] = pc[t] /\ job'[t] = job[t]
      BY <1>3, <2>1 DEF Begin, Pass, TypeOK
    <2>2. ASSUME End(u) PROVE pc'[t] = pc[t] /\ job'[t] = job[t]
      BY <1>3, <2>2 DEF End, TypeOK
    <2>3. pc'[t] = pc[t] /\ job'[t] = job[t]
      BY <1>3, <2>1, <2>2 DEF NetworkStep, PoolStep, IpStep, ReadUpdateNetwork,
         CheckUpdateNetwork, WriteUpdateNetwork, ReadDeleteNetwork, CheckDeleteNetwork,
         WriteDeleteNetwork, ReadCreatePool, CheckCreatePool, WriteCreatePool, ReadUpdatePool,
         CheckUpdatePool, WriteUpdatePool, ReadRestorePool, CheckRestorePool,
         WriteRestorePool, ReadCreateIp, CheckCreateIp, ReadAutoAllocate, CheckAutoAllocate,
         WriteAllocation, ReadRestoreIp, CheckRestoreIp, WriteRestoreIp
    <2> QED BY <2>3 DEF Allocating
  <1>4. CASE NetworkStep(t) \/ PoolStep(t)
    <2>1. ASSUME NEW j, Begin(t, j) PROVE job'[t] = j
      BY <2>1 DEF Begin, TypeOK
    <2>2. ASSUME Pass(t, job[t]) PROVE job'[t] = job[t]
      BY <2>2 DEF Pass, TypeOK
    <2>3. ASSUME End(t) PROVE FALSE
      BY <2>3 DEF End, TypeOK, Allocating
    <2>4. job'[t].op \in {"createIp", "autoAllocate"}
      BY DEF Allocating
    <2>5. ASSUME NetworkStep(t) PROVE FALSE
      <3>1. ~WriteUpdateNetwork(t) /\ ~WriteDeleteNetwork(t)
        BY <2>3 DEF WriteUpdateNetwork, WriteDeleteNetwork
      <3>2. ~CheckUpdateNetwork(t) /\ ~CheckDeleteNetwork(t)
        BY <2>2, <2>4 DEF CheckUpdateNetwork, CheckDeleteNetwork, Locked
      <3>3. ASSUME NEW n \in Nets PROVE ~ReadDeleteNetwork(t, n)
        BY <2>1, <2>4 DEF ReadDeleteNetwork
      <3>4. ASSUME NEW n \in Nets, NEW ch \in NetworkChanges PROVE ~ReadUpdateNetwork(t, n, ch)
        BY <2>1, <2>4 DEF ReadUpdateNetwork
      <3> QED BY <2>5, <3>1, <3>2, <3>3, <3>4 DEF NetworkStep
    <2>6. ASSUME PoolStep(t) PROVE FALSE
      <3>1. ~WriteCreatePool(t) /\ ~WriteUpdatePool(t) /\ ~WriteRestorePool(t)
        BY <2>3 DEF WriteCreatePool, WriteUpdatePool, WriteRestorePool
      <3>2. ~CheckCreatePool(t) /\ ~CheckUpdatePool(t) /\ ~CheckRestorePool(t)
        BY <2>2, <2>4 DEF CheckCreatePool, CheckUpdatePool, CheckRestorePool, Locked
      <3>3. ASSUME NEW n \in Nets, NEW in \in PoolInputs PROVE ~ReadCreatePool(t, n, in)
        BY <2>1, <2>4 DEF ReadCreatePool
      <3>4. ASSUME NEW p \in Pools, NEW ch \in PoolChanges PROVE ~ReadUpdatePool(t, p, ch)
        BY <2>1, <2>4 DEF ReadUpdatePool
      <3>5. ASSUME NEW p \in Pools PROVE ~ReadRestorePool(t, p)
        BY <2>1, <2>4 DEF ReadRestorePool
      <3> QED BY <2>6, <3>1, <3>2, <3>3, <3>4, <3>5 DEF PoolStep
    <2> QED BY <1>4, <2>5, <2>6
  <1>5. CASE IpStep(t)
    <2>1. ASSUME NEW n \in Nets, NEW a \in Addr, ReadCreateIp(t, n, a)
          PROVE  networks' = networks /\ LiveNet(job'[t].net)
      BY <2>1 DEF ReadCreateIp, Begin, TypeOK, tables
    <2>2. ASSUME NEW n \in Nets, NEW p \in Pools, ReadAutoAllocate(t, n, p)
          PROVE  networks' = networks /\ LiveNet(job'[t].net)
      BY <2>2 DEF ReadAutoAllocate, Begin, TypeOK, tables
    <2>3. ASSUME CheckCreateIp(t) \/ CheckAutoAllocate(t)
          PROVE  Allocating(t) /\ job'[t].net = job[t].net
      <3>1. job[t] \in [op : {"createIp", "autoAllocate"}, net : Nets,
                        addr : Addr \cup {None}, pool : Pools \cup {None}, seen : NetColumns]
        BY <2>3 DEF CheckCreateIp, CheckAutoAllocate, Locked, TypeOK, Job, NoJob
      <3> QED BY <2>3, <3>1 DEF CheckCreateIp, CheckAutoAllocate, Locked, Pass, TypeOK, Allocating
    <2>4. ASSUME WriteAllocation(t) \/ WriteRestoreIp(t) PROVE FALSE
      BY <2>4 DEF WriteAllocation, WriteRestoreIp, End, TypeOK, Allocating
    <2>5. ASSUME NEW i \in Ips, ReadRestoreIp(t, i) PROVE FALSE
      BY <2>5 DEF ReadRestoreIp, Begin, TypeOK, Allocating
    <2>6. ASSUME CheckRestoreIp(t) PROVE FALSE
      BY <2>6 DEF CheckRestoreIp, Locked, Pass, TypeOK, Allocating
    <2> QED BY <1>5, <2>1, <2>2, <2>3, <2>4, <2>5, <2>6 DEF IpStep
  <1>6. CASE UNCHANGED vars
    BY <1>6 DEF vars, Allocating
  <1> QED BY <1>1, <1>2, <1>3, <1>4, <1>5, <1>6 DEF Next

LEMMA NextLive ==
    TypeOK /\ AllocationsLive /\ [Next]_vars /\ SparesAllocations => AllocationsLive'
  <1> SUFFICES ASSUME TypeOK, AllocationsLive, [Next]_vars, SparesAllocations,
                      NEW t \in Tx, Allocating(t)'
               PROVE  networks'[job'[t].net].state = "live"
    BY DEF AllocationsLive, LiveNet
  <1> QED BY AllocationsRead DEF AllocationsLive, SparesAllocations, LiveNet

LEMMA NextNoOrphan ==
    TypeOK /\ TypeOK' /\ Safety /\ Safety' /\ AllocationsLive /\ NoOrphanAddress /\ [Next]_vars
       => NoOrphanAddress'
  <1> SUFFICES ASSUME TypeOK, TypeOK', Safety, Safety', AllocationsLive, NoOrphanAddress,
                      [Next]_vars, NEW i \in Ips, ips'[i].state = "live"
               PROVE  networks'[ips'[i].net].state = "live"
    BY DEF NoOrphanAddress, LiveNet
  <1>1. CASE ips'[i] = ips[i]
    <2>1. PICK n \in Nets : n = ips[i].net
      BY DEF TypeOK, IpRow
    <2>2. LiveNet(n) /\ InUse(n)
      BY <1>1, <2>1 DEF NoOrphanAddress, InUse, LiveIps
    <2>3. networks'[n].state # "deleted"
      BY <2>2, DeleteStep DEF DeletesEmpty
    <2>4. networks'[n].state # "absent"
      BY <1>1, <2>1 DEF Safety, LockDiscipline, NetworksExist
    <2> QED BY <1>1, <2>1, <2>3, <2>4 DEF TypeOK, NetRow, RowState
  <1>2. CASE ips'[i] # ips[i]
    <2>1. ips[i].state # "live"
      BY <1>2, StepShape DEF Idle, PoolWritten, IpWritten, Granted
    <2>2. CASE ips[i].state = "absent"
      <3>1. PICK t \in Tx : WriteAllocation(t) /\ ips'[i].net = job[t].net
        BY <2>2, IpInserts DEF Created
      <3>2. Allocating(t) /\ networks' = networks
        BY <3>1 DEF WriteAllocation, Allocating, PutIp
      <3> QED BY <3>1, <3>2 DEF AllocationsLive, LiveNet
    <2>3. CASE ips[i].state = "deleted"
      <3>1. PICK t \in Tx : WriteRestoreIp(t) /\ job[t].ip = i
        BY <2>3, IpRestores DEF Restored
      <3>2. LiveNet(ips[i].net)
        BY <2>3, RestoreStep DEF RestoresAllocatable, Restored
      <3>3. networks' = networks /\ ips'[i].net = ips[i].net
        BY <3>1 DEF WriteRestoreIp, PutIp, TypeOK, IpRow
      <3> QED BY <3>2, <3>3 DEF LiveNet
    <2> QED BY <2>1, <2>2, <2>3 DEF TypeOK, IpRow, RowState
  <1> QED BY <1>1, <1>2

LEMMA SparedHasNoOrphan == Spec /\ [][SparesAllocations]_vars => []NoOrphanAddress
  <1>1. Init => AllocationsLive /\ NoOrphanAddress
    BY DEF Init, AllocationsLive, Allocating, NoOrphanAddress, NoIp
  <1>2. TypeOK /\ AllocationsLive /\ [Next]_vars /\ [SparesAllocations]_vars => AllocationsLive'
    <2>1. UNCHANGED vars /\ AllocationsLive => AllocationsLive'
      BY DEF vars, tables, AllocationsLive, Allocating, LiveNet
    <2> QED BY <2>1, NextLive
  <1> QED BY <1>1, <1>2, NextNoOrphan, Typing, SafetyHolds, PTL DEF Spec

\* The run orphan_address shows an undeleted address in a deleted network.  Its
\* cause is the one interleaving that it shows: as long as delete_network does
\* not commit between the moment an allocation reads the network and the moment
\* it inserts, there is none, whatever else interleaves; restores never make one.
THEOREM OrphansComeFromAllocations ==
    Spec /\ [][SparesAllocations]_vars => []NoOrphanAddress /\ LowestFreeAddress
  BY SparedHasNoOrphan, LowestAllocated, PTL
=============================================================================
