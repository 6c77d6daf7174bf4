-------------------------------- MODULE Ipam --------------------------------
(***************************************************************************)
(* The address-management core of CSM: Networks, IP pools and IP addresses *)
(* (backend/app/services/network.py, ip_pool.py, ip_address.py), run by    *)
(* concurrent requests over one PostgreSQL database at READ COMMITTED.     *)
(*                                                                         *)
(* A handler that takes _lock_network runs in four steps, because other    *)
(* requests commit between them:                                           *)
(*    Read...    the rows it loads before it asks for the lock.  They stay *)
(*               in the session and are NOT re-read after the lock;        *)
(*    Acquire    SELECT ... FOR UPDATE on the networks row;                *)
(*    Check...   the queries it makes while it holds the lock;             *)
(*    Write...   INSERT or conditional UPDATE, with the constraints and    *)
(*               triggers of the migrations, audit row and COMMIT.         *)
(* A handler that takes no lock keeps nothing between its reads and its    *)
(* conditional UPDATE that the version column or a constraint does not     *)
(* check again there, so it is one step.  Abort is every other ending: a   *)
(* validation error, a lost version race, a constraint violation, a lock   *)
(* or statement timeout, a dropped connection.  All roll back.             *)
(*                                                                         *)
(* Names, descriptions and metadata are left out, and so are the access    *)
(* scope and the binding of addresses to interfaces.  An address is a      *)
(* number, a CIDR or a pool range a closed interval of numbers.            *)
(***************************************************************************)
EXTENDS Integers, FiniteSets

CONSTANTS Tx,              \* requests in flight, one database transaction each
          Clusters, Nets, Pools, Ips,      \* identities of rows
          MaxAddr,         \* addresses are 0..MaxAddr
          Disabled,        \* addresses of normalization.DISABLED_GATEWAY_NETWORKS
          NetworkInputs,   \* column values a client sends to create_network
          NetworkChanges,  \* "changes" a client sends to update_network
          PoolInputs,      \* column values a client sends to create_ip_pool
          PoolChanges,     \* "changes" a client sends to update_ip_pool
          MaxVersion,      \* bound: a row is written at most this many times
          None,            \* SQL NULL
          Same             \* a key that is not in "changes"

Addr == 0..MaxAddr
Interval == {r \in [lo : Addr, hi : Addr] : r.lo <= r.hi}
Mode == {"AUTO", "MANUAL", "RESERVED"}
Status == {"ACTIVE", "INACTIVE"}
RowState == {"absent", "live", "deleted"}

NetColumns == [cluster : Clusters, cidr : Interval, gateway : Addr \cup {None},
               status : Status, auto : BOOLEAN]
PoolColumns == [range : Interval, mode : Mode]

NetChange == [cluster : Clusters \cup {Same}, cidr : Interval \cup {Same},
              gateway : Addr \cup {None, Same}, status : Status \cup {Same},
              auto : BOOLEAN \cup {Same}]
PoolChange == [range : Interval \cup {Same}, mode : Mode \cup {Same}]

ASSUME ConstantsOK ==
    /\ MaxAddr \in Nat /\ MaxVersion \in Nat \ {0}
    /\ NetworkInputs \in SUBSET NetColumns /\ NetworkChanges \in SUBSET NetChange
    /\ PoolInputs \in SUBSET PoolColumns /\ PoolChanges \in SUBSET PoolChange
    /\ Clusters # {} /\ Nets # {}

ASSUME NullsOK ==
    /\ None \notin Addr \cup Tx \cup Pools \cup [net : Nets, addr : Addr]
    /\ Same \notin Clusters \cup Interval \cup Addr \cup {None} \cup Status
                    \cup BOOLEAN \cup Mode

VARIABLES networks, pools, ips,   \* the tables
          lock,                   \* who holds a networks row FOR UPDATE
          pc,                     \* how far each request is
          job                     \* what it was asked and what it has read

tables == <<networks, pools, ips>>
vars == <<networks, pools, ips, lock, pc, job>>

NetRow == [state : RowState, version : 0..MaxVersion, cluster : Clusters,
           cidr : Interval, gateway : Addr \cup {None}, status : Status,
           auto : BOOLEAN]
PoolRow == [state : RowState, version : 0..MaxVersion, net : Nets,
            range : Interval, mode : Mode]
IpRow == [state : RowState, version : 0..MaxVersion, net : Nets,
          cluster : Clusters, addr : Addr, pool : Pools \cup {None}]

NoRange == [lo |-> 0, hi |-> 0]
NoNet == [state |-> "absent", version |-> 0, cluster |-> CHOOSE c \in Clusters : TRUE,
          cidr |-> NoRange, gateway |-> None, status |-> "ACTIVE", auto |-> FALSE]
NoPool == [state |-> "absent", version |-> 0, net |-> CHOOSE n \in Nets : TRUE,
           range |-> NoRange, mode |-> "MANUAL"]
NoIp == [state |-> "absent", version |-> 0, net |-> CHOOSE n \in Nets : TRUE,
         cluster |-> CHOOSE c \in Clusters : TRUE, addr |-> 0, pool |-> None]
NoJob == [op |-> "none"]

Init == /\ networks = [n \in Nets |-> NoNet]
        /\ pools = [p \in Pools |-> NoPool]
        /\ ips = [i \in Ips |-> NoIp]
        /\ lock = [n \in Nets |-> None]
        /\ pc = [t \in Tx |-> "idle"]
        /\ job = [t \in Tx |-> NoJob]

-----------------------------------------------------------------------------
(* Address arithmetic and the queries of the services.                     *)

Block(r) == r.lo .. r.hi
Overlap(r, s) == r.lo <= s.hi /\ s.lo <= r.hi

\* Blocks of four and more (/0../30) lose their network and broadcast address.
Usable(cidr) == IF cidr.hi - cidr.lo >= 3 THEN (cidr.lo + 1) .. (cidr.hi - 1)
                                          ELSE Block(cidr)

GatewayOK(g, cidr) == \/ g = None
                      \/ cidr.lo # cidr.hi /\ g \in Usable(cidr) \ Disabled

New(change, old) == IF change = Same THEN old ELSE change

LiveNet(n) == networks[n].state = "live"
LivePools(n) == {p \in Pools : pools[p].state = "live" /\ pools[p].net = n}
LiveIps(n) == {i \in Ips : ips[i].state = "live" /\ ips[i].net = n}

Reserved(n) == UNION {Block(pools[p].range) :
                         p \in {q \in LivePools(n) : pools[q].mode = "RESERVED"}}

\* The RESERVED pools are queried, the network columns are those passed in.
Allocatable(n, cols) ==
    Usable(cols.cidr) \ (Disabled \cup {cols.gateway} \cup Reserved(n))

AddressTaken(c, a) ==
    \E i \in Ips : ips[i].state = "live" /\ ips[i].cluster = c /\ ips[i].addr = a

\* No undeleted address of the network's Cluster lies in the range.
Unoccupied(n, r) == \A a \in Block(r) : ~AddressTaken(networks[n].cluster, a)

NetworksOverlap(c, cidr, self) ==
    \E m \in Nets \ {self} : /\ LiveNet(m)
                             /\ networks[m].cluster = c
                             /\ Overlap(networks[m].cidr, cidr)

PoolsOverlap(n, r, self) ==
    \E p \in LivePools(n) \ {self} : Overlap(pools[p].range, r)

InUse(n) == LivePools(n) # {} \/ LiveIps(n) # {}

DerivedPool(n, a) == LET in == {p \in LivePools(n) : a \in Block(pools[p].range)}
                     IN  IF in = {} THEN None ELSE CHOOSE p \in in : TRUE

\* Triggers of migrations 0009 and 0010 and ip_addresses' partial unique index.
PoolFits(n, r) == Block(r) \subseteq Block(networks[n].cidr)
IpFits(n, c, a) == /\ c = networks[n].cluster
                   /\ a \in Usable(networks[n].cidr) \ Disabled
                   /\ ~AddressTaken(c, a)

-----------------------------------------------------------------------------
(* Steps every locking handler shares.                                     *)

Columns(n) == [cluster |-> networks[n].cluster, cidr |-> networks[n].cidr,
               gateway |-> networks[n].gateway, status |-> networks[n].status,
               auto |-> networks[n].auto]

Begin(t, j) == /\ pc[t] = "idle"
               /\ pc' = [pc EXCEPT ![t] = "waiting"]
               /\ job' = [job EXCEPT ![t] = j]
               /\ UNCHANGED <<tables, lock>>

\* Mutant of Acquire: the row is read without FOR UPDATE's wait.
AcquireNoWait(t) == /\ pc[t] = "waiting"
                    /\ lock' = [lock EXCEPT ![job[t].net] = t]
                    /\ pc' = [pc EXCEPT ![t] = "locked"]
                    /\ UNCHANGED <<tables, job>>

\* _lock_network waits for the transaction that holds the row.
Acquire(t) == /\ pc[t] = "waiting"
              /\ lock[job[t].net] = None
              /\ lock' = [lock EXCEPT ![job[t].net] = t]
              /\ pc' = [pc EXCEPT ![t] = "locked"]
              /\ UNCHANGED <<tables, job>>

Locked(t, op) == pc[t] = "locked" /\ job[t].op = op
Checked(t, op) == pc[t] = "checked" /\ job[t].op = op

Pass(t, j) == /\ pc' = [pc EXCEPT ![t] = "checked"]
              /\ job' = [job EXCEPT ![t] = j]
              /\ UNCHANGED <<tables, lock>>

\* COMMIT and ROLLBACK both end the transaction and release its row lock.
End(t) == /\ pc' = [pc EXCEPT ![t] = "idle"]
          /\ job' = [job EXCEPT ![t] = NoJob]
          /\ lock' = [n \in Nets |-> IF lock[n] = t THEN None ELSE lock[n]]

Abort(t) == /\ pc[t] # "idle"
            /\ End(t)
            /\ UNCHANGED tables

-----------------------------------------------------------------------------
(* Networks.                                                               *)

PutNet(n, row) == networks' = [networks EXCEPT ![n] = row] /\ UNCHANGED <<pools, ips>>

NetworkValid(c, cidr, gateway, self) == /\ GatewayOK(gateway, cidr)
                                        /\ ~NetworksOverlap(c, cidr, self)

\* create_network: the exclusion constraint repeats the overlap query.
CreateNetwork(n, in) ==
    /\ networks[n].state = "absent"
    /\ NetworkValid(in.cluster, in.cidr, in.gateway, n)
    /\ PutNet(n, [state |-> "live", version |-> 1, cluster |-> in.cluster,
                  cidr |-> in.cidr, gateway |-> in.gateway,
                  status |-> in.status, auto |-> in.auto])
    /\ UNCHANGED <<lock, pc, job>>

MovesNetwork(ch) == ch.cidr # Same \/ ch.cluster # Same

\* Mutant of ChangedNet: a key that is absent from "changes" is written too.
ChangedNet(row, ch) == [row EXCEPT !.version = @ + 1,
                                   !.cluster = New(ch.cluster, @),
                                   !.cidr = New(ch.cidr, @),
                                   !.gateway = New(ch.gateway, @),
                                   !.status = New(ch.status, @),
                                   !.auto = New(ch.auto, @)]

\* update_network without cidr, cluster and gateway takes no lock; its UPDATE
\* waits for a transaction that holds the row FOR UPDATE.
SwitchNetwork(n, ch) ==
    /\ LiveNet(n) /\ networks[n].version < MaxVersion
    /\ ~MovesNetwork(ch) /\ ch.gateway = Same
    /\ lock[n] = None
    /\ PutNet(n, ChangedNet(networks[n], ch))
    /\ UNCHANGED <<lock, pc, job>>

ReadUpdateNetwork(t, n, ch) ==
    /\ LiveNet(n) /\ networks[n].version < MaxVersion
    /\ MovesNetwork(ch) \/ ch.gateway # Same
    /\ Begin(t, [op |-> "updateNetwork", net |-> n, ver |-> networks[n].version,
                 change |-> ch])

\* Mutant of CheckUpdateNetwork: the gateway is not looked up in ip_addresses.
CheckUpdateNetworkNoOccupancy(t) ==
    /\ Locked(t, "updateNetwork")
    /\ MovesNetwork(job[t].change) => ~InUse(job[t].net)
    /\ Pass(t, job[t])

\* The version pins every other column the handler has read of the row: if it
\* moved on, WriteUpdateNetwork is not possible and the request ends in Abort.
CheckUpdateNetwork(t) ==
    /\ Locked(t, "updateNetwork")
    /\ LET n == job[t].net
           ch == job[t].change
           gateway == New(ch.gateway, networks[n].gateway)
       IN  /\ ch.cidr # Same \/ ch.gateway # Same
                 => GatewayOK(gateway, New(ch.cidr, networks[n].cidr))
           /\ MovesNetwork(ch)
                 => /\ ~InUse(n)
                    /\ ~NetworksOverlap(New(ch.cluster, networks[n].cluster),
                                        New(ch.cidr, networks[n].cidr), n)
           /\ ch.gateway # Same /\ gateway # None
                 => ~AddressTaken(networks[n].cluster, gateway)
    /\ Pass(t, job[t])

WriteUpdateNetwork(t) ==
    /\ Checked(t, "updateNetwork")
    /\ LET n == job[t].net
           row == ChangedNet(networks[n], job[t].change)
       IN  /\ LiveNet(n) /\ networks[n].version = job[t].ver
           /\ ~NetworksOverlap(row.cluster, row.cidr, n)
           /\ PutNet(n, row)
    /\ End(t)

ReadDeleteNetwork(t, n) ==
    /\ LiveNet(n) /\ networks[n].version < MaxVersion
    /\ Begin(t, [op |-> "deleteNetwork", net |-> n, ver |-> networks[n].version])

\* Mutant of CheckDeleteNetwork: the reference query runs without the lock.
CheckDeleteNetworkNoLock(t) == /\ pc[t] = "waiting" /\ job[t].op = "deleteNetwork"
                               /\ ~InUse(job[t].net)
                               /\ Pass(t, job[t])

CheckDeleteNetwork(t) == /\ Locked(t, "deleteNetwork")
                         /\ ~InUse(job[t].net)
                         /\ Pass(t, job[t])

WriteDeleteNetwork(t) ==
    /\ Checked(t, "deleteNetwork")
    /\ LET n == job[t].net
       IN  /\ LiveNet(n) /\ networks[n].version = job[t].ver
           /\ PutNet(n, [networks[n] EXCEPT !.state = "deleted", !.version = @ + 1])
    /\ End(t)

\* restore_network takes no lock; the exclusion constraint decides the overlap.
RestoreNetwork(n) ==
    /\ networks[n].state = "deleted" /\ networks[n].version < MaxVersion
    /\ lock[n] = None
    /\ ~NetworksOverlap(networks[n].cluster, networks[n].cidr, n)
    /\ PutNet(n, [networks[n] EXCEPT !.state = "live", !.version = @ + 1])
    /\ UNCHANGED <<lock, pc, job>>

-----------------------------------------------------------------------------
(* IP pools.                                                               *)

PutPool(p, row) == pools' = [pools EXCEPT ![p] = row] /\ UNCHANGED <<networks, ips>>

ReadCreatePool(t, n, in) ==
    /\ LiveNet(n)
    /\ Begin(t, [op |-> "createPool", net |-> n, input |-> in, seen |-> Columns(n)])

\* Mutant of CheckCreatePool: a RESERVED pool may cover allocated addresses.
CheckCreatePoolNoOccupancy(t) ==
    /\ Locked(t, "createPool")
    /\ \A p \in LivePools(job[t].net) : ~Overlap(pools[p].range, job[t].input.range)
    /\ Pass(t, job[t])

\* The CIDR is the one read before the lock; the trigger compares with today's.
CheckCreatePool(t) ==
    /\ Locked(t, "createPool")
    /\ LET n == job[t].net
           r == job[t].input.range
       IN  /\ Block(r) \subseteq Block(job[t].seen.cidr)
           /\ \A p \in LivePools(n) : ~Overlap(pools[p].range, r)
           /\ job[t].input.mode = "RESERVED" => Unoccupied(n, r)
    /\ Pass(t, job[t])

WriteCreatePool(t) ==
    /\ Checked(t, "createPool")
    /\ \E p \in Pools :
          LET n == job[t].net
              in == job[t].input
          IN  /\ pools[p].state = "absent"
              /\ PoolFits(n, in.range) /\ ~PoolsOverlap(n, in.range, p)
              /\ PutPool(p, [state |-> "live", version |-> 1, net |-> n,
                             range |-> in.range, mode |-> in.mode])
    /\ End(t)

ReadUpdatePool(t, p, ch) ==
    /\ pools[p].state = "live" /\ pools[p].version < MaxVersion
    /\ Begin(t, [op |-> "updatePool", net |-> pools[p].net, pool |-> p,
                 ver |-> pools[p].version, change |-> ch])

\* Mutant of NeedsOccupancyCheck: only a change of mode triggers the query.
NeedsOccupancyCheckModeOnly(row, ch) ==
    New(ch.mode, row.mode) = "RESERVED" /\ row.mode # "RESERVED"

\* The occupancy query runs when a pool becomes RESERVED, or when a RESERVED
\* range grows at either end; then it covers the whole new range.
NeedsOccupancyCheck(row, ch) ==
    LET range == New(ch.range, row.range)
    IN  /\ New(ch.mode, row.mode) = "RESERVED"
        /\ \/ row.mode # "RESERVED"
           \/ range.lo < row.range.lo
           \/ range.hi > row.range.hi

CheckUpdatePool(t) ==
    /\ Locked(t, "updatePool")
    /\ LET p == job[t].pool
           n == job[t].net
           range == New(job[t].change.range, pools[p].range)
       IN  /\ job[t].change.range # Same
                 => PoolFits(n, range) /\ ~PoolsOverlap(n, range, p)
           /\ NeedsOccupancyCheck(pools[p], job[t].change) => Unoccupied(n, range)
    /\ Pass(t, job[t])

\* Mutant of WriteUpdatePool: an absent allocation_mode overwrites the column.
WriteUpdatePoolNoDefault(t) ==
    /\ Checked(t, "updatePool")
    /\ LET p == job[t].pool
       IN  /\ pools[p].state = "live" /\ pools[p].version = job[t].ver
           /\ PutPool(p, [pools[p] EXCEPT !.version = @ + 1,
                                         !.mode = job[t].change.mode])
    /\ End(t)

WriteUpdatePool(t) ==
    /\ Checked(t, "updatePool")
    /\ LET p == job[t].pool
           row == [pools[p] EXCEPT !.version = @ + 1,
                                   !.range = New(job[t].change.range, @),
                                   !.mode = New(job[t].change.mode, @)]
       IN  /\ pools[p].state = "live" /\ pools[p].version = job[t].ver
           /\ PoolFits(row.net, row.range) /\ ~PoolsOverlap(row.net, row.range, p)
           /\ PutPool(p, row)
    /\ End(t)

\* Mutant of DeletePool: no trigger makes it wait for the lock holder.
DeletePoolNoWait(p) ==
    /\ pools[p].state = "live" /\ pools[p].version < MaxVersion
    /\ PutPool(p, [pools[p] EXCEPT !.state = "deleted", !.version = @ + 1])
    /\ UNCHANGED <<lock, pc, job>>

\* delete_ip_pool takes no lock and asks no references, but its UPDATE fires
\* the trigger, which waits FOR KEY SHARE on the networks row.
DeletePool(p) ==
    /\ pools[p].state = "live" /\ pools[p].version < MaxVersion
    /\ lock[pools[p].net] = None
    /\ PutPool(p, [pools[p] EXCEPT !.state = "deleted", !.version = @ + 1])
    /\ UNCHANGED <<lock, pc, job>>

ReadRestorePool(t, p) ==
    /\ pools[p].state = "deleted" /\ pools[p].version < MaxVersion
    /\ Begin(t, [op |-> "restorePool", net |-> pools[p].net, pool |-> p,
                 ver |-> pools[p].version])

CheckRestorePool(t) ==
    /\ Locked(t, "restorePool")
    /\ LET p == job[t].pool
           n == job[t].net
       IN  /\ LiveNet(n)
           /\ PoolFits(n, pools[p].range) /\ ~PoolsOverlap(n, pools[p].range, p)
           /\ pools[p].mode = "RESERVED" => Unoccupied(n, pools[p].range)
    /\ Pass(t, job[t])

WriteRestorePool(t) ==
    /\ Checked(t, "restorePool")
    /\ LET p == job[t].pool
           n == job[t].net
       IN  /\ pools[p].state = "deleted" /\ pools[p].version = job[t].ver
           /\ PoolFits(n, pools[p].range) /\ ~PoolsOverlap(n, pools[p].range, p)
           /\ PutPool(p, [pools[p] EXCEPT !.state = "live", !.version = @ + 1])
    /\ End(t)

-----------------------------------------------------------------------------
(* IP addresses.                                                           *)

PutIp(i, row) == ips' = [ips EXCEPT ![i] = row] /\ UNCHANGED <<networks, pools>>

ReadCreateIp(t, n, a) ==
    /\ LiveNet(n)
    /\ Begin(t, [op |-> "createIp", net |-> n, addr |-> a, pool |-> None,
                 seen |-> Columns(n)])

\* Status, CIDR, gateway and cluster are those read before the lock; the
\* RESERVED pools, the duplicates and the source pool are queried under it.
CheckCreateIp(t) ==
    /\ Locked(t, "createIp")
    /\ LET j == job[t]
       IN  /\ j.seen.status = "ACTIVE"
           /\ j.addr \in Allocatable(j.net, j.seen)
           /\ ~AddressTaken(j.seen.cluster, j.addr)
           /\ Pass(t, [j EXCEPT !.pool = DerivedPool(j.net, j.addr)])

ReadAutoAllocate(t, n, p) ==
    /\ LiveNet(n)
    /\ Begin(t, [op |-> "autoAllocate", net |-> n, addr |-> None, pool |-> p,
                 seen |-> Columns(n)])

FreeIn(p, n, cols) ==
    {a \in Block(pools[p].range) \cap Allocatable(n, cols) : ~AddressTaken(cols.cluster, a)}

\* _first_available: the lowest free address of the pool, or no_available_address.
CheckAutoAllocate(t) ==
    /\ Locked(t, "autoAllocate")
    /\ LET j == job[t]
           free == FreeIn(j.pool, j.net, j.seen)
       IN  /\ j.seen.status = "ACTIVE" /\ j.seen.auto
           /\ j.pool \in LivePools(j.net) /\ pools[j.pool].mode = "AUTO"
           /\ \E a \in free : /\ \A b \in free : a <= b
                              /\ Pass(t, [j EXCEPT !.addr = a])

\* The INSERT of stage_ip_address and auto_allocate_ip_address.
WriteAllocation(t) ==
    /\ pc[t] = "checked" /\ job[t].op \in {"createIp", "autoAllocate"}
    /\ \E i \in Ips :
          LET j == job[t]
          IN  /\ ips[i].state = "absent"
              /\ IpFits(j.net, j.seen.cluster, j.addr)
              /\ PutIp(i, [state |-> "live", version |-> 1, net |-> j.net,
                           cluster |-> j.seen.cluster, addr |-> j.addr,
                           pool |-> j.pool])
    /\ End(t)

\* Mutant of DeleteIp: no trigger makes it wait for the lock holder.
DeleteIpNoWait(i) ==
    /\ ips[i].state = "live" /\ ips[i].version < MaxVersion
    /\ PutIp(i, [ips[i] EXCEPT !.state = "deleted", !.version = @ + 1])
    /\ UNCHANGED <<lock, pc, job>>

\* delete_ip_address: the triggers make its UPDATE wait for the lock holder.
DeleteIp(i) ==
    /\ ips[i].state = "live" /\ ips[i].version < MaxVersion
    /\ lock[ips[i].net] = None
    /\ PutIp(i, [ips[i] EXCEPT !.state = "deleted", !.version = @ + 1])
    /\ UNCHANGED <<lock, pc, job>>

ReadRestoreIp(t, i) ==
    /\ ips[i].state = "deleted" /\ ips[i].version < MaxVersion
    /\ Begin(t, [op |-> "restoreIp", net |-> ips[i].net, ip |-> i,
                 ver |-> ips[i].version])

\* Mutant of CheckRestoreIp: the network's own deletion is not looked at.
CheckRestoreIpDeletedNetwork(t) ==
    /\ Locked(t, "restoreIp")
    /\ LET i == job[t].ip
           n == job[t].net
       IN  /\ ~AddressTaken(ips[i].cluster, ips[i].addr)
           /\ networks[n].cluster = ips[i].cluster
           /\ ips[i].addr \in Allocatable(n, Columns(n))
    /\ Pass(t, job[t])

\* Unlike an allocation, a restore loads the networks row after the lock.
CheckRestoreIp(t) ==
    /\ Locked(t, "restoreIp")
    /\ LET i == job[t].ip
           n == job[t].net
       IN  /\ ~AddressTaken(ips[i].cluster, ips[i].addr)
           /\ LiveNet(n) /\ networks[n].cluster = ips[i].cluster
           /\ ips[i].addr \in Allocatable(n, Columns(n))
    /\ Pass(t, job[t])

WriteRestoreIp(t) ==
    /\ Checked(t, "restoreIp")
    /\ LET i == job[t].ip
       IN  /\ ips[i].state = "deleted" /\ ips[i].version = job[t].ver
           /\ IpFits(job[t].net, ips[i].cluster, ips[i].addr)
           /\ PutIp(i, [ips[i] EXCEPT !.state = "live", !.version = @ + 1])
    /\ End(t)

-----------------------------------------------------------------------------
NetworkStep(t) ==
    \/ \E n \in Nets, ch \in NetworkChanges : ReadUpdateNetwork(t, n, ch)
    \/ CheckUpdateNetwork(t) \/ WriteUpdateNetwork(t)
    \/ \E n \in Nets : ReadDeleteNetwork(t, n)
    \/ CheckDeleteNetwork(t) \/ WriteDeleteNetwork(t)

PoolStep(t) ==
    \/ \E n \in Nets, in \in PoolInputs : ReadCreatePool(t, n, in)
    \/ CheckCreatePool(t) \/ WriteCreatePool(t)
    \/ \E p \in Pools, ch \in PoolChanges : ReadUpdatePool(t, p, ch)
    \/ CheckUpdatePool(t) \/ WriteUpdatePool(t)
    \/ \E p \in Pools : ReadRestorePool(t, p)
    \/ CheckRestorePool(t) \/ WriteRestorePool(t)

IpStep(t) ==
    \/ \E n \in Nets, a \in Addr : ReadCreateIp(t, n, a)
    \/ CheckCreateIp(t)
    \/ \E n \in Nets, p \in Pools : ReadAutoAllocate(t, n, p)
    \/ CheckAutoAllocate(t) \/ WriteAllocation(t)
    \/ \E i \in Ips : ReadRestoreIp(t, i)
    \/ CheckRestoreIp(t) \/ WriteRestoreIp(t)

\* The handlers that take no lock.
UnlockedStep ==
    \/ \E n \in Nets, in \in NetworkInputs : CreateNetwork(n, in)
    \/ \E n \in Nets, ch \in NetworkChanges : SwitchNetwork(n, ch)
    \/ \E n \in Nets : RestoreNetwork(n)
    \/ \E p \in Pools : DeletePool(p)
    \/ \E i \in Ips : DeleteIp(i)

Next == \/ UnlockedStep
        \/ \E t \in Tx : \/ Acquire(t) \/ Abort(t)
                         \/ NetworkStep(t) \/ PoolStep(t) \/ IpStep(t)

Spec == Init /\ [][Next]_vars

-----------------------------------------------------------------------------
\* A request names a version that its own write can still increment.
Version == 0..(MaxVersion - 1)
Job == {NoJob}
  \cup [op : {"createIp", "autoAllocate"}, net : Nets, addr : Addr \cup {None},
        pool : Pools \cup {None}, seen : NetColumns]
  \cup [op : {"createPool"}, net : Nets, input : PoolColumns, seen : NetColumns]
  \cup [op : {"updatePool"}, net : Nets, pool : Pools, ver : Version, change : PoolChange]
  \cup [op : {"restorePool"}, net : Nets, pool : Pools, ver : Version]
  \cup [op : {"restoreIp"}, net : Nets, ip : Ips, ver : Version]
  \cup [op : {"updateNetwork"}, net : Nets, ver : Version, change : NetChange]
  \cup [op : {"deleteNetwork"}, net : Nets, ver : Version]

\* Every table, the lock and every request in flight has its shape.
TypeOK == /\ networks \in [Nets -> NetRow]
          /\ pools \in [Pools -> PoolRow]
          /\ ips \in [Ips -> IpRow]
          /\ lock \in [Nets -> Tx \cup {None}]
          /\ pc \in [Tx -> {"idle", "waiting", "locked", "checked"}]
          /\ job \in [Tx -> Job]

\* An undeleted address carries its network's Cluster and lies in the usable
\* part of its CIDR, and an undeleted pool lies in its network's CIDR, however
\* allocations interleave with a change of the network's cidr or cluster.
LocationConsistent ==
    /\ \A i \in Ips : ips[i].state = "live"
          => /\ ips[i].cluster = networks[ips[i].net].cluster
             /\ ips[i].addr \in Usable(networks[ips[i].net].cidr) \ Disabled
    /\ \A p \in Pools : pools[p].state = "live"
          => PoolFits(pools[p].net, pools[p].range)

\* No undeleted address lies in an undeleted RESERVED pool of its network:
\* allocations and restores race with the creation, growth, mode change and
\* restore of pools, and only the networks row lock keeps them apart.
ReservedFree ==
    \A i \in Ips : ips[i].state = "live" => ips[i].addr \notin Reserved(ips[i].net)

-----------------------------------------------------------------------------
(* What the row lock guarantees: the inductive invariant behind the two     *)
(* invariants above, proved in IpamProofs.                                  *)

\* A row that was ever written belongs to a network that was ever written.
NetworksExist ==
    /\ \A p \in Pools : pools[p].state # "absent"
                          => networks[pools[p].net].state # "absent"
    /\ \A i \in Ips : ips[i].state # "absent" => networks[ips[i].net].state # "absent"

\* What a request in flight has loaded is still its pool's or address's network.
JobLocated(j) ==
    /\ networks[j.net].state # "absent"
    /\ j.op \in {"updatePool", "restorePool"}
          => pools[j.pool].state # "absent" /\ pools[j.pool].net = j.net
    /\ j.op = "restoreIp" => ips[j.ip].state # "absent" /\ ips[j.ip].net = j.net

InFlight == \A t \in Tx : pc[t] # "idle" => job[t].op # "none" /\ JobLocated(job[t])

LockHeld == \A t \in Tx : pc[t] \in {"locked", "checked"} => lock[job[t].net] = t

\* No undeleted address of the network itself lies in the range.
Vacant(n, r) == \A i \in LiveIps(n) : ips[i].addr \notin Block(r)

\* What a request established under the lock still holds when it writes.
StillHolds(j) ==
    /\ j.op \in {"createIp", "autoAllocate"} => j.addr \notin Reserved(j.net)
    /\ j.op = "restoreIp" => /\ LiveNet(j.net)
                             /\ ips[j.ip].addr \in Allocatable(j.net, Columns(j.net))
    /\ j.op = "createPool" /\ j.input.mode = "RESERVED" => Vacant(j.net, j.input.range)
    /\ /\ j.op = "updatePool"
       /\ pools[j.pool].state = "live"
       /\ New(j.change.mode, pools[j.pool].mode) = "RESERVED"
       => Vacant(j.net, New(j.change.range, pools[j.pool].range))
    /\ j.op = "restorePool"
       => /\ LiveNet(j.net)
          /\ pools[j.pool].mode = "RESERVED" => Vacant(j.net, pools[j.pool].range)
    /\ j.op = "updateNetwork"
       => /\ MovesNetwork(j.change) => ~InUse(j.net)
          /\ j.change.gateway # Same
             => \A i \in LiveIps(j.net) : ips[i].addr # j.change.gateway
    /\ j.op = "deleteNetwork" => ~InUse(j.net)

ChecksStillHold == \A t \in Tx : pc[t] = "checked" => StillHolds(job[t])

\* Between its queries and its commit, nothing a locking request has checked
\* is undone by another request: the lock, with the triggers that make every
\* write of a child row wait for it, closes the time-of-check gap.
LockDiscipline == /\ NetworksExist /\ InFlight /\ LockHeld /\ ChecksStillHold

-----------------------------------------------------------------------------
Created(i) == ips[i].state = "absent" /\ ips'[i].state = "live"
Restored(row, new) == row.state = "deleted" /\ new.state = "live"

\* At the moment a restore commits, the network is undeleted and the address is
\* in its allocatable set as it is then, not as it was when the request began.
RestoresAllocatable ==
    /\ \A i \in Ips : Restored(ips[i], ips'[i])
          => /\ LiveNet(ips[i].net)
             /\ ips[i].addr \in Allocatable(ips[i].net, Columns(ips[i].net))
    /\ \A p \in Pools : Restored(pools[p], pools'[p]) => LiveNet(pools[p].net)
RestoreIntoCurrentNetwork == [][RestoresAllocatable]_vars

\* A gateway change that commits never lands on an undeleted address of the
\* network (the half of the rule that update_network itself upholds).
MovesGatewayAside ==
    \A n \in Nets : LiveNet(n) /\ networks'[n].gateway # networks[n].gateway
       => \A i \in LiveIps(n) : ips[i].addr # networks'[n].gateway
GatewayChangeAvoidsAddresses == [][MovesGatewayAside]_vars

\* delete_network commits only when the network has no undeleted pool or
\* address: nothing slips in between its reference query and its UPDATE.
DeletesEmpty == \A n \in Nets : LiveNet(n) /\ networks'[n].state = "deleted" => ~InUse(n)
DeletedOnlyWhenEmpty == [][DeletesEmpty]_vars

\* A new address records the undeleted pool it lies in when it commits.
SourcePoolRecorded ==
    [][\A i \in Ips : Created(i)
          => ips'[i].pool = DerivedPool(ips'[i].net, ips'[i].addr)]_vars

\* An automatic allocation commits the lowest address of its pool that is free
\* at that moment; only the gateway may be the one read before the lock.
LowestFreeAddress ==
    [][\A i \in Ips, t \in Tx :
          Created(i) /\ pc'[t] # pc[t] /\ job[t].op = "autoAllocate"
             => \A b \in FreeIn(job[t].pool, job[t].net, job[t].seen) :
                   ips'[i].addr <= b]_vars

-----------------------------------------------------------------------------
(* The abstract ledger this module implements.                             *)

Leases == [i \in Ips |-> IF ips[i].state = "live"
                         THEN [net |-> ips[i].net, addr |-> ips[i].addr]
                         ELSE None]
ReservedSets == [n \in Nets |-> Reserved(n)]

Ledger == INSTANCE AllocationLedger WITH leases <- Leases, reserved <- ReservedSets

\* Each commit of the tables is at most one atomic grant, release or change of
\* reserved addresses of the ledger.
LedgerSpec == Ledger!Spec

-----------------------------------------------------------------------------
(* What the documents promise and the code does not keep (README, findings) *)

\* network.py: a network with undeleted children is not deleted, because child
\* creation takes the same lock.
NoOrphanAddress == \A i \in Ips : ips[i].state = "live" => LiveNet(ips[i].net)
=============================================================================
