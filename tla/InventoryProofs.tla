--------------------------- MODULE InventoryProofs ---------------------------
(* Proofs about Inventory: typing, the interface forest, and the reference *)
(* integrity that the row locks give to the locking handlers.              *)
EXTENDS Inventory, TLAPS

-----------------------------------------------------------------------------
(* Typing.                                                                 *)

LEMMA JobFields ==
    ASSUME NEW j \in Job
    PROVE  /\ j.op # "none" => j.ver \in Version
           /\ j.op = "deleteCluster" => j.row \in Clusters /\ j.locks = None
           /\ j.op = "createHost" => j.row \in BareMetal /\ j.locks = None
           /\ j.op = "restoreResource" => j.row \in Resources /\ j.locks = None
           /\ j.op \in HostOps
              => j.row \in VirtualMachines /\ j.ref \in Resources /\ j.locks \in Resources
           /\ j.op = "deleteResource" => j.row \in Resources /\ j.locks \in Resources
           /\ j.op \in ParentOps
              => j.row \in Interfaces /\ j.ref \in Interfaces \cup {None}
                 /\ j.locks \in Resources
           /\ j.op = "deleteInterface" => j.row \in Interfaces /\ j.locks \in Resources
           /\ j.op = "restoreInterface" => j.row \in Interfaces /\ j.locks = None
           /\ j.locks \in Resources \cup {None}
  BY InventoryOK DEF Job, NoJob, HostOps, ParentOps

LEMMA VersionRange == Version \subseteq 0..MaxVersion /\ 0 \in Version
                      /\ \A v \in Version : v + 1 \in 0..MaxVersion
  BY InventoryOK DEF Version

\* A row whose version some request can still move on stays a row.
LEMMA BumpTyped ==
    ASSUME NEW s \in State
    PROVE  /\ \A row \in ClusterRow : row.version \in Version => Bump(row, s) \in ClusterRow
           /\ \A row \in ResourceRow : row.version \in Version => Bump(row, s) \in ResourceRow
           /\ \A row \in InterfaceRow : row.version \in Version => Bump(row, s) \in InterfaceRow
  <1>1. ASSUME NEW row \in ClusterRow, row.version \in Version
        PROVE  Bump(row, s) \in ClusterRow
    BY <1>1, VersionRange DEF Bump, ClusterRow
  <1>2. ASSUME NEW row \in ResourceRow, row.version \in Version
        PROVE  Bump(row, s) \in ResourceRow
    BY <1>2, VersionRange DEF Bump, ResourceRow
  <1>3. ASSUME NEW row \in InterfaceRow, row.version \in Version
        PROVE  Bump(row, s) \in InterfaceRow
    BY <1>3, VersionRange DEF Bump, InterfaceRow
  <1> QED BY <1>1, <1>2, <1>3

LEMMA WritableVersion ==
    /\ \A row \in ClusterRow, s \in State : Writable(row, s) => row.version \in Version
    /\ \A row \in ResourceRow, s \in State : Writable(row, s) => row.version \in Version
    /\ \A row \in InterfaceRow, s \in State : Writable(row, s) => row.version \in Version
  BY InventoryOK DEF Writable, Version, ClusterRow, ResourceRow, InterfaceRow

LEMMA EndTyped ==
    ASSUME TypeOK, NEW t \in Tx, End(t)
    PROVE  /\ lock' \in [Resources -> Tx \cup {None}]
           /\ pc' \in [Tx -> {"idle", "waiting", "locked", "checked"}]
           /\ job' \in [Tx -> Job]
  BY DEF TypeOK, End, Job

LEMMA JobTyped ==
    ASSUME TypeOK, NEW t \in Tx, NEW j \in Job, UNCHANGED <<tables, lock>>,
           job' = [job EXCEPT ![t] = j],
           NEW p \in {"waiting", "checked"}, pc' = [pc EXCEPT ![t] = p]
    PROVE  TypeOK'
  BY DEF TypeOK, tables

LEMMA PutResourceTyped ==
    ASSUME TypeOK, NEW t \in Tx, NEW r, NEW row \in ResourceRow, PutResource(r, row), End(t)
    PROVE  TypeOK'
  BY EndTyped DEF TypeOK, PutResource

LEMMA PutInterfaceTyped ==
    ASSUME TypeOK, NEW t \in Tx, NEW f, NEW row \in InterfaceRow, PutInterface(f, row), End(t)
    PROVE  TypeOK'
  BY EndTyped DEF TypeOK, PutInterface

LEMMA InitTyped == Init => TypeOK
  BY InventoryOK DEF Init, TypeOK, ClusterRow, ResourceRow, InterfaceRow, State, Job

LEMMA PassTyped == ASSUME TypeOK, NEW t \in Tx, Pass(t) PROVE TypeOK'
  BY DEF TypeOK, Pass, tables

LEMMA ClusterStepTyped ==
    ASSUME TypeOK, NEW t \in Tx, ClusterStep(t) PROVE TypeOK'
  <1>1. CASE \E c \in Clusters : CheckDeleteCluster(t, c)
    <2>1. PICK c \in Clusters : CheckDeleteCluster(t, c)
      BY <1>1
    <2>2. clusters[c].version \in Version
      BY <2>1, WritableVersion DEF CheckDeleteCluster, TypeOK, State
    <2>3. [op |-> "deleteCluster", row |-> c, locks |-> None, ref |-> None,
           ver |-> clusters[c].version] \in Job
      BY <2>2 DEF Job
    <2> QED BY <2>1, <2>3, JobTyped DEF CheckDeleteCluster, PassUnlocked
  <1>2. CASE WriteDeleteCluster(t)
    <2>1. job[t].row \in Clusters /\ job[t].ver \in Version
      BY <1>2, JobFields DEF WriteDeleteCluster, Checked, TypeOK
    <2>2. Bump(clusters[job[t].row], "deleted") \in ClusterRow
      BY <1>2, <2>1, BumpTyped DEF WriteDeleteCluster, Unmoved, TypeOK, State
    <2> QED BY <1>2, <2>1, <2>2, EndTyped DEF WriteDeleteCluster, PutCluster, TypeOK
  <1> QED BY <1>1, <1>2 DEF ClusterStep

LEMMA ResourceStepTyped ==
    ASSUME TypeOK, NEW t \in Tx, ResourceStep(t) PROVE TypeOK'
  <1>1. ASSUME NEW r \in Resources, CheckCreateHost(t, r) PROVE TypeOK'
    <2>1. [op |-> "createHost", row |-> r, locks |-> None, ref |-> None, ver |-> 0] \in Job
      BY <1>1, VersionRange DEF CheckCreateHost, Job
    <2> QED BY <1>1, <2>1, JobTyped DEF CheckCreateHost, PassUnlocked
  <1>2. ASSUME NEW r \in Resources, ReadDeleteResource(t, r) PROVE TypeOK'
    <2>1. resources[r].version \in Version
      BY <1>2, WritableVersion DEF ReadDeleteResource, TypeOK, State
    <2>2. [op |-> "deleteResource", row |-> r, locks |-> r, ref |-> None,
           ver |-> resources[r].version] \in Job
      BY <2>1 DEF Job
    <2> QED BY <1>2, <2>2, JobTyped DEF ReadDeleteResource, Ask
  <1>3. ASSUME NEW v \in Resources, NEW h \in Resources, ReadCreateVm(t, v, h) PROVE TypeOK'
    <2>1. [op |-> "createVm", row |-> v, locks |-> h, ref |-> h, ver |-> 0] \in Job
      BY <1>3, VersionRange DEF ReadCreateVm, Job, HostOps
    <2> QED BY <1>3, <2>1, JobTyped DEF ReadCreateVm, Ask
  <1>4. ASSUME NEW v \in Resources, NEW h \in Resources, ReadRehost(t, v, h) PROVE TypeOK'
    <2>1. resources[v].version \in Version
      BY <1>4, WritableVersion DEF ReadRehost, TypeOK, State
    <2>2. [op |-> "rehost", row |-> v, locks |-> h, ref |-> h,
           ver |-> resources[v].version] \in Job
      BY <1>4, <2>1 DEF ReadRehost, Job, HostOps
    <2> QED BY <1>4, <2>2, JobTyped DEF ReadRehost, Ask
  <1>5. CASE CheckHost(t) \/ CheckDeleteResource(t)
    BY <1>5, PassTyped DEF CheckHost, CheckDeleteResource
  <1>6. ASSUME WriteCreateHost(t) \/ WriteCreateVm(t) \/ WriteRehost(t) \/ WriteDeleteResource(t)
        PROVE  TypeOK'
    <2>1. job[t].row \in Resources /\ job[t].ver \in Version
      BY <1>6, InventoryOK, JobFields DEF WriteCreateHost, WriteCreateVm, WriteRehost, WriteDeleteResource,
                             Checked, TypeOK, VirtualMachines, HostOps
    <2>2. resources[job[t].row] \in ResourceRow /\ resources[job[t].row].version \in Version
      BY <1>6, <2>1 DEF WriteCreateHost, WriteCreateVm, WriteRehost, WriteDeleteResource,
                        Unmoved, TypeOK
    <2>3. \A s \in State : Bump(resources[job[t].row], s) \in ResourceRow
      BY <2>2, BumpTyped
    <2>4. WriteCreateVm(t) \/ WriteRehost(t)
             => [Bump(resources[job[t].row], "live") EXCEPT !.host = job[t].ref] \in ResourceRow
      BY <2>3, JobFields DEF WriteCreateVm, WriteRehost, Checked, TypeOK, HostOps, State,
                             ResourceRow
    <2> QED BY <1>6, <2>3, <2>4, PutResourceTyped
            DEF WriteCreateHost, WriteCreateVm, WriteRehost, WriteDeleteResource, State
  <1> QED BY <1>1, <1>2, <1>3, <1>4, <1>5, <1>6 DEF ResourceStep

LEMMA InterfaceStepTyped ==
    ASSUME TypeOK, NEW t \in Tx, InterfaceStep(t) PROVE TypeOK'
  <1>1. ASSUME NEW f \in Interfaces, NEW p \in Interfaces \cup {None},
               ReadCreateInterface(t, f, p)
        PROVE  TypeOK'
    <2>1. [op |-> "createInterface", row |-> f, locks |-> Owner[f], ref |-> p, ver |-> 0] \in Job
      BY InventoryOK, VersionRange DEF Job, ParentOps
    <2> QED BY <1>1, <2>1, JobTyped DEF ReadCreateInterface, Ask
  <1>2. ASSUME NEW f \in Interfaces, NEW p \in Interfaces \cup {None},
               ReadMoveInterface(t, f, p)
        PROVE  TypeOK'
    <2>1. interfaces[f].version \in Version
      BY <1>2, WritableVersion DEF ReadMoveInterface, TypeOK, State
    <2>2. [op |-> "moveInterface", row |-> f, locks |-> Owner[f], ref |-> p,
           ver |-> interfaces[f].version] \in Job
      BY InventoryOK, <2>1 DEF Job, ParentOps
    <2> QED BY <1>2, <2>2, JobTyped DEF ReadMoveInterface, Ask
  <1>3. ASSUME NEW f \in Interfaces, ReadDeleteInterface(t, f) PROVE TypeOK'
    <2>1. interfaces[f].version \in Version
      BY <1>3, WritableVersion DEF ReadDeleteInterface, TypeOK, State
    <2>2. [op |-> "deleteInterface", row |-> f, locks |-> Owner[f], ref |-> None,
           ver |-> interfaces[f].version] \in Job
      BY InventoryOK, <2>1 DEF Job
    <2> QED BY <1>3, <2>2, JobTyped DEF ReadDeleteInterface, Ask
  <1>4. CASE CheckParent(t) \/ CheckDeleteInterface(t)
    BY <1>4, PassTyped DEF CheckParent, CheckDeleteInterface
  <1>5. ASSUME WriteCreateInterface(t) \/ WriteMoveInterface(t) \/ WriteDeleteInterface(t)
        PROVE  TypeOK'
    <2>1. job[t].row \in Interfaces /\ job[t].ver \in Version
      BY <1>5, JobFields DEF WriteCreateInterface, WriteMoveInterface, WriteDeleteInterface,
                             Checked, TypeOK, ParentOps
    <2>2. interfaces[job[t].row] \in InterfaceRow /\ interfaces[job[t].row].version \in Version
      BY <1>5, <2>1 DEF WriteCreateInterface, WriteMoveInterface, WriteDeleteInterface,
                        Unmoved, TypeOK
    <2>3. \A s \in State : Bump(interfaces[job[t].row], s) \in InterfaceRow
      BY <2>2, BumpTyped
    <2>4. WriteCreateInterface(t) \/ WriteMoveInterface(t)
             => [Bump(interfaces[job[t].row], "live") EXCEPT !.parent = job[t].ref]
                   \in InterfaceRow
      BY <2>3, JobFields DEF WriteCreateInterface, WriteMoveInterface, Checked, TypeOK,
                             ParentOps, State, InterfaceRow
    <2> QED BY <1>5, <2>3, <2>4, PutInterfaceTyped
            DEF WriteCreateInterface, WriteMoveInterface, WriteDeleteInterface, State
  <1> QED BY <1>1, <1>2, <1>3, <1>4, <1>5 DEF InterfaceStep

LEMMA RestoreStepTyped ==
    ASSUME TypeOK, NEW t \in Tx, RestoreStep(t) PROVE TypeOK'
  <1>1. ASSUME NEW r \in Resources, CheckRestoreResource(t, r) PROVE TypeOK'
    <2>1. resources[r].version \in Version
      BY <1>1, WritableVersion DEF CheckRestoreResource, TypeOK, State
    <2>2. [op |-> "restoreResource", row |-> r, locks |-> None, ref |-> None,
           ver |-> resources[r].version] \in Job
      BY <2>1 DEF Job
    <2> QED BY <1>1, <2>2, JobTyped DEF CheckRestoreResource, PassUnlocked
  <1>2. ASSUME NEW f \in Interfaces, CheckRestoreInterface(t, f) PROVE TypeOK'
    <2>1. interfaces[f].version \in Version
      BY <1>2, WritableVersion DEF CheckRestoreInterface, TypeOK, State
    <2>2. [op |-> "restoreInterface", row |-> f, locks |-> None, ref |-> None,
           ver |-> interfaces[f].version] \in Job
      BY <2>1 DEF Job
    <2> QED BY <1>2, <2>2, JobTyped DEF CheckRestoreInterface, PassUnlocked
  <1>3. CASE WriteRestoreResource(t)
    <2>1. job[t].row \in Resources /\ job[t].ver \in Version
      BY <1>3, JobFields DEF WriteRestoreResource, Checked, TypeOK
    <2>2. Bump(resources[job[t].row], "live") \in ResourceRow
      BY <1>3, <2>1, BumpTyped DEF WriteRestoreResource, Unmoved, TypeOK, State
    <2> QED BY <1>3, <2>2, PutResourceTyped DEF WriteRestoreResource
  <1>4. CASE WriteRestoreInterface(t)
    <2>1. job[t].row \in Interfaces /\ job[t].ver \in Version
      BY <1>4, JobFields DEF WriteRestoreInterface, Checked, TypeOK
    <2>2. Bump(interfaces[job[t].row], "live") \in InterfaceRow
      BY <1>4, <2>1, BumpTyped DEF WriteRestoreInterface, Unmoved, TypeOK, State
    <2> QED BY <1>4, <2>2, PutInterfaceTyped DEF WriteRestoreInterface
  <1> QED BY <1>1, <1>2, <1>3, <1>4 DEF RestoreStep

LEMMA NextTyped == TypeOK /\ [Next]_vars => TypeOK'
  <1> SUFFICES ASSUME TypeOK, [Next]_vars PROVE TypeOK'
    OBVIOUS
  <1>1. CASE \E c \in Clusters : CreateCluster(c) \/ RestoreCluster(c)
    <2>1. PICK c \in Clusters : CreateCluster(c) \/ RestoreCluster(c)
      BY <1>1
    <2>2. CASE CreateCluster(c)
      <3>1. Bump(clusters[c], "live") \in ClusterRow
        BY <2>2, BumpTyped, WritableVersion DEF CreateCluster, TypeOK, State
      <3> QED BY <2>2, <3>1 DEF CreateCluster, PutCluster, TypeOK
    <2>3. CASE RestoreCluster(c)
      <3>1. Bump(clusters[c], "live") \in ClusterRow
        BY <2>3, BumpTyped, WritableVersion DEF RestoreCluster, TypeOK, State
      <3> QED BY <2>3, <3>1 DEF RestoreCluster, PutCluster, TypeOK
    <2> QED BY <2>1, <2>2, <2>3
  <1>2. ASSUME NEW t \in Tx, Acquire(t) PROVE TypeOK'
    BY <1>2 DEF Acquire, TypeOK, tables
  <1>3. ASSUME NEW t \in Tx, Abort(t) PROVE TypeOK'
    BY <1>3, EndTyped DEF Abort, TypeOK, tables
  <1>4. CASE UNCHANGED vars
    BY <1>4 DEF TypeOK, vars
  <1> QED BY <1>1, <1>2, <1>3, <1>4, ClusterStepTyped, ResourceStepTyped, InterfaceStepTyped,
             RestoreStepTyped DEF Next, LockingNext

\* Tables, the row locks and every request in flight keep their shape.
THEOREM Typing == Spec => []TypeOK
  <1> QED BY InitTyped, NextTyped, PTL DEF Spec

-----------------------------------------------------------------------------
(* What one request does to the others.                                    *)

\* The part of LocksHeld that is about one request.
HeldBy(t) ==
    /\ pc[t] # "idle" => LocksRightRow(job[t])
    /\ pc[t] \in {"waiting", "locked"} => job[t].locks # None
    /\ pc[t] \in {"locked", "checked"} /\ job[t].locks # None => lock[job[t].locks] = t

\* A step of t leaves the phase, the job and the locks of the others alone.
Aside(t) == \A u \in Tx \ {t} : /\ pc'[u] = pc[u] /\ job'[u] = job[u]
                                /\ \A r \in Resources : lock[r] = u => lock'[r] = u

\* A step of t takes away no live row, and moves no interface, whose Resource's
\* lock t does not hold.
Gentle(t) ==
    /\ \A r \in Resources : Live(resources[r]) /\ lock[r] # t => Live(resources'[r])
    /\ \A f \in Interfaces : lock[Owner[f]] # t
          => /\ Live(interfaces[f]) => Live(interfaces'[f])
             /\ interfaces'[f].parent = interfaces[f].parent

LEMMA EndAside == ASSUME TypeOK, NEW t \in Tx, End(t) PROVE Aside(t) /\ pc'[t] = "idle"
  BY DEF TypeOK, End, Aside

\* A walk that misses f still misses it when only other Resources' trees move.
LEMMA ReachesKept ==
    ASSUME TypeOK, WellPlaced, NEW f \in Interfaces, NEW p \in Interfaces,
           Owner[p] = Owner[f], ~Reaches(p, f),
           \A g \in Interfaces : Owner[g] = Owner[f]
              => interfaces'[g].parent = interfaces[g].parent
    PROVE  ~Reaches(p, f)'
  <1>1. PICK S \in SUBSET Interfaces : p \in S /\ UpClosed(S) /\ f \notin S
    BY DEF Reaches
  <1> DEFINE T == {g \in S : Owner[g] = Owner[f]}
  <1>2. T \in SUBSET Interfaces /\ p \in T /\ f \notin T
    BY <1>1
  <1>3. UpClosed(T)'
    BY <1>1 DEF UpClosed, WellPlaced
  <1> QED BY <1>2, <1>3 DEF Reaches

\* What another request has checked about its host, owner and parent survives.
LEMMA RefKept ==
    ASSUME TypeOK, WellPlaced, NEW t \in Tx, NEW u \in Tx \ {t}, Gentle(t),
           pc[u] = "checked", HeldBy(u), RefHolds(job[u]), job'[u] = job[u]
    PROVE  RefHolds(job[u])'
  <1> DEFINE j == job[u]
  <1>0. j \in Job
    BY DEF TypeOK
  <1>1. j.op \in HostOps => ValidHost(j.row, j.ref)'
    <2> SUFFICES ASSUME j.op \in HostOps PROVE ValidHost(j.row, j.ref)'
      BY DEF HostOps
    <2>1. j.ref \in Resources /\ lock[j.ref] = u
      BY <1>0, JobFields, InventoryOK DEF HeldBy, LocksRightRow, HostOps
    <2> QED BY <2>1 DEF RefHolds, ValidHost, Gentle, Live, HostOps
  <1>2. ASSUME j.op \in ParentOps PROVE Live(resources[Owner[j.row]])' /\ ValidParent(j.row, j.ref)'
    <2>1. j.row \in Interfaces /\ Owner[j.row] \in Resources /\ lock[Owner[j.row]] = u
      BY <1>0, <1>2, JobFields, InventoryOK DEF HeldBy, LocksRightRow, ParentOps
    <2>2. Live(resources[Owner[j.row]])'
      BY <1>2, <2>1 DEF RefHolds, Gentle, Live
    <2>3. ASSUME j.ref # None PROVE ValidParent(j.row, j.ref)'
      <3>1. /\ j.ref \in Interfaces /\ Owner[j.ref] = Owner[j.row]
            /\ Live(interfaces[j.ref]) /\ ~Reaches(j.ref, j.row)
        BY <1>2, <2>3 DEF RefHolds, ValidParent
      <3>2. \A g \in Interfaces : Owner[g] = Owner[j.row]
               => interfaces'[g].parent = interfaces[g].parent
        BY <2>1 DEF Gentle
      <3>3. ~Reaches(j.ref, j.row)'
        BY <2>1, <3>1, <3>2, ReachesKept
      <3> QED BY <2>1, <3>1, <3>3 DEF ValidParent, Gentle, Live
    <2>4. ASSUME j.ref = None PROVE ValidParent(j.row, j.ref)'
      BY <2>4 DEF ValidParent
    <2> QED BY <2>2, <2>3, <2>4
  <1> QED BY <1>1, <1>2 DEF RefHolds

LEMMA ChecksKept ==
    ASSUME TypeOK, WellPlaced, ChecksHold, NEW t \in Tx, Gentle(t), Aside(t),
           HeldBy(t)', pc'[t] = "checked" => RefHolds(job[t])'
    PROVE  ChecksHold'
  <1>1. ASSUME NEW u \in Tx \ {t}
        PROVE  HeldBy(u)' /\ (pc'[u] = "checked" => RefHolds(job[u])')
    <2>1. HeldBy(u) /\ (pc[u] = "checked" => RefHolds(job[u]))
      BY DEF ChecksHold, LocksHeld, HeldBy
    <2>2. job[u].locks \in Resources \cup {None}
      BY JobFields DEF TypeOK
    <2>3. HeldBy(u)'
      BY <2>1, <2>2 DEF HeldBy, Aside, LocksRightRow, HostOps, ParentOps
    <2>4. pc'[u] = "checked" => RefHolds(job[u])'
      BY <2>1, RefKept DEF Aside
    <2> QED BY <2>3, <2>4
  <1>2. \A u \in Tx : HeldBy(u)' /\ (pc'[u] = "checked" => RefHolds(job[u])')
    BY <1>1
  <1> QED BY <1>2 DEF ChecksHold, LocksHeld, HeldBy

-----------------------------------------------------------------------------
(* Shape: the checks of requests in flight, the placement of hosts and     *)
(* parents, and the forest hold each other up.  Acyclic needs ChecksHold   *)
(* for the walk of the move that commits, ChecksHold needs WellPlaced to   *)
(* keep the walks of one Resource apart from the moves in another, and     *)
(* WellPlaced needs ChecksHold for the host or parent that is stored.      *)

Shape == TypeOK /\ ChecksHold /\ WellPlaced /\ Acyclic

LEMMA TablesKept ==
    ASSUME Shape, UNCHANGED tables PROVE WellPlaced' /\ Acyclic' /\ \A t \in Tx : Gentle(t)
  BY DEF Shape, tables, WellPlaced, Acyclic, Gentle

\* A step that leaves the tables alone, by a request that holds what it must.
LEMMA QuietShape ==
    ASSUME Shape, TypeOK', NEW t \in Tx, UNCHANGED tables, Aside(t), HeldBy(t)',
           pc'[t] = "checked" => RefHolds(job[t])'
    PROVE  Shape'
  BY TablesKept, ChecksKept DEF Shape

\* Asking for a lock, starting without one, passing a check, giving up.
LEMMA AskShape ==
    ASSUME Shape, TypeOK', NEW t \in Tx, NEW op, NEW row, NEW r \in Resources, NEW ref, NEW ver,
           Ask(t, op, row, r, ref, ver),
           LocksRightRow([op |-> op, row |-> row, locks |-> r, ref |-> ref, ver |-> ver])
    PROVE  Shape'
  <1>1. Aside(t) /\ UNCHANGED tables /\ pc'[t] = "waiting"
        /\ job'[t] = [op |-> op, row |-> row, locks |-> r, ref |-> ref, ver |-> ver]
    BY DEF Ask, Aside, Shape, TypeOK
  <1>2. HeldBy(t)'
    BY <1>1, InventoryOK DEF HeldBy, LocksRightRow, HostOps, ParentOps
  <1> QED BY <1>1, <1>2, QuietShape

LEMMA PassUnlockedShape ==
    ASSUME Shape, TypeOK', NEW t \in Tx, NEW op, NEW row, NEW ver, PassUnlocked(t, op, row, ver),
           op \in {"deleteCluster", "createHost", "restoreResource", "restoreInterface"}
    PROVE  Shape'
  <1>1. Aside(t) /\ UNCHANGED tables /\ job'[t].op = op /\ job'[t].locks = None
        /\ pc'[t] = "checked"
    BY DEF PassUnlocked, Aside, Shape, TypeOK
  <1>2. HeldBy(t)'
    BY <1>1 DEF HeldBy, LocksRightRow, HostOps, ParentOps
  <1>3. RefHolds(job[t])'
    BY <1>1 DEF RefHolds, HostOps, ParentOps
  <1> QED BY <1>1, <1>2, <1>3, QuietShape

LEMMA PassShape ==
    ASSUME Shape, TypeOK', NEW t \in Tx, pc[t] = "locked", Pass(t), RefHolds(job[t])
    PROVE  Shape'
  <1>1. Aside(t) /\ UNCHANGED tables /\ job' = job /\ lock' = lock
    BY DEF Pass, Aside, Shape, TypeOK
  <1>2. HeldBy(t)
    BY DEF Shape, ChecksHold, LocksHeld, HeldBy
  <1>3. HeldBy(t)'
    BY <1>1, <1>2 DEF HeldBy, LocksRightRow, HostOps, ParentOps, Pass, Shape, TypeOK
  <1>4. RefHolds(job[t])'
    BY <1>1 DEF RefHolds, ValidHost, ValidParent, Reaches, UpClosed, tables
  <1> QED BY <1>1, <1>3, <1>4, QuietShape

LEMMA AcquireShape ==
    ASSUME Shape, TypeOK', NEW t \in Tx, Acquire(t) PROVE Shape'
  <1>1. UNCHANGED tables /\ pc'[t] = "locked" /\ job' = job
    BY DEF Acquire, Shape, TypeOK
  <1>2. Aside(t)
    BY InventoryOK DEF Acquire, Aside, Shape, TypeOK
  <1>3. HeldBy(t) /\ job[t].locks \in Resources
    BY JobFields DEF Acquire, Shape, ChecksHold, LocksHeld, HeldBy, TypeOK
  <1>4. HeldBy(t)'
    BY <1>1, <1>3 DEF Acquire, HeldBy, LocksRightRow, HostOps, ParentOps, Shape, TypeOK
  <1> QED BY <1>1, <1>2, <1>4, QuietShape

LEMMA AbortShape == ASSUME Shape, TypeOK', NEW t \in Tx, Abort(t) PROVE Shape'
  <1>1. Aside(t) /\ pc'[t] = "idle" /\ UNCHANGED tables
    BY EndAside DEF Abort, Shape
  <1>2. HeldBy(t)'
    BY <1>1 DEF HeldBy
  <1> QED BY <1>1, <1>2, QuietShape

\* A write that ends its request needs to be gentle, well placed and acyclic.
LEMMA CommitShape ==
    ASSUME Shape, TypeOK', NEW t \in Tx, End(t), Gentle(t), WellPlaced', Acyclic'
    PROVE  Shape'
  <1>1. Aside(t) /\ pc'[t] = "idle"
    BY EndAside DEF Shape
  <1>2. HeldBy(t)'
    BY <1>1 DEF HeldBy
  <1> QED BY <1>1, <1>2, ChecksKept DEF Shape

\* Hanging f below a p that is not below f closes no cycle.
LEMMA MoveAcyclic ==
    ASSUME TypeOK, Acyclic, NEW f \in Interfaces, NEW p \in Interfaces \cup {None},
           p # None => ~Reaches(p, f), interfaces'[f].parent = p,
           \A g \in Interfaces \ {f} : interfaces'[g].parent = interfaces[g].parent
    PROVE  Acyclic'
  <1> SUFFICES ASSUME NEW C \in SUBSET Interfaces, C # {}
               PROVE  \E g \in C : interfaces'[g].parent \notin C
    BY DEF Acyclic
  <1>1. CASE f \notin C
    BY <1>1 DEF Acyclic
  <1>2. CASE f \in C /\ p \notin C
    BY <1>2
  <1>3. CASE f \in C /\ p \in C
    <2>1. PICK S \in SUBSET Interfaces : p \in S /\ UpClosed(S) /\ f \notin S
      BY <1>3, InventoryOK DEF Reaches
    <2>2. C \cap S \in SUBSET Interfaces /\ C \cap S # {}
      BY <1>3, <2>1
    <2>3. PICK g \in C \cap S : interfaces[g].parent \notin C \cap S
      BY <2>2 DEF Acyclic
    <2>4. g # f /\ g \in Interfaces /\ interfaces[g].parent \notin C
      BY <2>1, <2>3, InventoryOK DEF UpClosed
    <2> QED BY <2>3, <2>4
  <1> QED BY <1>1, <1>2, <1>3

\* Writing a resources row: interfaces are not touched, so the forest stays.
LEMMA PutResourceShape ==
    ASSUME Shape, TypeOK', NEW t \in Tx, End(t), NEW r \in Resources, NEW row \in ResourceRow,
           PutResource(r, row), Live(resources[r]) /\ lock[r] # t => Live(row),
           r \in BareMetal => row.host = None,
           r \in VirtualMachines /\ row.state # "absent"
              => row.host \in BareMetal /\ ClusterOf[row.host] = ClusterOf[r]
    PROVE  Shape'
  <1>1. Gentle(t)
    BY DEF Gentle, PutResource, Shape, TypeOK
  <1>2. WellPlaced'
    <2>1. \A x \in Resources \ {r} : resources'[x] = resources[x]
      BY DEF PutResource, Shape, TypeOK
    <2>2. resources'[r] = row /\ interfaces' = interfaces
      BY DEF PutResource, Shape, TypeOK
    <2> QED BY <2>1, <2>2, InventoryOK DEF WellPlaced, Shape, VirtualMachines
  <1>3. Acyclic'
    BY DEF PutResource, Shape, Acyclic
  <1> QED BY <1>1, <1>2, <1>3, CommitShape

\* Writing an interfaces row, of a Resource whose lock t holds if it does more
\* than bring the interface back.
LEMMA PutInterfaceShape ==
    ASSUME Shape, TypeOK', NEW t \in Tx, End(t), NEW f \in Interfaces, NEW row \in InterfaceRow,
           PutInterface(f, row),
           \/ lock[Owner[f]] = t /\ ValidParent(f, row.parent)
           \/ row.parent = interfaces[f].parent /\ (lock[Owner[f]] = t \/ Live(row))
    PROVE  Shape'
  <1>1. /\ interfaces'[f] = row /\ resources' = resources
        /\ \A g \in Interfaces \ {f} : interfaces'[g] = interfaces[g]
    BY DEF PutInterface, Shape, TypeOK
  <1>2. Gentle(t)
    BY <1>1 DEF Gentle
  <1>3. WellPlaced'
    BY <1>1 DEF WellPlaced, Shape, ValidParent
  <1>4. Acyclic'
    <2>1. CASE row.parent = interfaces[f].parent
      BY <1>1, <2>1 DEF Shape, Acyclic
    <2>2. CASE ValidParent(f, row.parent)
      <3>1. row.parent \in Interfaces \cup {None}
            /\ (row.parent # None => ~Reaches(row.parent, f))
        BY <2>2 DEF ValidParent
      <3> QED BY <1>1, <3>1, MoveAcyclic DEF Shape
    <2> QED BY <2>1, <2>2
  <1> QED BY <1>2, <1>3, <1>4, CommitShape

LEMMA BumpFields ==
    ASSUME NEW row, NEW s, row \in ClusterRow \cup ResourceRow \cup InterfaceRow
    PROVE  /\ Bump(row, s).state = s
           /\ row \in ResourceRow => Bump(row, s).host = row.host
           /\ row \in InterfaceRow => Bump(row, s).parent = row.parent
  BY DEF Bump, ClusterRow, ResourceRow, InterfaceRow

LEMMA ClusterWriteShape ==
    ASSUME Shape, TypeOK', UNCHANGED <<resources, interfaces>>
    PROVE  WellPlaced' /\ Acyclic' /\ \A t \in Tx : Gentle(t)
  BY DEF Shape, WellPlaced, Acyclic, Gentle

\* What a request that is about to commit holds.
LEMMA AtCommit ==
    ASSUME Shape, NEW t \in Tx, pc[t] = "checked"
    PROVE  /\ job[t] \in Job /\ RefHolds(job[t])
           /\ job[t].op \in HostOps => lock[job[t].ref] = t
           /\ job[t].op = "deleteResource" => lock[job[t].row] = t
           /\ job[t].op \in ParentOps \cup {"deleteInterface"} => lock[Owner[job[t].row]] = t
  <1>1. job[t] \in Job /\ RefHolds(job[t]) /\ HeldBy(t)
    BY DEF Shape, TypeOK, ChecksHold, LocksHeld, HeldBy
  <1>2. job[t].op \in HostOps \cup ParentOps \cup {"deleteResource", "deleteInterface"}
           => job[t].locks # None
    BY <1>1, JobFields, InventoryOK
  <1> QED BY <1>1, <1>2 DEF HeldBy, LocksRightRow

LEMMA ResourceStepShape ==
    ASSUME Shape, TypeOK', NEW t \in Tx, ResourceStep(t) PROVE Shape'
  <1>1. ASSUME NEW r \in Resources, CheckCreateHost(t, r) PROVE Shape'
    BY <1>1, PassUnlockedShape DEF CheckCreateHost
  <1>2. ASSUME NEW r \in Resources, ReadDeleteResource(t, r) PROVE Shape'
    BY <1>2, AskShape DEF ReadDeleteResource, LocksRightRow, HostOps, ParentOps
  <1>3. ASSUME NEW v \in Resources, NEW h \in Resources, ReadCreateVm(t, v, h) PROVE Shape'
    BY <1>3, AskShape DEF ReadCreateVm, LocksRightRow, HostOps, ParentOps
  <1>4. ASSUME NEW v \in Resources, NEW h \in Resources, ReadRehost(t, v, h) PROVE Shape'
    BY <1>4, AskShape DEF ReadRehost, LocksRightRow, HostOps, ParentOps
  <1>5. CASE CheckHost(t)
    BY <1>5, PassShape DEF CheckHost, RefHolds, HostOps, ParentOps
  <1>6. CASE CheckDeleteResource(t)
    BY <1>6, PassShape DEF CheckDeleteResource, Locked, RefHolds, HostOps, ParentOps
  <1>7. CASE WriteCreateHost(t)
    <2> DEFINE r == job[t].row
               row == Bump(resources[r], "live")
    <2>1. r \in BareMetal /\ r \in Resources /\ job[t].ver \in Version
      BY <1>7, InventoryOK, JobFields DEF WriteCreateHost, Checked, Shape, TypeOK
    <2>2. row \in ResourceRow /\ row.state = "live" /\ row.host = None
      BY <1>7, <2>1, BumpTyped, BumpFields
         DEF WriteCreateHost, Unmoved, Shape, TypeOK, WellPlaced, State
    <2> QED BY <1>7, <2>1, <2>2, PutResourceShape DEF WriteCreateHost, VirtualMachines, Live
  <1>8. CASE WriteCreateVm(t) \/ WriteRehost(t)
    <2> DEFINE v == job[t].row
               row == [Bump(resources[v], "live") EXCEPT !.host = job[t].ref]
    <2>1. job[t].op \in HostOps /\ pc[t] = "checked" /\ End(t) /\ PutResource(v, row)
      BY <1>8 DEF WriteCreateVm, WriteRehost, Checked, HostOps
    <2>2. /\ v \in VirtualMachines /\ v \in Resources /\ job[t].ref \in Resources
          /\ job[t].ver \in Version
      BY <2>1, JobFields DEF Shape, TypeOK, VirtualMachines, HostOps
    <2>3. Bump(resources[v], "live") \in ResourceRow
      BY <1>8, <2>2, BumpTyped DEF WriteCreateVm, WriteRehost, Unmoved, Shape, TypeOK, State
    <2>4. row \in ResourceRow /\ row.host = job[t].ref /\ row.state = "live"
      BY <2>2, <2>3 DEF ResourceRow, Bump
    <2>5. ValidHost(v, job[t].ref)
      BY <2>1, AtCommit DEF RefHolds
    <2> QED BY <2>1, <2>2, <2>4, <2>5, PutResourceShape DEF ValidHost, VirtualMachines, Live
  <1>9. CASE WriteDeleteResource(t)
    <2> DEFINE r == job[t].row
               row == Bump(resources[r], "deleted")
    <2>1. r \in Resources /\ job[t].ver \in Version /\ resources[r] \in ResourceRow
      BY <1>9, JobFields DEF WriteDeleteResource, Checked, Shape, TypeOK
    <2>2. row \in ResourceRow /\ row.host = resources[r].host
      BY <1>9, <2>1, BumpTyped, BumpFields DEF WriteDeleteResource, Unmoved, State
    <2>3. lock[r] = t /\ resources[r].state = "live"
      BY <1>9, AtCommit DEF WriteDeleteResource, Checked, Unmoved
    <2> QED BY <1>9, <2>1, <2>2, <2>3, PutResourceShape
            DEF WriteDeleteResource, Shape, WellPlaced
  <1> QED BY <1>1, <1>2, <1>3, <1>4, <1>5, <1>6, <1>7, <1>8, <1>9 DEF ResourceStep

LEMMA InterfaceStepShape ==
    ASSUME Shape, TypeOK', NEW t \in Tx, InterfaceStep(t) PROVE Shape'
  <1>1. ASSUME NEW f \in Interfaces, NEW p \in Interfaces \cup {None},
               ReadCreateInterface(t, f, p) \/ ReadMoveInterface(t, f, p)
        PROVE  Shape'
    BY <1>1, AskShape, InventoryOK
       DEF ReadCreateInterface, ReadMoveInterface, LocksRightRow, HostOps, ParentOps
  <1>2. ASSUME NEW f \in Interfaces, ReadDeleteInterface(t, f) PROVE Shape'
    BY <1>2, AskShape, InventoryOK DEF ReadDeleteInterface, LocksRightRow, HostOps, ParentOps
  <1>3. CASE CheckParent(t)
    BY <1>3, PassShape DEF CheckParent, RefHolds, HostOps, ParentOps
  <1>4. CASE CheckDeleteInterface(t)
    BY <1>4, PassShape DEF CheckDeleteInterface, Locked, RefHolds, HostOps, ParentOps
  <1>5. CASE WriteCreateInterface(t) \/ WriteMoveInterface(t)
    <2> DEFINE f == job[t].row
               row == [Bump(interfaces[f], "live") EXCEPT !.parent = job[t].ref]
    <2>1. job[t].op \in ParentOps /\ pc[t] = "checked" /\ End(t) /\ PutInterface(f, row)
      BY <1>5 DEF WriteCreateInterface, WriteMoveInterface, Checked, ParentOps
    <2>2. f \in Interfaces /\ job[t].ref \in Interfaces \cup {None} /\ job[t].ver \in Version
      BY <2>1, JobFields DEF Shape, TypeOK, ParentOps
    <2>3. Bump(interfaces[f], "live") \in InterfaceRow
      BY <1>5, <2>2, BumpTyped
         DEF WriteCreateInterface, WriteMoveInterface, Unmoved, Shape, TypeOK, State
    <2>4. row \in InterfaceRow /\ row.parent = job[t].ref
      BY <2>2, <2>3 DEF InterfaceRow
    <2>5. lock[Owner[f]] = t /\ ValidParent(f, job[t].ref)
      BY <2>1, AtCommit DEF RefHolds
    <2> QED BY <2>1, <2>2, <2>4, <2>5, PutInterfaceShape
  <1>6. CASE WriteDeleteInterface(t)
    <2> DEFINE f == job[t].row
               row == Bump(interfaces[f], "deleted")
    <2>1. f \in Interfaces /\ job[t].ver \in Version /\ interfaces[f] \in InterfaceRow
      BY <1>6, JobFields DEF WriteDeleteInterface, Checked, Shape, TypeOK
    <2>2. row \in InterfaceRow /\ row.parent = interfaces[f].parent
      BY <1>6, <2>1, BumpTyped, BumpFields DEF WriteDeleteInterface, Unmoved, State
    <2>3. lock[Owner[f]] = t
      BY <1>6, AtCommit DEF WriteDeleteInterface, Checked
    <2> QED BY <1>6, <2>1, <2>2, <2>3, PutInterfaceShape DEF WriteDeleteInterface
  <1> QED BY <1>1, <1>2, <1>3, <1>4, <1>5, <1>6 DEF InterfaceStep

LEMMA RestoreStepShape ==
    ASSUME Shape, TypeOK', NEW t \in Tx, RestoreStep(t) PROVE Shape'
  <1>1. ASSUME NEW r \in Resources, CheckRestoreResource(t, r) PROVE Shape'
    BY <1>1, PassUnlockedShape DEF CheckRestoreResource
  <1>2. ASSUME NEW f \in Interfaces, CheckRestoreInterface(t, f) PROVE Shape'
    BY <1>2, PassUnlockedShape DEF CheckRestoreInterface
  <1>3. CASE WriteRestoreResource(t)
    <2> DEFINE r == job[t].row
               row == Bump(resources[r], "live")
    <2>1. r \in Resources /\ job[t].ver \in Version /\ resources[r] \in ResourceRow
      BY <1>3, JobFields DEF WriteRestoreResource, Checked, Shape, TypeOK
    <2>2. row \in ResourceRow /\ row.host = resources[r].host /\ row.state = "live"
      BY <1>3, <2>1, BumpTyped, BumpFields DEF WriteRestoreResource, Unmoved, State
    <2>3. resources[r].state = "deleted"
      BY <1>3 DEF WriteRestoreResource, Unmoved
    <2> QED BY <1>3, <2>1, <2>2, <2>3, PutResourceShape
            DEF WriteRestoreResource, Shape, WellPlaced, Live
  <1>4. CASE WriteRestoreInterface(t)
    <2> DEFINE f == job[t].row
               row == Bump(interfaces[f], "live")
    <2>1. f \in Interfaces /\ job[t].ver \in Version /\ interfaces[f] \in InterfaceRow
      BY <1>4, JobFields DEF WriteRestoreInterface, Checked, Shape, TypeOK
    <2>2. row \in InterfaceRow /\ row.parent = interfaces[f].parent /\ row.state = "live"
      BY <1>4, <2>1, BumpTyped, BumpFields DEF WriteRestoreInterface, Unmoved, State
    <2> QED BY <1>4, <2>1, <2>2, PutInterfaceShape DEF WriteRestoreInterface, Live
  <1> QED BY <1>1, <1>2, <1>3, <1>4 DEF RestoreStep

LEMMA InitShape == Init => Shape
  <1> SUFFICES ASSUME Init PROVE Shape
    OBVIOUS
  <1>1. ChecksHold
    BY DEF Init, ChecksHold, LocksHeld
  <1>2. WellPlaced
    BY InventoryOK DEF Init, WellPlaced, VirtualMachines
  <1>3. Acyclic
    BY InventoryOK DEF Init, Acyclic
  <1> QED BY <1>1, <1>2, <1>3, InitTyped DEF Shape

LEMMA NextShape == Shape /\ [Next]_vars => Shape'
  <1> SUFFICES ASSUME Shape, [Next]_vars PROVE Shape'
    OBVIOUS
  <1>0. TypeOK'
    BY NextTyped DEF Shape
  <1>1. ASSUME NEW c \in Clusters, CreateCluster(c) \/ RestoreCluster(c) PROVE Shape'
    <2>1. UNCHANGED <<resources, interfaces, lock, pc, job>>
      BY <1>1 DEF CreateCluster, RestoreCluster, PutCluster
    <2>2. ChecksHold'
      BY <2>1 DEF Shape, ChecksHold, LocksHeld, LocksRightRow, RefHolds, ValidHost, ValidParent,
                  Reaches, UpClosed
    <2> QED BY <1>0, <2>1, <2>2, ClusterWriteShape DEF Shape
  <1>2. ASSUME NEW t \in Tx, ClusterStep(t) PROVE Shape'
    <2>1. CASE \E c \in Clusters : CheckDeleteCluster(t, c)
      BY <1>0, <2>1, PassUnlockedShape DEF CheckDeleteCluster
    <2>2. CASE WriteDeleteCluster(t)
      <3>1. End(t) /\ UNCHANGED <<resources, interfaces>>
        BY <2>2 DEF WriteDeleteCluster, PutCluster
      <3> QED BY <1>0, <3>1, ClusterWriteShape, CommitShape
    <2> QED BY <1>2, <2>1, <2>2 DEF ClusterStep
  <1>3. CASE UNCHANGED vars
    BY <1>0, <1>3 DEF Shape, ChecksHold, LocksHeld, LocksRightRow, RefHolds, ValidHost,
                      ValidParent, Reaches, UpClosed, WellPlaced, Acyclic, vars
  <1> QED BY <1>0, <1>1, <1>2, <1>3, AcquireShape, AbortShape, ResourceStepShape,
             InterfaceStepShape, RestoreStepShape DEF Next, LockingNext

LEMMA Shaped == Spec => []Shape
  <1> QED BY InitShape, NextShape, PTL DEF Spec

\* What a request has checked about the host, the owner or the parent it is
\* going to refer to is still true when it commits.
THEOREM Checks == Spec => []ChecksHold
  <1>1. Shape => ChecksHold
    BY DEF Shape
  <1> QED BY <1>1, Shaped, PTL

\* The parents of the interfaces of every Resource stay a forest.
THEOREM NoCycle == Spec => []Acyclic
  <1>1. Shape => Acyclic
    BY DEF Shape
  <1> QED BY <1>1, Shaped, PTL

\* Every machine keeps a host of its Cluster, every interface a parent of its
\* own Resource, through moves, deletions and restores.
THEOREM Placed == Spec => []WellPlaced
  <1>1. Shape => WellPlaced
    BY DEF Shape
  <1> QED BY <1>1, Shaped, PTL

-----------------------------------------------------------------------------
(* Reference integrity, for the handlers that lock.  Sound adds to Shape   *)
(* that a deletion in flight is still unreferenced and that no live row    *)
(* refers to a deleted one.                                                *)

Sound == Shape /\ UnreferencedHolds /\ HostsLive /\ OwnersLive /\ ParentsLive

\* The part of UnreferencedHolds that is about one request.
Unreferenced(j) ==
    /\ j.op = "deleteResource" => Guests(j.row) = {} /\ Ports(j.row) = {}
    /\ j.op = "deleteInterface" => Children(j.row) = {}

\* A step of t refers anew only to rows whose Resource's lock t holds.
NoNewRefs(t) ==
    /\ \A v, h \in Resources : Live(resources'[v]) /\ resources'[v].host = h /\ lock[h] # t
          => Live(resources[v]) /\ resources[v].host = h
    /\ \A f \in Interfaces : Live(interfaces'[f]) /\ lock[Owner[f]] # t
          => Live(interfaces[f])
    /\ \A f, p \in Interfaces :
          Live(interfaces'[f]) /\ interfaces'[f].parent = p /\ lock[Owner[p]] # t
          => Live(interfaces[f]) /\ interfaces[f].parent = p

LEMMA UnreferencedKept ==
    ASSUME Shape, UnreferencedHolds, NEW t \in Tx, Aside(t), NoNewRefs(t),
           pc'[t] = "checked" => Unreferenced(job[t])'
    PROVE  UnreferencedHolds'
  <1>1. ASSUME NEW u \in Tx \ {t}, pc'[u] = "checked" PROVE Unreferenced(job[u])'
    <2>1. pc[u] = "checked" /\ Unreferenced(job[u]) /\ job'[u] = job[u] /\ job[u] \in Job
      BY <1>1 DEF UnreferencedHolds, Unreferenced, Aside, Shape, TypeOK
    <2>2. ASSUME job[u].op = "deleteResource"
          PROVE  Guests(job[u].row)' = {} /\ Ports(job[u].row)' = {}
      <3>1. job[u].row \in Resources /\ lock[job[u].row] = u /\ u # t
        BY <2>1, <2>2, AtCommit, JobFields
      <3>2. Guests(job[u].row) = {} /\ Ports(job[u].row) = {}
        BY <2>1, <2>2 DEF Unreferenced
      <3> QED BY <2>1, <3>1, <3>2 DEF NoNewRefs, Guests, Ports
    <2>3. ASSUME job[u].op = "deleteInterface" PROVE Children(job[u].row)' = {}
      <3>1. job[u].row \in Interfaces /\ lock[Owner[job[u].row]] = u /\ u # t
        BY <2>1, <2>3, AtCommit, JobFields
      <3>2. Children(job[u].row) = {}
        BY <2>1, <2>3 DEF Unreferenced
      <3> QED BY <2>1, <3>1, <3>2 DEF NoNewRefs, Children
    <2> QED BY <2>1, <2>2, <2>3 DEF Unreferenced
  <1>2. \A u \in Tx : pc'[u] = "checked" => Unreferenced(job[u])'
    BY <1>1
  <1> QED BY <1>2 DEF UnreferencedHolds, Unreferenced

LEMMA QuietSound ==
    ASSUME Sound, Shape', UNCHANGED <<resources, interfaces>>, NEW t \in Tx, Aside(t),
           pc'[t] = "checked" => Unreferenced(job[t])
                                 /\ job'[t].op = job[t].op /\ job'[t].row = job[t].row
    PROVE  Sound'
  <1>1. NoNewRefs(t)
    BY DEF NoNewRefs
  <1>2. pc'[t] = "checked" => Unreferenced(job[t])'
    BY DEF Unreferenced, Guests, Ports, Children
  <1>3. UnreferencedHolds'
    BY <1>1, <1>2, UnreferencedKept DEF Sound
  <1> QED BY <1>3 DEF Sound, HostsLive, OwnersLive, ParentsLive

\* A request that starts without a lock deletes nothing the checks are about.
LEMMA StartSound ==
    ASSUME Sound, Shape', NEW t \in Tx, NEW op, NEW row, NEW ver,
           PassUnlocked(t, op, row, ver), op \in {"deleteCluster", "createHost"}
    PROVE  Sound'
  <1>1. /\ UNCHANGED <<resources, interfaces>> /\ Aside(t) /\ job'[t].op = op
    BY DEF PassUnlocked, tables, Aside, Sound, Shape, TypeOK
  <1>2. NoNewRefs(t)
    BY <1>1 DEF NoNewRefs
  <1>3. Unreferenced(job[t])'
    BY <1>1 DEF Unreferenced
  <1>4. UnreferencedHolds'
    BY <1>1, <1>2, <1>3, UnreferencedKept DEF Sound
  <1> QED BY <1>1, <1>4 DEF Sound, HostsLive, OwnersLive, ParentsLive

LEMMA AskSound ==
    ASSUME Sound, Shape', NEW t \in Tx, NEW op, NEW row, NEW r, NEW ref, NEW ver,
           Ask(t, op, row, r, ref, ver)
    PROVE  Sound'
  <1>1. UNCHANGED <<resources, interfaces>> /\ Aside(t) /\ pc'[t] = "waiting"
    BY DEF Ask, tables, Aside, Sound, Shape, TypeOK
  <1> QED BY <1>1, QuietSound

LEMMA PassSound ==
    ASSUME Sound, Shape', NEW t \in Tx, Pass(t), Unreferenced(job[t]) PROVE Sound'
  <1>1. UNCHANGED <<resources, interfaces>> /\ Aside(t) /\ job' = job
    BY DEF Pass, tables, Aside, Sound, Shape, TypeOK
  <1> QED BY <1>1, QuietSound

\* A commit that refers anew only under its locks, and leaves no live row with
\* a deleted host, owner or parent.
LEMMA CommitSound ==
    ASSUME Sound, Shape', NEW t \in Tx, End(t), NoNewRefs(t),
           HostsLive', OwnersLive', ParentsLive'
    PROVE  Sound'
  <1>1. Aside(t) /\ pc'[t] = "idle"
    BY EndAside DEF Sound, Shape
  <1> QED BY <1>1, UnreferencedKept DEF Sound

LEMMA ResourceWriteSound ==
    ASSUME Sound, Shape', NEW t \in Tx, pc[t] = "checked",
           \/ WriteCreateHost(t) \/ WriteCreateVm(t) \/ WriteRehost(t) \/ WriteDeleteResource(t)
    PROVE  Sound'
  <1>0. job[t] \in Job /\ RefHolds(job[t]) /\ Unreferenced(job[t])
    BY AtCommit DEF Sound, UnreferencedHolds, Unreferenced
  <1>1. CASE WriteCreateHost(t)
    <2> DEFINE r == job[t].row
    <2>1. r \in BareMetal /\ r \in Resources /\ resources[r] \in ResourceRow
      BY <1>0, <1>1, InventoryOK, JobFields DEF WriteCreateHost, Checked, Sound, Shape, TypeOK
    <2>2. /\ End(t) /\ interfaces' = interfaces /\ Live(resources'[r]) /\ ~Live(resources[r])
          /\ \A x \in Resources \ {r} : resources'[x] = resources[x]
          /\ resources'[r].host = None
      BY <1>1, <2>1, BumpFields
         DEF WriteCreateHost, Unmoved, PutResource, Live, Sound, Shape, TypeOK, WellPlaced
    <2>3. NoNewRefs(t)
      BY <2>2, InventoryOK DEF NoNewRefs
    <2>4. HostsLive' /\ OwnersLive' /\ ParentsLive'
      BY <2>1, <2>2, InventoryOK
         DEF Sound, Shape, HostsLive, OwnersLive, ParentsLive, VirtualMachines, WellPlaced, Live
    <2> QED BY <2>2, <2>3, <2>4, CommitSound
  <1>2. CASE WriteCreateVm(t) \/ WriteRehost(t)
    <2> DEFINE v == job[t].row
               h == job[t].ref
    <2>1. job[t].op \in HostOps /\ End(t) /\ interfaces' = interfaces
      BY <1>2 DEF WriteCreateVm, WriteRehost, Checked, HostOps, PutResource
    <2>2. /\ v \in VirtualMachines /\ v \in Resources /\ h \in BareMetal /\ Live(resources[h])
          /\ lock[h] = t /\ h \in Resources /\ resources[v] \in ResourceRow
      BY <1>0, <2>1, JobFields, AtCommit
         DEF RefHolds, ValidHost, VirtualMachines, Sound, Shape, TypeOK
    <2>3. resources' = [resources EXCEPT
                          ![v] = [Bump(resources[v], "live") EXCEPT !.host = h]]
      BY <1>2 DEF WriteCreateVm, WriteRehost, PutResource
    <2>4. /\ Live(resources'[v]) /\ resources'[v].host = h
          /\ \A x \in Resources \ {v} : resources'[x] = resources[x]
      BY <2>2, <2>3 DEF Bump, ResourceRow, Live, Sound, Shape, TypeOK
    <2>5. NoNewRefs(t)
      BY <2>1, <2>2, <2>4 DEF NoNewRefs
    <2>6. HostsLive'
      BY <2>2, <2>4, InventoryOK
         DEF Sound, Shape, HostsLive, VirtualMachines, WellPlaced, Live
    <2>7. OwnersLive' /\ ParentsLive'
      BY <2>1, <2>2, <2>4, InventoryOK DEF Sound, OwnersLive, ParentsLive
    <2> QED BY <2>1, <2>5, <2>6, <2>7, CommitSound
  <1>3. CASE WriteDeleteResource(t)
    <2> DEFINE r == job[t].row
    <2>1. /\ r \in Resources /\ Guests(r) = {} /\ Ports(r) = {} /\ resources[r] \in ResourceRow
      BY <1>0, <1>3, JobFields
         DEF WriteDeleteResource, Checked, Unreferenced, Sound, Shape, TypeOK
    <2>2. /\ End(t) /\ interfaces' = interfaces /\ ~Live(resources'[r])
          /\ \A x \in Resources \ {r} : resources'[x] = resources[x]
      BY <1>3, <2>1, BumpFields
         DEF WriteDeleteResource, PutResource, Live, Sound, Shape, TypeOK
    <2>3. NoNewRefs(t)
      BY <2>2 DEF NoNewRefs
    <2>4. HostsLive' /\ OwnersLive' /\ ParentsLive'
      BY <2>1, <2>2, InventoryOK
         DEF Sound, Shape, HostsLive, OwnersLive, ParentsLive, VirtualMachines, WellPlaced,
             Guests, Ports, Live
    <2> QED BY <2>2, <2>3, <2>4, CommitSound
  <1> QED BY <1>1, <1>2, <1>3

LEMMA InterfaceWriteSound ==
    ASSUME Sound, Shape', NEW t \in Tx, pc[t] = "checked",
           WriteCreateInterface(t) \/ WriteMoveInterface(t) \/ WriteDeleteInterface(t)
    PROVE  Sound'
  <1> DEFINE f == job[t].row
  <1>0. job[t] \in Job /\ RefHolds(job[t]) /\ Unreferenced(job[t])
    BY AtCommit DEF Sound, UnreferencedHolds, Unreferenced
  <1>1. job[t].op \in ParentOps \cup {"deleteInterface"}
    BY DEF WriteCreateInterface, WriteMoveInterface, WriteDeleteInterface, Checked, ParentOps
  <1>2. /\ End(t) /\ resources' = resources
        /\ f \in Interfaces /\ interfaces[f] \in InterfaceRow /\ lock[Owner[f]] = t
        /\ \A g \in Interfaces \ {f} : interfaces'[g] = interfaces[g]
    BY <1>0, <1>1, JobFields, AtCommit
       DEF WriteCreateInterface, WriteMoveInterface, WriteDeleteInterface, PutInterface,
           Sound, Shape, TypeOK
  <1>3. HostsLive'
    BY <1>2 DEF Sound, HostsLive
  <1>4. NoNewRefs(t)
    BY <1>2, InventoryOK DEF NoNewRefs, Shape, WellPlaced, Sound
  <1>5. \A g \in Interfaces : interfaces[g].parent \in Interfaces \cup {None}
    BY DEF Sound, Shape, TypeOK, InterfaceRow
  <1>6. CASE WriteCreateInterface(t) \/ WriteMoveInterface(t)
    <2>1. interfaces' = [interfaces EXCEPT
                           ![f] = [Bump(interfaces[f], "live") EXCEPT !.parent = job[t].ref]]
      BY <1>6 DEF WriteCreateInterface, WriteMoveInterface, PutInterface
    <2>2. Live(interfaces'[f]) /\ interfaces'[f].parent = job[t].ref
      BY <1>2, <2>1 DEF Bump, InterfaceRow, Live, Sound, Shape, TypeOK
    <2>3. /\ Live(resources[Owner[f]])
          /\ job[t].ref # None => job[t].ref \in Interfaces /\ Live(interfaces[job[t].ref])
      BY <1>0, <1>6
         DEF WriteCreateInterface, WriteMoveInterface, Checked, RefHolds, ValidParent, ParentOps
    <2>4. OwnersLive' /\ ParentsLive'
      BY <1>2, <1>5, <2>2, <2>3 DEF Sound, OwnersLive, ParentsLive, Live
    <2> QED BY <1>2, <1>3, <1>4, <2>4, CommitSound
  <1>7. CASE WriteDeleteInterface(t)
    <2>1. ~Live(interfaces'[f]) /\ Children(f) = {}
      BY <1>0, <1>2, <1>7, BumpFields
         DEF WriteDeleteInterface, Checked, PutInterface, Live, Unreferenced, Sound, Shape, TypeOK
    <2>2. OwnersLive' /\ ParentsLive'
      BY <1>2, <1>5, <2>1 DEF Sound, OwnersLive, ParentsLive, Live, Children
    <2> QED BY <1>2, <1>3, <1>4, <2>2, CommitSound
  <1> QED BY <1>6, <1>7

LEMMA LockingNextSound == Sound /\ [LockingNext]_vars => Sound'
  <1> SUFFICES ASSUME Sound, [LockingNext]_vars PROVE Sound'
    OBVIOUS
  <1>0. Shape'
    BY NextShape DEF Sound, Next
  <1>1. ASSUME UNCHANGED <<resources, interfaces, pc, job>> PROVE Sound'
    BY <1>0, <1>1 DEF Sound, UnreferencedHolds, Guests, Ports, Children, HostsLive, OwnersLive,
                      ParentsLive
  <1>2. CASE UNCHANGED vars
    BY <1>1, <1>2 DEF vars
  <1>3. ASSUME NEW c \in Clusters, CreateCluster(c) \/ RestoreCluster(c) PROVE Sound'
    BY <1>1, <1>3 DEF CreateCluster, RestoreCluster, PutCluster
  <1>4. ASSUME NEW t \in Tx, Acquire(t) PROVE Sound'
    <2>1. UNCHANGED <<resources, interfaces>> /\ Aside(t) /\ pc'[t] = "locked"
      BY <1>4, InventoryOK DEF Acquire, tables, Aside, Sound, Shape, TypeOK
    <2> QED BY <1>0, <2>1, QuietSound
  <1>5. ASSUME NEW t \in Tx, Abort(t) \/ WriteDeleteCluster(t) PROVE Sound'
    <2>1. UNCHANGED <<resources, interfaces>> /\ Aside(t) /\ pc'[t] = "idle"
      BY <1>5, EndAside DEF Abort, WriteDeleteCluster, PutCluster, tables, Sound, Shape
    <2> QED BY <1>0, <2>1, QuietSound
  <1>6. ASSUME NEW t \in Tx, \E c \in Clusters : CheckDeleteCluster(t, c) PROVE Sound'
    BY <1>0, <1>6, StartSound DEF CheckDeleteCluster
  <1>7. ASSUME NEW t \in Tx, ResourceStep(t) PROVE Sound'
    <2>1. ASSUME NEW r \in Resources, CheckCreateHost(t, r) PROVE Sound'
      BY <1>0, <2>1, StartSound DEF CheckCreateHost
    <2>2. ASSUME NEW r \in Resources, ReadDeleteResource(t, r) PROVE Sound'
      BY <1>0, <2>2, AskSound DEF ReadDeleteResource
    <2>3. ASSUME NEW v \in Resources, NEW h \in Resources,
                 ReadCreateVm(t, v, h) \/ ReadRehost(t, v, h)
          PROVE  Sound'
      BY <1>0, <2>3, AskSound DEF ReadCreateVm, ReadRehost
    <2>4. CASE CheckHost(t)
      BY <1>0, <2>4, PassSound DEF CheckHost, Unreferenced
    <2>5. CASE CheckDeleteResource(t)
      BY <1>0, <2>5, PassSound DEF CheckDeleteResource, Locked, Unreferenced
    <2>6. CASE WriteCreateHost(t) \/ WriteCreateVm(t) \/ WriteRehost(t) \/ WriteDeleteResource(t)
      BY <1>0, <2>6, ResourceWriteSound
         DEF WriteCreateHost, WriteCreateVm, WriteRehost, WriteDeleteResource, Checked
    <2> QED BY <1>7, <2>1, <2>2, <2>3, <2>4, <2>5, <2>6 DEF ResourceStep
  <1>8. ASSUME NEW t \in Tx, InterfaceStep(t) PROVE Sound'
    <2>1. ASSUME NEW f \in Interfaces, NEW p \in Interfaces \cup {None},
                 ReadCreateInterface(t, f, p) \/ ReadMoveInterface(t, f, p)
          PROVE  Sound'
      BY <1>0, <2>1, AskSound DEF ReadCreateInterface, ReadMoveInterface
    <2>2. ASSUME NEW f \in Interfaces, ReadDeleteInterface(t, f) PROVE Sound'
      BY <1>0, <2>2, AskSound DEF ReadDeleteInterface
    <2>3. CASE CheckParent(t)
      BY <1>0, <2>3, PassSound DEF CheckParent, Unreferenced
    <2>4. CASE CheckDeleteInterface(t)
      BY <1>0, <2>4, PassSound DEF CheckDeleteInterface, Locked, Unreferenced
    <2>5. CASE WriteCreateInterface(t) \/ WriteMoveInterface(t) \/ WriteDeleteInterface(t)
      BY <1>0, <2>5, InterfaceWriteSound
         DEF WriteCreateInterface, WriteMoveInterface, WriteDeleteInterface, Checked
    <2> QED BY <1>8, <2>1, <2>2, <2>3, <2>4, <2>5 DEF InterfaceStep
  <1> QED BY <1>2, <1>3, <1>4, <1>5, <1>6, <1>7, <1>8 DEF LockingNext, ClusterStep

LEMMA InitSound == Init => Sound
  <1> SUFFICES ASSUME Init PROVE Sound
    OBVIOUS
  <1>1. Shape
    BY InitShape
  <1>2. UnreferencedHolds /\ HostsLive /\ OwnersLive /\ ParentsLive
    BY DEF Init, UnreferencedHolds, HostsLive, OwnersLive, ParentsLive, Live, VirtualMachines
  <1> QED BY <1>1, <1>2 DEF Sound

LEMMA Soundness == LockingSpec => []Sound
  <1> QED BY InitSound, LockingNextSound, PTL DEF LockingSpec

\* Without restores, a row that is about to be deleted is still unreferenced.
THEOREM StillUnreferenced == LockingSpec => []UnreferencedHolds
  <1>1. Sound => UnreferencedHolds
    BY DEF Sound
  <1> QED BY <1>1, Soundness, PTL

\* Without restores, no live machine has a deleted host.
THEOREM HostIntegrity == LockingSpec => []HostsLive
  <1>1. Sound => HostsLive
    BY DEF Sound
  <1> QED BY <1>1, Soundness, PTL

\* Without restores, no live interface belongs to a deleted Resource.
THEOREM OwnerIntegrity == LockingSpec => []OwnersLive
  <1>1. Sound => OwnersLive
    BY DEF Sound
  <1> QED BY <1>1, Soundness, PTL

\* Without restores, no live interface has a deleted parent.
THEOREM ParentIntegrity == LockingSpec => []ParentsLive
  <1>1. Sound => ParentsLive
    BY DEF Sound
  <1> QED BY <1>1, Soundness, PTL
=============================================================================
