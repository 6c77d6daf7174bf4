------------------------------ MODULE Inventory ------------------------------
(***************************************************************************)
(* Clusters, Resources (bare-metal hosts and virtual machines) and their   *)
(* Interfaces: backend/app/services/cluster.py, resource.py, interface.py, *)
(* run by concurrent requests at READ COMMITTED.                           *)
(*                                                                         *)
(* A handler checks first and commits later, and other requests commit in  *)
(* between.  Creating or moving a virtual machine locks its host's row     *)
(* FOR UPDATE; deleting a Resource locks its own row; creating, moving or  *)
(* deleting an Interface locks the owner's row.  Restores, the creation of *)
(* a host and everything about a Cluster take no lock.  The triggers of    *)
(* migrations 0006 and 0007 run when the row is written, before COMMIT,    *)
(* and read without locking: they add nothing to what the handler's own    *)
(* checks have seen, so Check... stands for both.                          *)
(*                                                                         *)
(* A Resource's type and Cluster and an Interface's owner never change     *)
(* (triggers of 0004 and 0007), so they are constants of the identity.     *)
(* Hostnames, names, hardware and descriptive columns are left out, and so *)
(* are the Services and IP addresses that also refer to these rows.        *)
(***************************************************************************)
EXTENDS Integers

CONSTANTS Tx,              \* requests in flight, one database transaction each
          Clusters, Resources, Interfaces,      \* identities of rows
          BareMetal,       \* the Resources of type BARE_METAL, the others are VMs
          ClusterOf,       \* Resource -> its Cluster
          Owner,           \* Interface -> the Resource it belongs to
          MaxVersion,      \* bound: a row is written at most this many times
          None             \* SQL NULL

ASSUME InventoryOK ==
    /\ BareMetal \subseteq Resources
    /\ ClusterOf \in [Resources -> Clusters]
    /\ Owner \in [Interfaces -> Resources]
    /\ MaxVersion \in Nat \ {0}
    /\ None \notin Tx \cup Clusters \cup Resources \cup Interfaces

VARIABLES clusters, resources, interfaces,   \* the tables
          lock,            \* who holds a resources row FOR UPDATE
          pc, job          \* how far each request is, and what it is about

tables == <<clusters, resources, interfaces>>
vars == <<clusters, resources, interfaces, lock, pc, job>>

VirtualMachines == Resources \ BareMetal
State == {"absent", "live", "deleted"}
ClusterRow == [state : State, version : 0..MaxVersion]
ResourceRow == [state : State, version : 0..MaxVersion, host : Resources \cup {None}]
InterfaceRow == [state : State, version : 0..MaxVersion, parent : Interfaces \cup {None}]

NoJob == [op |-> "none", row |-> None, locks |-> None, ref |-> None, ver |-> 0]

Init == /\ clusters = [c \in Clusters |-> [state |-> "absent", version |-> 0]]
        /\ resources = [r \in Resources |->
                          [state |-> "absent", version |-> 0, host |-> None]]
        /\ interfaces = [f \in Interfaces |->
                           [state |-> "absent", version |-> 0, parent |-> None]]
        /\ lock = [r \in Resources |-> None]
        /\ pc = [t \in Tx |-> "idle"]
        /\ job = [t \in Tx |-> NoJob]

-----------------------------------------------------------------------------
(* The queries of the services.                                            *)

Live(row) == row.state = "live"
Writable(row, state) == row.state = state /\ row.version < MaxVersion

\* The reference checkers registered for a Cluster, a Resource, an Interface.
Members(c) == {r \in Resources : Live(resources[r]) /\ ClusterOf[r] = c}
Guests(h) == {v \in Resources : Live(resources[v]) /\ resources[v].host = h}
Ports(r) == {f \in Interfaces : Live(interfaces[f]) /\ Owner[f] = r}
Children(f) == {g \in Interfaces : Live(interfaces[g]) /\ interfaces[g].parent = f}

ValidHost(v, h) == /\ h \in BareMetal /\ ClusterOf[h] = ClusterOf[v]
                   /\ Live(resources[h])

\* The ancestor walk from p visits f: f is in every set that holds p and,
\* with an interface, its parent.  Soft-deleted ancestors are walked too.
UpClosed(S) == \A g \in S : interfaces[g].parent # None => interfaces[g].parent \in S
Reaches(p, f) == \A S \in SUBSET Interfaces : p \in S /\ UpClosed(S) => f \in S

ValidParent(f, p) == \/ p = None
                     \/ /\ p \in Interfaces /\ Owner[p] = Owner[f]
                        /\ Live(interfaces[p])
                        /\ ~Reaches(p, f)

-----------------------------------------------------------------------------
(* Steps every handler shares.                                             *)

\* The handler has read its row and asks for the lock of an existing Resource.
Ask(t, op, row, r, ref, ver) ==
    /\ pc[t] = "idle" /\ resources[r].state # "absent"
    /\ pc' = [pc EXCEPT ![t] = "waiting"]
    /\ job' = [job EXCEPT ![t] =
                 [op |-> op, row |-> row, locks |-> r, ref |-> ref, ver |-> ver]]
    /\ UNCHANGED <<tables, lock>>

\* Mutant of Acquire: the row is read without FOR UPDATE's wait.
AcquireNoWait(t) == /\ pc[t] = "waiting"
                    /\ lock' = [lock EXCEPT ![job[t].locks] = t]
                    /\ pc' = [pc EXCEPT ![t] = "locked"]
                    /\ UNCHANGED <<tables, job>>

\* SELECT ... FOR UPDATE waits for the transaction that holds the row.
Acquire(t) == /\ pc[t] = "waiting"
              /\ lock[job[t].locks] = None
              /\ lock' = [lock EXCEPT ![job[t].locks] = t]
              /\ pc' = [pc EXCEPT ![t] = "locked"]
              /\ UNCHANGED <<tables, job>>

Locked(t, op) == pc[t] = "locked" /\ job[t].op = op
Checked(t, op) == pc[t] = "checked" /\ job[t].op = op

Pass(t) == pc' = [pc EXCEPT ![t] = "checked"] /\ UNCHANGED <<tables, lock, job>>

\* A handler without a lock reads and checks its row at once.
PassUnlocked(t, op, row, ver) ==
    /\ pc[t] = "idle"
    /\ pc' = [pc EXCEPT ![t] = "checked"]
    /\ job' = [job EXCEPT ![t] =
                 [op |-> op, row |-> row, locks |-> None, ref |-> None, ver |-> ver]]
    /\ UNCHANGED <<tables, lock>>

\* COMMIT and ROLLBACK both end the transaction and release its row lock.
End(t) == /\ pc' = [pc EXCEPT ![t] = "idle"]
          /\ job' = [job EXCEPT ![t] = NoJob]
          /\ lock' = [r \in Resources |-> IF lock[r] = t THEN None ELSE lock[r]]

\* A failed check, a lost version race, a timeout, a dropped connection.
Abort(t) == pc[t] # "idle" /\ End(t) /\ UNCHANGED tables

\* The conditional UPDATE: the row is as old as when the handler read it.
Unmoved(row, state, t) == row.state = state /\ row.version = job[t].ver

PutCluster(c, row) ==
    clusters' = [clusters EXCEPT ![c] = row] /\ UNCHANGED <<resources, interfaces>>
PutResource(r, row) ==
    resources' = [resources EXCEPT ![r] = row] /\ UNCHANGED <<clusters, interfaces>>
PutInterface(f, row) ==
    interfaces' = [interfaces EXCEPT ![f] = row] /\ UNCHANGED <<clusters, resources>>

Bump(row, state) == [row EXCEPT !.state = state, !.version = @ + 1]

-----------------------------------------------------------------------------
(* Clusters.  A code is never reused, so a Cluster is created once.        *)

CreateCluster(c) == /\ Writable(clusters[c], "absent")
                    /\ PutCluster(c, Bump(clusters[c], "live"))
                    /\ UNCHANGED <<lock, pc, job>>

CheckDeleteCluster(t, c) == /\ Writable(clusters[c], "live")
                            /\ Members(c) = {}
                            /\ PassUnlocked(t, "deleteCluster", c, clusters[c].version)

WriteDeleteCluster(t) == /\ Checked(t, "deleteCluster")
                         /\ LET c == job[t].row
                            IN  /\ Unmoved(clusters[c], "live", t)
                                /\ PutCluster(c, Bump(clusters[c], "deleted"))
                         /\ End(t)

\* No dependency checker is registered for a Cluster.
RestoreCluster(c) == /\ Writable(clusters[c], "deleted")
                     /\ PutCluster(c, Bump(clusters[c], "live"))
                     /\ UNCHANGED <<lock, pc, job>>

-----------------------------------------------------------------------------
(* Resources.                                                              *)

CheckCreateHost(t, r) == /\ r \in BareMetal /\ resources[r].state = "absent"
                         /\ Live(clusters[ClusterOf[r]])
                         /\ PassUnlocked(t, "createHost", r, 0)

WriteCreateHost(t) == /\ Checked(t, "createHost")
                      /\ LET r == job[t].row
                         IN  /\ Unmoved(resources[r], "absent", t)
                             /\ PutResource(r, Bump(resources[r], "live"))
                      /\ End(t)

\* The Cluster is resolved before the lock; the host may be any Resource.
ReadCreateVm(t, v, h) == /\ v \in VirtualMachines /\ resources[v].state = "absent"
                         /\ Live(clusters[ClusterOf[v]])
                         /\ Ask(t, "createVm", v, h, h, 0)

\* Mutant of CheckHost: the host is not looked at under its lock.
CheckHostBlind(t) == /\ pc[t] = "locked" /\ job[t].op \in {"createVm", "rehost"}
                     /\ Pass(t)

\* validate_virtual_machine, under the lock of the host's row.
CheckHost(t) == /\ pc[t] = "locked" /\ job[t].op \in {"createVm", "rehost"}
                /\ ValidHost(job[t].row, job[t].ref)
                /\ Pass(t)

WriteCreateVm(t) ==
    /\ Checked(t, "createVm")
    /\ LET v == job[t].row
       IN  /\ Unmoved(resources[v], "absent", t)
           /\ PutResource(v, [Bump(resources[v], "live") EXCEPT !.host = job[t].ref])
    /\ End(t)

ReadRehost(t, v, h) ==
    /\ v \in VirtualMachines /\ Writable(resources[v], "live")
    /\ Ask(t, "rehost", v, h, h, resources[v].version)

\* The UPDATE of the machine's own row waits for whoever locked it.
WriteRehost(t) ==
    /\ Checked(t, "rehost")
    /\ LET v == job[t].row
       IN  /\ lock[v] = None
           /\ Unmoved(resources[v], "live", t)
           /\ PutResource(v, [Bump(resources[v], "live") EXCEPT !.host = job[t].ref])
    /\ End(t)

ReadDeleteResource(t, r) ==
    /\ Writable(resources[r], "live")
    /\ Ask(t, "deleteResource", r, r, None, resources[r].version)

\* Mutant of CheckDeleteResource: the references are queried before the lock.
CheckDeleteResourceEarly(t) ==
    /\ pc[t] = "waiting" /\ job[t].op = "deleteResource"
    /\ Guests(job[t].row) = {} /\ Ports(job[t].row) = {}
    /\ Pass(t)

CheckDeleteResource(t) ==
    /\ Locked(t, "deleteResource")
    /\ Guests(job[t].row) = {} /\ Ports(job[t].row) = {}
    /\ Pass(t)

WriteDeleteResource(t) ==
    /\ Checked(t, "deleteResource")
    /\ LET r == job[t].row
       IN  /\ Unmoved(resources[r], "live", t)
           /\ PutResource(r, Bump(resources[r], "deleted"))
    /\ End(t)

\* restore_resource takes no lock: Cluster and host are only looked at.
CheckRestoreResource(t, r) ==
    /\ Writable(resources[r], "deleted")
    /\ clusters[ClusterOf[r]].state # "deleted"
    /\ resources[r].host # None => Live(resources[resources[r].host])
    /\ PassUnlocked(t, "restoreResource", r, resources[r].version)

WriteRestoreResource(t) ==
    /\ Checked(t, "restoreResource")
    /\ LET r == job[t].row
       IN  /\ lock[r] = None
           /\ Unmoved(resources[r], "deleted", t)
           /\ PutResource(r, Bump(resources[r], "live"))
    /\ End(t)

-----------------------------------------------------------------------------
(* Interfaces.                                                             *)

ReadCreateInterface(t, f, p) ==
    /\ interfaces[f].state = "absent"
    /\ Ask(t, "createInterface", f, Owner[f], p, 0)

ReadMoveInterface(t, f, p) ==
    /\ Writable(interfaces[f], "live")
    /\ Ask(t, "moveInterface", f, Owner[f], p, interfaces[f].version)

\* Mutant of CheckParent: the ancestors of the new parent are not walked.
CheckParentNoWalk(t) ==
    /\ pc[t] = "locked" /\ job[t].op \in {"createInterface", "moveInterface"}
    /\ LET f == job[t].row
           p == job[t].ref
       IN  /\ Live(resources[Owner[f]])
           /\ p # None => Owner[p] = Owner[f] /\ Live(interfaces[p]) /\ p # f
    /\ Pass(t)

\* _lock_resource and _validate_parent, for a new and for a moved interface.
CheckParent(t) ==
    /\ pc[t] = "locked" /\ job[t].op \in {"createInterface", "moveInterface"}
    /\ Live(resources[Owner[job[t].row]])
    /\ ValidParent(job[t].row, job[t].ref)
    /\ Pass(t)

WriteCreateInterface(t) ==
    /\ Checked(t, "createInterface")
    /\ LET f == job[t].row
       IN  /\ Unmoved(interfaces[f], "absent", t)
           /\ PutInterface(f, [Bump(interfaces[f], "live") EXCEPT !.parent = job[t].ref])
    /\ End(t)

\* Mutant of WriteMoveInterface: the owner's identity is stored as the parent.
WriteMoveInterfaceOwner(t) ==
    /\ Checked(t, "moveInterface")
    /\ LET f == job[t].row
       IN  /\ Unmoved(interfaces[f], "live", t)
           /\ PutInterface(f, [Bump(interfaces[f], "live") EXCEPT !.parent = job[t].locks])
    /\ End(t)

WriteMoveInterface(t) ==
    /\ Checked(t, "moveInterface")
    /\ LET f == job[t].row
       IN  /\ Unmoved(interfaces[f], "live", t)
           /\ PutInterface(f, [Bump(interfaces[f], "live") EXCEPT !.parent = job[t].ref])
    /\ End(t)

ReadDeleteInterface(t, f) ==
    /\ Writable(interfaces[f], "live")
    /\ Ask(t, "deleteInterface", f, Owner[f], None, interfaces[f].version)

\* Mutant of CheckDeleteInterface: the children are queried before the lock.
CheckDeleteInterfaceEarly(t) ==
    /\ pc[t] = "waiting" /\ job[t].op = "deleteInterface"
    /\ Children(job[t].row) = {}
    /\ Pass(t)

\* The trigger looks at the parent on every UPDATE, that of deleted_at too.
CheckDeleteInterface(t) ==
    /\ Locked(t, "deleteInterface")
    /\ LET f == job[t].row
       IN  /\ Live(resources[Owner[f]])
           /\ Children(f) = {}
           /\ ValidParent(f, interfaces[f].parent)
    /\ Pass(t)

WriteDeleteInterface(t) ==
    /\ Checked(t, "deleteInterface")
    /\ LET f == job[t].row
       IN  /\ Unmoved(interfaces[f], "live", t)
           /\ PutInterface(f, Bump(interfaces[f], "deleted"))
    /\ End(t)

\* restore_interface takes no lock: owner and parent are only looked at.
CheckRestoreInterface(t, f) ==
    /\ Writable(interfaces[f], "deleted")
    /\ Live(resources[Owner[f]])
    /\ ValidParent(f, interfaces[f].parent)
    /\ PassUnlocked(t, "restoreInterface", f, interfaces[f].version)

WriteRestoreInterface(t) ==
    /\ Checked(t, "restoreInterface")
    /\ LET f == job[t].row
       IN  /\ Unmoved(interfaces[f], "deleted", t)
           /\ PutInterface(f, Bump(interfaces[f], "live"))
    /\ End(t)

-----------------------------------------------------------------------------
ClusterStep(t) == \/ \E c \in Clusters : CheckDeleteCluster(t, c)
                  \/ WriteDeleteCluster(t)

ResourceStep(t) ==
    \/ \E r \in Resources : CheckCreateHost(t, r) \/ ReadDeleteResource(t, r)
    \/ \E v, h \in Resources : ReadCreateVm(t, v, h) \/ ReadRehost(t, v, h)
    \/ CheckHost(t) \/ CheckDeleteResource(t)
    \/ WriteCreateHost(t) \/ WriteCreateVm(t) \/ WriteRehost(t) \/ WriteDeleteResource(t)

InterfaceStep(t) ==
    \/ \E f \in Interfaces, p \in Interfaces \cup {None} :
          ReadCreateInterface(t, f, p) \/ ReadMoveInterface(t, f, p)
    \/ \E f \in Interfaces : ReadDeleteInterface(t, f)
    \/ CheckParent(t) \/ CheckDeleteInterface(t)
    \/ WriteCreateInterface(t) \/ WriteMoveInterface(t) \/ WriteDeleteInterface(t)

RestoreStep(t) ==
    \/ \E r \in Resources : CheckRestoreResource(t, r)
    \/ \E f \in Interfaces : CheckRestoreInterface(t, f)
    \/ WriteRestoreResource(t) \/ WriteRestoreInterface(t)

\* What the lock protocol covers, and then the restores that stay outside it.
LockingNext == \/ \E c \in Clusters : CreateCluster(c) \/ RestoreCluster(c)
               \/ \E t \in Tx : \/ Acquire(t) \/ Abort(t) \/ ClusterStep(t)
                                \/ ResourceStep(t) \/ InterfaceStep(t)

Next == LockingNext \/ \E t \in Tx : RestoreStep(t)

LockingSpec == Init /\ [][LockingNext]_vars
Spec == Init /\ [][Next]_vars

-----------------------------------------------------------------------------
\* A request names a version that its own write can still increment.
Version == 0..(MaxVersion - 1)
HostOps == {"createVm", "rehost"}
ParentOps == {"createInterface", "moveInterface"}
Job == {NoJob}
  \cup [op : {"deleteCluster"}, row : Clusters, locks : {None}, ref : {None}, ver : Version]
  \cup [op : {"createHost"}, row : BareMetal, locks : {None}, ref : {None}, ver : Version]
  \cup [op : {"restoreResource"}, row : Resources, locks : {None}, ref : {None},
        ver : Version]
  \cup [op : HostOps, row : VirtualMachines, locks : Resources, ref : Resources,
        ver : Version]
  \cup [op : {"deleteResource"}, row : Resources, locks : Resources, ref : {None},
        ver : Version]
  \cup [op : ParentOps, row : Interfaces, locks : Resources,
        ref : Interfaces \cup {None}, ver : Version]
  \cup [op : {"deleteInterface"}, row : Interfaces, locks : Resources, ref : {None},
        ver : Version]
  \cup [op : {"restoreInterface"}, row : Interfaces, locks : {None}, ref : {None},
        ver : Version]

\* Every table, the lock and every request in flight has its shape.
TypeOK == /\ clusters \in [Clusters -> ClusterRow]
          /\ resources \in [Resources -> ResourceRow]
          /\ interfaces \in [Interfaces -> InterfaceRow]
          /\ lock \in [Resources -> Tx \cup {None}]
          /\ pc \in [Tx -> {"idle", "waiting", "locked", "checked"}]
          /\ job \in [Tx -> Job]

\* Each handler locks the row its checks depend on, and holds it to the end.
LocksRightRow(j) ==
    /\ j.op \in HostOps => j.locks = j.ref
    /\ j.op = "deleteResource" => j.locks = j.row
    /\ j.op \in ParentOps \cup {"deleteInterface"} => j.locks = Owner[j.row]

LocksHeld == \A t \in Tx :
    /\ pc[t] # "idle" => LocksRightRow(job[t])
    /\ pc[t] \in {"waiting", "locked"} => job[t].locks # None
    /\ pc[t] \in {"locked", "checked"} /\ job[t].locks # None => lock[job[t].locks] = t

\* Host, owner and parent are still what the handler found them to be.
RefHolds(j) ==
    /\ j.op \in HostOps => ValidHost(j.row, j.ref)
    /\ j.op \in ParentOps => Live(resources[Owner[j.row]]) /\ ValidParent(j.row, j.ref)

\* What a handler that attaches a row to another has checked under the lock is
\* true until it commits, whatever other requests commit meanwhile: neither a
\* deletion nor a restore takes the host, the owner or the parent away, and no
\* other move puts the row among its new parent's ancestors.
ChecksHold == LocksHeld /\ \A t \in Tx : pc[t] = "checked" => RefHolds(job[t])

\* A deletion still has no references when it commits.  Restores take no lock,
\* so this is a property of the locking handlers alone.
UnreferencedHolds == \A t \in Tx : pc[t] = "checked" =>
    /\ job[t].op = "deleteResource" => Guests(job[t].row) = {} /\ Ports(job[t].row) = {}
    /\ job[t].op = "deleteInterface" => Children(job[t].row) = {}

\* The parents of interfaces never form a cycle, deleted rows included: every
\* set of interfaces has a member whose parent is outside it.  Two requests
\* that move two interfaces of a Resource at once check their ancestor walks
\* against each other only because both hold the Resource's row lock.
Acyclic == \A S \in SUBSET Interfaces :
              S # {} => \E f \in S : interfaces[f].parent \notin S

\* A virtual machine that was ever created keeps a host, and an interface its
\* parent, of its own Cluster or Resource; a host has no host.
WellPlaced ==
    /\ \A h \in BareMetal : resources[h].host = None
    /\ \A v \in VirtualMachines : resources[v].state # "absent"
          => /\ resources[v].host \in BareMetal
             /\ ClusterOf[resources[v].host] = ClusterOf[v]
    /\ \A f \in Interfaces : interfaces[f].parent # None
          => Owner[interfaces[f].parent] = Owner[f]

-----------------------------------------------------------------------------
(* Reference integrity under soft deletion.  The row locks give it to the  *)
(* locking handlers (LockingSpec); a concurrent restore breaks it (Spec).  *)

\* No undeleted virtual machine has a deleted host.
HostsLive == \A v \in VirtualMachines :
                Live(resources[v]) => Live(resources[resources[v].host])

\* No undeleted interface belongs to a deleted Resource.
OwnersLive == \A f \in Interfaces : Live(interfaces[f]) => Live(resources[Owner[f]])

\* No undeleted interface has a deleted parent.
ParentsLive == \A f \in Interfaces :
    Live(interfaces[f]) /\ interfaces[f].parent # None
       => Live(interfaces[interfaces[f].parent])
=============================================================================
