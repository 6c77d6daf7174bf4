------------------------------ MODULE Bindings ------------------------------
(***************************************************************************)
(* Binding addresses from the interface side                               *)
(* (src/frontend/src/components: InterfacesPanel.tsx for the view of an    *)
(* interface's addresses and its cache, InterfaceIpBindingPanel.tsx for    *)
(* the dialog, interfaceIpSelection.ts for its logic).  The dialog selects *)
(* unbound addresses of several candidate lists and binds them one by one. *)
(* Others bind, edit and release the same addresses meanwhile.  Addresses  *)
(* are numbered in their order.                                            *)
(***************************************************************************)
EXTENDS Naturals, Sequences, FiniteSets

CONSTANTS
    LastAddress,   \* addresses are 1 .. LastAddress
    Ifaces,        \* the interfaces of the Resource, not deleted
    Elsewhere,     \* an interface of another Resource
    Unbound,       \* bound to no interface
    Queries,       \* the searches of the candidates: "" for all, "1"
    Contested,     \* bound: the addresses others write
    LastWrite,     \* bound: no address is written past this version
    MaxReads       \* bound: GETs in flight

ASSUME BindingsAssumption ==
    /\ "" \in Queries /\ Queries \subseteq {"", "1"}
    /\ Contested \subseteq 1 .. LastAddress
    /\ {LastAddress, LastWrite, MaxReads} \subseteq Nat \ {0}
    /\ Unbound \notin Ifaces \union {Elsewhere} /\ Elsewhere \notin Ifaces

VARIABLES
    ips,         \* the server's addresses: version, live, iface
    boundIps,    \* the cache: interface -> what was loaded of its addresses
    boundView,   \* the interface whose addresses are in view, or Unbound
    target,      \* bindingTarget: the interface of the open dialog, or Unbound
    candidates,  \* listState of the dialog
    candidateQ,  \* its query: all addresses, or the narrower search
    selection,   \* address -> the version it was selected at, 0: not selected
    queue,       \* the selected addresses still to be bound, in order
    batch,       \* the requests of the last submission: address -> version, 0: none
    patch,       \* the request in flight
    outcomes,    \* its results: gathered while it runs, shown when it is over
    reads,       \* GETs in flight
    heard        \* interface -> address -> version of the binding it was told of

bindVars == <<ips, boundIps, boundView, target, candidates, candidateQ, selection,
              queue, batch, patch, outcomes, reads, heard>>

Addresses == 1 .. LastAddress
Versions == [Addresses -> 0 .. LastWrite]
NoVersions == [a \in Addresses |-> 0]
Bindable == [version : 1 .. LastWrite, live : BOOLEAN, iface : Ifaces \union {Elsewhere, Unbound}]
Cache(kind, versions) == [kind |-> kind, versions |-> versions]
NoPatch == [state |-> "none", ok |-> FALSE]
Submitting == queue # <<>>

(* interfaceIpSelectionCandidates: the selection by address. *)
Ordered(chosen) ==
    LET selected == {a \in Addresses : chosen[a] > 0}
    IN [k \in 1 .. Cardinality(selected) |->
          CHOOSE a \in selected : Cardinality({b \in selected : b <= a}) = k]

(* The candidates: unbound and not deleted; the search narrows them. *)
CandidateQuery(q, rows) ==
    [a \in Addresses |-> IF rows[a].live /\ rows[a].iface = Unbound /\ (q = "" \/ a = 1)
                         THEN rows[a].version ELSE 0]

(* What a bound list was read at: the versions of all addresses then. *)
VersionsOf(rows) == [a \in Addresses |-> rows[a].version]

Read(kind, iface, q) ==
    [kind |-> kind, iface |-> iface, q |-> q, done |-> FALSE,
     found |-> NoVersions, cancelled |-> FALSE]
RoomToRead == Cardinality(reads) < MaxReads

LeftCandidates(all) ==
    {IF r.kind = "candidates" THEN [r EXCEPT !.cancelled = TRUE] ELSE r : r \in all}

BindInit ==
    /\ ips \in [Addresses -> {b \in Bindable : b.version = 1 /\ b.live /\ b.iface = Unbound}]
    /\ boundIps = [i \in Ifaces |-> Cache("none", NoVersions)]
    /\ boundView = Unbound /\ target = Unbound
    /\ candidates = Cache("loading", NoVersions)
    /\ candidateQ = ""
    /\ selection = NoVersions
    /\ queue = <<>> /\ batch = NoVersions /\ patch = NoPatch
    /\ outcomes = [a \in Addresses |-> "none"]
    /\ reads = {}
    /\ heard = [i \in Ifaces |-> NoVersions]

(***************************************************************************)
(* The bound addresses of an interface: loaded lazily, cached              *)
(***************************************************************************)
(* loadBoundIps: nothing remembers the loads before it. *)
LoadBoundIps(i) ==
    /\ RoomToRead
    /\ boundIps' = [boundIps EXCEPT ![i] = Cache("loading", NoVersions)]
    /\ reads' = reads \union {Read("bound", i, "")}

(* toggleBoundIps; a modal dialog covers the button. *)
ToggleBoundIps(i) ==
    /\ target = Unbound
    /\ IF boundView = i
       THEN boundView' = Unbound /\ UNCHANGED <<boundIps, reads>>
       ELSE /\ boundView' = i
            /\ IF boundIps[i].kind \in {"none", "error"}
               THEN LoadBoundIps(i)
               ELSE UNCHANGED <<boundIps, reads>>
    /\ UNCHANGED <<ips, target, candidates, candidateQ, selection, queue, batch, patch, outcomes, heard>>

(* The refresh button, off while loading, and the retry of an error. *)
RefreshBoundIps ==
    /\ target = Unbound /\ boundView # Unbound
    /\ boundIps[boundView].kind # "loading"
    /\ LoadBoundIps(boundView)
    /\ UNCHANGED <<ips, boundView, target, candidates, candidateQ, selection, queue, batch,
                   patch, outcomes, heard>>

(***************************************************************************)
(* The dialog: candidates and selection                                    *)
(***************************************************************************)
(* The effect of the candidate list runs for query q. *)
LoadCandidates(q) ==
    /\ RoomToRead
    /\ candidateQ' = q
    /\ candidates' = Cache("loading", NoVersions)
    /\ reads' = LeftCandidates(reads) \union {Read("candidates", Unbound, q)}

OpenBinding(i) ==
    /\ target = Unbound
    /\ target' = i
    /\ LoadCandidates("")
    /\ UNCHANGED <<ips, boundIps, boundView, selection, queue, batch, patch, outcomes, heard>>

(* Closing, off while submitting, unmounts the dialog and its state. *)
CloseBinding ==
    /\ target # Unbound /\ ~Submitting
    /\ target' = Unbound
    /\ reads' = LeftCandidates(reads)
    /\ candidates' = Cache("loading", NoVersions) /\ candidateQ' = ""
    /\ selection' = NoVersions /\ batch' = NoVersions
    /\ outcomes' = [a \in Addresses |-> "none"]
    /\ UNCHANGED <<ips, boundIps, boundView, queue, patch, heard>>

(* Another search or page, and the retry after an error; the selection     *)
(* stays.  Only the retry is possible while submitting.                    *)
SearchCandidates(q) ==
    /\ target # Unbound
    /\ \/ ~Submitting /\ q # candidateQ
       \/ candidates.kind = "error" /\ q = candidateQ
    /\ LoadCandidates(q)
    /\ UNCHANGED <<ips, boundIps, boundView, target, selection, queue, batch, patch, outcomes, heard>>

(* Mutant: the version is not kept with the selection. *)
ToggleCandidateUnversioned(a) ==
    /\ target # Unbound /\ ~Submitting
    /\ candidates.kind = "success" /\ candidates.versions[a] > 0
    /\ selection' = [selection EXCEPT ![a] = IF @ > 0 THEN 0 ELSE ips[a].version]
    /\ UNCHANGED <<ips, boundIps, boundView, target, candidates, candidateQ, queue, batch,
                   patch, outcomes, reads, heard>>

(* toggleCandidate: selected with the version its row shows. *)
ToggleCandidate(a) ==
    /\ target # Unbound /\ ~Submitting
    /\ candidates.kind = "success" /\ candidates.versions[a] > 0
    /\ selection' = [selection EXCEPT ![a] = IF @ > 0 THEN 0 ELSE candidates.versions[a]]
    /\ UNCHANGED <<ips, boundIps, boundView, target, candidates, candidateQ, queue, batch,
                   patch, outcomes, reads, heard>>

(***************************************************************************)
(* The submission: one PATCH after the other                               *)
(***************************************************************************)
SubmitBindings ==
    /\ target # Unbound /\ ~Submitting
    /\ selection # NoVersions
    /\ queue' = Ordered(selection)
    /\ batch' = selection
    /\ outcomes' = [a \in Addresses |-> "none"]
    /\ patch' = [state |-> "sent", ok |-> FALSE]
    /\ UNCHANGED <<ips, boundIps, boundView, target, candidates, candidateQ, selection, reads, heard>>

(* The server binds at the version selected; the answer may be lost. *)
ServerBinds ==
    /\ patch.state = "sent"
    /\ LET a == Head(queue)
           applies == ips[a].live /\ ips[a].version = selection[a] /\ ips[a].version < LastWrite
       IN \E ok, commits \in BOOLEAN :
             /\ ok => commits
             /\ commits => applies
             /\ ips' = IF commits
                       THEN [ips EXCEPT ![a].iface = target, ![a].version = @ + 1]
                       ELSE ips
             /\ patch' = [state |-> "answered", ok |-> ok]
    /\ UNCHANGED <<boundIps, boundView, target, candidates, candidateQ, selection, queue, batch,
                   outcomes, reads, heard>>

(* Mutant: every answer counts as a success. *)
OutcomeOfAny(ok) == "ok"

OutcomeOf(ok) == IF ok THEN "ok" ELSE "failed"

(* Mutant: the one that failed stays at the head of the queue. *)
BindingAnswerRetries ==
    /\ patch.state = "answered"
    /\ Len(queue) > 1
    /\ outcomes' = [outcomes EXCEPT ![Head(queue)] = OutcomeOf(patch.ok)]
    /\ queue' = IF patch.ok THEN Tail(queue) ELSE queue
    /\ patch' = [state |-> "sent", ok |-> FALSE]
    /\ UNCHANGED <<ips, boundIps, boundView, target, candidates, candidateQ, selection, batch,
                   reads, heard>>

(* One failed does not stop the rest, none is tried again.  After the last *)
(* the selection is cleared and, if one succeeded, the candidates are      *)
(* loaded again, the cached addresses of the interface are dropped and,    *)
(* when they are in view, loaded again (handleBindingCompleted).           *)
BindingAnswer ==
    /\ patch.state = "answered"
    /\ Len(queue) > 1
    /\ outcomes' = [outcomes EXCEPT ![Head(queue)] = OutcomeOf(patch.ok)]
    /\ queue' = Tail(queue)
    /\ patch' = [state |-> "sent", ok |-> FALSE]
    /\ UNCHANGED <<ips, boundIps, boundView, target, candidates, candidateQ, selection, batch,
                   reads, heard>>

Reloads(ok) ==
    IF ~ok THEN UNCHANGED <<boundIps, candidates, reads>>
    ELSE /\ candidates' = Cache("loading", NoVersions)
         /\ boundIps' = [boundIps EXCEPT ![target] =
                            Cache(IF boundView = target THEN "loading" ELSE "none", NoVersions)]
         /\ reads' = LeftCandidates(reads) \union {Read("candidates", Unbound, candidateQ)}
                        \union IF boundView = target THEN {Read("bound", target, "")} ELSE {}

LastBindingAnswer ==
    /\ patch.state = "answered"
    /\ Len(queue) = 1
    /\ LET results == [outcomes EXCEPT ![Head(queue)] = OutcomeOf(patch.ok)]
       IN /\ outcomes' = results
          /\ Reloads(\E a \in Addresses : results[a] = "ok")
          /\ heard' = [heard EXCEPT ![target] = [a \in Addresses |->
                          IF results[a] = "ok" THEN selection[a] + 1 ELSE @[a]]]
    /\ queue' = <<>> /\ patch' = NoPatch
    /\ selection' = NoVersions
    /\ UNCHANGED <<ips, boundView, target, candidateQ, batch>>

(***************************************************************************)
(* The answers to the GETs, and the others                                 *)
(***************************************************************************)
ServerLists(r) ==
    /\ ~r.done
    /\ reads' = (reads \ {r}) \union
          {[r EXCEPT !.done = TRUE, !.found = IF r.kind = "bound" THEN VersionsOf(ips)
                                              ELSE CandidateQuery(r.q, ips)]}
    /\ UNCHANGED <<ips, boundIps, boundView, target, candidates, candidateQ, selection, queue,
                   batch, patch, outcomes, heard>>

BoundIpsArrive(r) ==
    /\ r.kind = "bound" /\ r.done
    /\ reads' = reads \ {r}
    /\ boundIps' = [boundIps EXCEPT ![r.iface] = Cache("success", r.found)]
    /\ UNCHANGED <<ips, boundView, target, candidates, candidateQ, selection, queue, batch,
                   patch, outcomes, heard>>

CandidatesArrive(r) ==
    /\ r.kind = "candidates" /\ r.done
    /\ reads' = reads \ {r}
    /\ candidates' = IF r.cancelled THEN candidates ELSE Cache("success", r.found)
    /\ UNCHANGED <<ips, boundIps, boundView, target, candidateQ, selection, queue, batch,
                   patch, outcomes, heard>>

ReadFails(r) ==
    /\ reads' = reads \ {r}
    /\ IF r.kind = "bound"
       THEN /\ boundIps' = [boundIps EXCEPT ![r.iface] = Cache("error", NoVersions)]
            /\ UNCHANGED candidates
       ELSE /\ candidates' = IF r.cancelled THEN candidates ELSE Cache("error", NoVersions)
            /\ UNCHANGED boundIps
    /\ UNCHANGED <<ips, boundView, target, candidateQ, selection, queue, batch, patch, outcomes, heard>>

(* Others bind an address, unbind, edit or release it. *)
OthersWrite(a) ==
    /\ ips[a].live /\ ips[a].version < LastWrite - 1
    /\ \/ \E i \in {ips[a].iface, Elsewhere, Unbound} :
             ips' = [ips EXCEPT ![a].iface = i, ![a].version = @ + 1]
       \/ ips' = [ips EXCEPT ![a].live = FALSE, ![a].version = @ + 1]
    /\ UNCHANGED <<boundIps, boundView, target, candidates, candidateQ, selection, queue, batch,
                   patch, outcomes, reads, heard>>

BindStep ==
    \/ \E i \in Ifaces : ToggleBoundIps(i) \/ OpenBinding(i)
    \/ RefreshBoundIps \/ CloseBinding
    \/ \E q \in Queries : SearchCandidates(q)
    \/ \E a \in Addresses : ToggleCandidate(a)
    \/ SubmitBindings
ReadStep == \E r \in reads : BoundIpsArrive(r) \/ CandidatesArrive(r) \/ ReadFails(r)
PatchStep == ServerBinds \/ BindingAnswer \/ LastBindingAnswer

BindNext ==
    \/ BindStep \/ ReadStep \/ PatchStep
    \/ \E r \in reads : ServerLists(r)
    \/ \E a \in Contested : OthersWrite(a)

BindSpec == BindInit /\ [][BindNext]_bindVars

(* Requests are answered, or given up by the browser. *)
BoundReads(i) == {r \in reads : r.kind = "bound" /\ r.iface = i}
BindFairness ==
    /\ WF_bindVars(PatchStep)
    /\ \A i \in Ifaces :
          /\ WF_bindVars(\E r \in BoundReads(i) : ServerLists(r))
          /\ WF_bindVars(\E r \in BoundReads(i) : BoundIpsArrive(r) \/ ReadFails(r))

(***************************************************************************)
(* Properties                                                              *)
(***************************************************************************)
(* The types of the panel's and the dialog's state. *)
BindTypeOK ==
    /\ ips \in [Addresses -> Bindable]
    /\ boundIps \in [Ifaces -> [kind : {"none", "loading", "success", "error"}, versions : Versions]]
    /\ boundView \in Ifaces \union {Unbound} /\ target \in Ifaces \union {Unbound}
    /\ candidates \in [kind : {"loading", "success", "error"}, versions : Versions]
    /\ candidateQ \in Queries
    /\ selection \in Versions
    /\ queue \in Seq(Addresses) /\ batch \in Versions
    /\ patch \in [state : {"none", "sent", "answered"}, ok : BOOLEAN]
    /\ outcomes \in [Addresses -> {"none", "ok", "failed"}]
    /\ heard \in [Ifaces -> Versions]

(* Binding takes an address only while it is unbound and not released: one *)
(* that others bound, moved or released since it was selected is not taken *)
(* from them, although the server would move it at its current version.    *)
NeverSteals ==
    [][patch.state = "sent" /\ ips' # ips /\ patch' # patch
          => ips[Head(queue)].live /\ ips[Head(queue)].iface = Unbound]_bindVars

(* The results do not lie, neither those gathered so far nor those shown   *)
(* when the submission is over: an address reported as bound was bound to  *)
(* this interface at the version it was selected at, and still is unless   *)
(* someone wrote it since; and what is shown has a result for each address *)
(* submitted and for no other.  Of a failure nothing is said: its answer   *)
(* may have been lost after the server bound the address.                  *)
TruthfulResults ==
    /\ \A a \in Addresses : outcomes[a] = "ok" =>
          /\ ips[a].version > batch[a]
          /\ ips[a].version = batch[a] + 1 => ips[a].iface = target /\ ips[a].live
    /\ ~Submitting => \A a \in Addresses : outcomes[a] # "none" <=> batch[a] > 0

(* A submission ends, whatever becomes of its requests, and so does the    *)
(* loading of a bound list.                                                *)
BindingSettles ==
    /\ Submitting ~> ~Submitting
    /\ \A i \in Ifaces : boundIps[i].kind = "loading" ~> boundIps[i].kind # "loading"

(* DR-345: once addresses were bound, the list of the interface's          *)
(* addresses is fetched again: it never shows what it was before.          *)
BoundListFresh ==
    \A i \in Ifaces, a \in Addresses :
        boundIps[i].kind = "success" => boundIps[i].versions[a] >= heard[i][a]
=============================================================================
