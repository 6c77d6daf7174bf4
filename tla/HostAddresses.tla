--------------------------- MODULE HostAddresses ---------------------------
(***************************************************************************)
(* The IP Addresses area of a Resource's detail                            *)
(* (src/frontend/src/components/ResourceIpAddressesPanel.tsx): an effect   *)
(* lists the Resource's interfaces page by page, then a few workers load   *)
(* the addresses of each, and one summary is shown.  Interfaces are        *)
(* created and deleted by others while it runs.  They are numbered in the  *)
(* order of their names, which is the order of the list.                   *)
(***************************************************************************)
EXTENDS Naturals, Sequences, FiniteSets, SequencesExt

CONSTANTS
    LastInterface,  \* interfaces are 1 .. LastInterface
    PageSize,       \* RESOURCE_INTERFACES_PAGE_SIZE
    MaxPages,       \* RESOURCE_INTERFACES_MAX_PAGES
    Concurrency,    \* RESOURCE_IP_LOAD_CONCURRENCY
    MaxChanges      \* bound: interfaces others create or delete

ASSUME HostAddressesAssumption ==
    {LastInterface, PageSize, MaxPages, Concurrency} \subseteq Nat \ {0} /\ MaxChanges \in Nat

VARIABLES
    live,       \* the server's interfaces of the Resource
    steady,     \* those there since the run began, if none was deleted since
    phase,      \* of the run: listing, loading, ended
    page,       \* the page being listed
    listed,     \* interfaces: the items of the pages so far
    total,      \* total of the last page
    nextIndex,  \* the next position a worker takes, shared by all
    busy,       \* worker -> the position it is loading, 0: it returned
    succeeded, failures,  \* the outcomes, by position
    shown,      \* state of the panel
    unmounted,  \* the effect was cleaned up
    changes     \* how often others have changed the interfaces

hostVars == <<live, steady, phase, page, listed, total, nextIndex, busy,
              succeeded, failures, shown, unmounted, changes>>

AllInterfaces == 1 .. LastInterface
LoadWorkers == 1 .. Concurrency
Idle == [w \in LoadWorkers |-> 0]
Least(a, b) == IF a < b THEN a ELSE b
Showing(kind, truncated) == [kind |-> kind, truncated |-> truncated]

(* The server's page p: offset (p - 1) * PageSize in the order of names. *)
Rank(i) == Cardinality({j \in live : j <= i})
AtRank(r) == CHOOSE i \in live : Rank(i) = r
PageOf(p) ==
    LET first == (p - 1) * PageSize
        rest == IF first < Cardinality(live) THEN Cardinality(live) - first ELSE 0
    IN [k \in 1 .. Least(PageSize, rest) |-> AtRank(first + k)]

(* A run of the effect begins. *)
Begin ==
    /\ phase' = "listing" /\ page' = 1 /\ listed' = <<>> /\ total' = 0
    /\ nextIndex' = 1 /\ busy' = Idle /\ succeeded' = {} /\ failures' = {}
    /\ shown' = Showing("loading", FALSE)
    /\ steady' = live

HostInit ==
    /\ live \in SUBSET AllInterfaces
    /\ steady = live
    /\ phase = "listing" /\ page = 1 /\ listed = <<>> /\ total = 0
    /\ nextIndex = 1 /\ busy = Idle /\ succeeded = {} /\ failures = {}
    /\ shown = Showing("loading", FALSE)
    /\ unmounted = FALSE
    /\ changes = 0

(* The workers start together: each takes a position at once. *)
StartWorkers(items) ==
    LET count == Least(Concurrency, Len(items))
    IN /\ phase' = "loading"
       /\ busy' = [w \in LoadWorkers |-> IF w <= count THEN w ELSE 0]
       /\ nextIndex' = count + 1

(* Mutant: only the first page is asked for. *)
ListPageArrivesOnce ==
    /\ phase = "listing"
    /\ listed' = PageOf(page)
    /\ total' = Len(listed')
    /\ StartWorkers(listed')
    /\ UNCHANGED <<live, steady, page, succeeded, failures, shown, unmounted, changes>>

(* A page arrives: the next is asked for until total is covered, a page is *)
(* empty or the cap is reached.                                            *)
ListPageArrives ==
    /\ phase = "listing"
    /\ LET items == PageOf(page)
           so_far == listed \o items
           covered == Len(so_far) >= Cardinality(live)
       IN IF unmounted
          THEN /\ phase' = "ended"
               /\ UNCHANGED <<page, listed, total, nextIndex, busy>>
          ELSE /\ listed' = so_far
               /\ total' = Cardinality(live)
               /\ IF items = <<>> \/ covered \/ page >= MaxPages
                  THEN StartWorkers(so_far) /\ UNCHANGED page
                  ELSE page' = page + 1 /\ UNCHANGED <<phase, nextIndex, busy>>
    /\ UNCHANGED <<live, steady, succeeded, failures, shown, unmounted, changes>>

ListPageFails ==
    /\ phase = "listing"
    /\ phase' = "ended"
    /\ shown' = IF unmounted THEN shown ELSE Showing("error", FALSE)
    /\ UNCHANGED <<live, steady, page, listed, total, nextIndex, busy,
                   succeeded, failures, unmounted, changes>>

(* A worker takes the next position, or returns. *)
TakeNext(w) ==
    IF unmounted \/ nextIndex > Len(listed)
    THEN /\ busy' = [busy EXCEPT ![w] = 0]
         /\ nextIndex' = IF unmounted THEN nextIndex ELSE nextIndex + 1
    ELSE /\ busy' = [busy EXCEPT ![w] = nextIndex]
         /\ nextIndex' = nextIndex + 1

AddressesArrive(w) ==
    /\ phase = "loading" /\ busy[w] # 0
    /\ succeeded' = IF unmounted THEN succeeded ELSE succeeded \union {busy[w]}
    /\ TakeNext(w)
    /\ UNCHANGED <<live, steady, phase, page, listed, total, failures, shown, unmounted, changes>>

(* One failing request does not stop the others. *)
AddressesFail(w) ==
    /\ phase = "loading" /\ busy[w] # 0
    /\ failures' = IF unmounted THEN failures ELSE failures \union {busy[w]}
    /\ TakeNext(w)
    /\ UNCHANGED <<live, steady, phase, page, listed, total, succeeded, shown, unmounted, changes>>

(* Promise.all: every worker returned.  All failed is an error; otherwise  *)
(* the rows, the failures and what was cut off are shown.                  *)
Summarise ==
    /\ phase = "loading" /\ busy = Idle
    /\ phase' = "ended"
    /\ shown' = IF unmounted THEN shown
                ELSE IF listed # <<>> /\ Cardinality(failures) = Len(listed)
                THEN Showing("error", FALSE)
                ELSE Showing("success", total > Len(listed))
    /\ UNCHANGED <<live, steady, page, listed, total, nextIndex, busy,
                   succeeded, failures, unmounted, changes>>

(* The retry of an error, or of a list with failures, loads all again. *)
RetryAll ==
    /\ ~unmounted
    /\ shown.kind = "error" \/ (shown.kind = "success" /\ failures # {})
    /\ Begin
    /\ UNCHANGED <<live, unmounted, changes>>

LeaveHost ==
    /\ ~unmounted
    /\ unmounted' = TRUE
    /\ UNCHANGED <<live, steady, phase, page, listed, total, nextIndex, busy,
                   succeeded, failures, shown, changes>>

(* Someone creates or deletes an interface of the Resource. *)
ChangeInterface(i) ==
    /\ changes < MaxChanges
    /\ changes' = changes + 1
    /\ live' = IF i \in live THEN live \ {i} ELSE live \union {i}
    /\ steady' = IF i \in live THEN {} ELSE steady
    /\ UNCHANGED <<phase, page, listed, total, nextIndex, busy, succeeded, failures, shown, unmounted>>

HostRun ==
    \/ ListPageArrives \/ ListPageFails \/ Summarise
    \/ \E w \in LoadWorkers : AddressesArrive(w) \/ AddressesFail(w)

HostNext ==
    \/ HostRun
    \/ RetryAll \/ LeaveHost
    \/ \E i \in AllInterfaces : ChangeInterface(i)

HostSpec == HostInit /\ [][HostNext]_hostVars

HostFairness == WF_hostVars(HostRun)

(***************************************************************************)
(* Properties                                                              *)
(***************************************************************************)
(* The types of the run's state. *)
HostTypeOK ==
    /\ live \subseteq AllInterfaces /\ steady \subseteq live
    /\ phase \in {"listing", "loading", "ended"}
    /\ page \in 1 .. MaxPages
    /\ listed \in Seq(AllInterfaces)
    /\ total \in 0 .. LastInterface
    /\ nextIndex \in Nat
    /\ busy \in [LoadWorkers -> Nat]
    /\ succeeded \subseteq DOMAIN listed /\ failures \subseteq DOMAIN listed
    /\ shown \in [kind : {"loading", "success", "error"}, truncated : BOOLEAN]
    /\ unmounted \in BOOLEAN
    /\ changes \in 0 .. MaxChanges

(* DR-383, as far as it holds: unless an interface is deleted while they   *)
(* are listed, none that was there is silently left out, however many are  *)
(* created; and if nothing changes, each is listed once and no other.      *)
(* (A deletion moves the interfaces behind it one position to the front,   *)
(* and one may move from the next page to a page already read.)  And each  *)
(* that was listed is among the rows shown or among the failures.          *)
CompleteUnlessDeleted ==
    shown.kind = "success" =>
        /\ succeeded \union failures = DOMAIN listed /\ succeeded \intersect failures = {}
        /\ shown.truncated \/ steady \subseteq ToSet(listed)
        /\ changes = 0 => IsInjective(listed) /\ ToSet(listed) \subseteq live

(* The panel does not load forever. *)
HostSettles == shown.kind = "loading" ~> unmounted \/ shown.kind # "loading"
=============================================================================
