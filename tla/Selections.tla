----------------------------- MODULE Selections -----------------------------
(***************************************************************************)
(* The dependent selects of the web frontend's forms: a parent is chosen   *)
(* or given, the children offered under it are loaded by an effect, one is *)
(* chosen (src/frontend/src/components).  The parent, the search text and  *)
(* a reload button start a load; the answers come in any order; others     *)
(* move and delete children meanwhile.  A load of several requests is one  *)
(* here: it succeeds when all did, and what it offers is only a hint, which *)
(* the server checks again.                                                *)
(***************************************************************************)
EXTENDS Naturals, FiniteSets

CONSTANTS
    Parents,    \* networks, Resources, services or clusters
    LastChild,  \* the children, in the order they are listed
    Searches,   \* bound: the children that are searched for, each by its name
    Movable,    \* bound: the children others move and delete
    NoChoice,   \* nothing chosen
    OfferSize,  \* page_size: at most this many are offered
    Cascades,   \* the selects a behaviour may be about
    MaxAsks     \* bound: loads in flight

Children == 1 .. LastChild
NoSearch == 0

ASSUME SelectionsAssumption ==
    /\ Parents # {} /\ NoChoice \notin Parents \union Children
    /\ Searches \subseteq Children /\ Movable \subseteq Children
    /\ LastChild \in Nat /\ OfferSize \in Nat \ {0} /\ MaxAsks \in Nat \ {0}

VARIABLES
    cascade,    \* the select
    parent,     \* what is chosen or given above it
    child,      \* what is chosen in it
    pinned,     \* the child of the object being edited, always offered
    itself,     \* the object being edited, never offered
    searchInput,     \* the search typed, with the parent it was typed under
    committedInput,  \* the search that loads, likewise
    offers,     \* options: idle, loading, success with the children, error
    asks,       \* loads in flight, with their cancelled flag
    belongs,    \* the parent of each child at the server; NoChoice: deleted
    was         \* history: the parents each child was under while the form was open

selectVars == <<cascade, parent, child, pinned, itself, searchInput, committedInput, offers, asks,
                belongs, was>>

------------------------------------------------------------------------------
(* What each effect loads, and what each select allows.  searches: it has  *)
(* a search field; retries: a button loads again after an error.  chooses: *)
(* the parent is chosen in the same form; pins, excludes: the current child *)
(* and the edited object itself; opensOn: when the select is enabled.      *)
EffectLoads(searches, retries) == [searches |-> searches, retries |-> retries]
Selects(chooses, pins, excludes, opensOn) ==
    [chooses |-> chooses, pins |-> pins, excludes |-> excludes, opensOn |-> opensOn]

(* The AUTO pools of the network an address is allocated in. *)
PoolLoads == EffectLoads(FALSE, FALSE)
PoolSelects == Selects(TRUE, FALSE, FALSE, {"success", "error"})
(* The interfaces of the Resource an address is bound to. *)
InterfaceLoads == EffectLoads(FALSE, FALSE)
InterfaceSelects == Selects(TRUE, TRUE, FALSE, {"loading", "success", "error"})
(* The bound addresses of the Resource of an endpoint's service. *)
AddressLoads == EffectLoads(FALSE, TRUE)
AddressSelects == Selects(TRUE, FALSE, FALSE, {"success"})
(* The interfaces an interface of the same Resource may be under. *)
ParentLoads == EffectLoads(FALSE, TRUE)
ParentSelects == Selects(FALSE, TRUE, TRUE, {"success"})
(* The hosts of the cluster a machine is created in, and those of the one  *)
(* an existing machine is in, by search; likewise the clusters.            *)
CandidateLoads == EffectLoads(TRUE, TRUE)
HostSelects == Selects(TRUE, FALSE, FALSE, {"idle", "loading", "success", "error"})
PinnedHostSelects == Selects(FALSE, TRUE, FALSE, {"idle", "loading", "success", "error"})
ClusterSelects == Selects(FALSE, FALSE, FALSE, {"idle", "loading", "success", "error"})

Cascade ==
    [pool |-> [loads |-> PoolLoads, selects |-> PoolSelects],
     interface |-> [loads |-> InterfaceLoads, selects |-> InterfaceSelects],
     address |-> [loads |-> AddressLoads, selects |-> AddressSelects],
     parent |-> [loads |-> ParentLoads, selects |-> ParentSelects],
     host |-> [loads |-> CandidateLoads, selects |-> HostSelects],
     pinned_host |-> [loads |-> CandidateLoads, selects |-> PinnedHostSelects],
     cluster |-> [loads |-> CandidateLoads, selects |-> ClusterSelects]]

Its == Cascade[cascade].selects
ItsLoads == Cascade[cascade].loads

------------------------------------------------------------------------------
(* A search counts under the parent it was typed under, and comes back with *)
(* it: nothing clears it.                                                  *)
Scoped(p, q) == [context |-> p, text |-> q]
In(scoped, p) == IF scoped.context = p THEN scoped.text ELSE NoSearch
Searched == In(committedInput, parent)

NothingOffered == [kind |-> "idle", of |-> NoChoice, search |-> NoSearch, items |-> {}]
Offering(kind, p, q, items) == [kind |-> kind, of |-> p, search |-> q, items |-> items]
Ask(p, q) == [of |-> p, search |-> q, done |-> FALSE, items |-> {}, cancelled |-> FALSE]

(* cancelled = true in the cleanup, or a newer epoch. *)
Dropped(requests) == {[a EXCEPT !.cancelled = TRUE] : a \in requests}

(* The effect runs for a parent and a search text. *)
LoadOffers(p, q) ==
    IF p = NoChoice
    THEN offers' = NothingOffered /\ asks' = Dropped(asks)
    ELSE offers' = Offering("loading", p, q, {}) /\ asks' = Dropped(asks) \union {Ask(p, q)}

SelectInit ==
    /\ cascade \in Cascades
    /\ belongs \in [Children -> Parents]
    /\ pinned \in IF Its.pins THEN Children \union {NoChoice} ELSE {NoChoice}
    /\ itself \in IF Its.excludes THEN (Children \ {pinned}) \union {NoChoice} ELSE {NoChoice}
    /\ parent \in IF pinned # NoChoice THEN {belongs[pinned]}
                  ELSE IF Its.chooses THEN {NoChoice} ELSE Parents
    /\ child = pinned
    /\ searchInput = Scoped(parent, NoSearch) /\ committedInput = Scoped(parent, NoSearch)
    /\ was = [c \in Children |-> {belongs[c]}]
    /\ offers = IF parent = NoChoice THEN NothingOffered ELSE Offering("loading", parent, NoSearch, {})
    /\ asks = IF parent = NoChoice THEN {} ELSE {Ask(parent, NoSearch)}

(* Mutant: the child stays. *)
ChangeParentKeeps(p) ==
    /\ Its.chooses /\ p # parent /\ Cardinality(asks) < MaxAsks
    /\ parent' = p
    /\ LoadOffers(p, In(committedInput, p))
    /\ UNCHANGED <<cascade, child, pinned, itself, searchInput, committedInput, belongs, was>>

(* onChange of the parent: the child is no longer valid and is cleared; a  *)
(* search loaded for under the same parent before is searched again.       *)
ChangeParent(p) ==
    /\ Its.chooses /\ p # parent /\ Cardinality(asks) < MaxAsks
    /\ parent' = p
    /\ child' = NoChoice
    /\ LoadOffers(p, In(committedInput, p))
    /\ UNCHANGED <<cascade, pinned, itself, searchInput, committedInput, belongs, was>>

(* onSearch *)
TypeSearch(q) ==
    /\ ItsLoads.searches /\ q # In(searchInput, parent)
    /\ searchInput' = Scoped(parent, q)
    /\ UNCHANGED <<cascade, parent, child, pinned, itself, committedInput, offers, asks, belongs, was>>

(* 300 ms after the last keystroke, or after the parent changed, what is   *)
(* typed is searched for.                                                  *)
CommitSearch ==
    /\ ItsLoads.searches /\ In(searchInput, parent) # Searched /\ Cardinality(asks) < MaxAsks
    /\ committedInput' = Scoped(parent, In(searchInput, parent))
    /\ LoadOffers(parent, In(searchInput, parent))
    /\ UNCHANGED <<cascade, parent, child, pinned, itself, searchInput, belongs, was>>

RetryOffers ==
    /\ ItsLoads.retries /\ offers.kind = "error" /\ Cardinality(asks) < MaxAsks
    /\ LoadOffers(parent, Searched)
    /\ UNCHANGED <<cascade, parent, child, pinned, itself, searchInput, committedInput, belongs, was>>

(* The options of the select. *)
Offered ==
    (IF offers.kind = "success" THEN offers.items \ {itself} ELSE {})
        \union (IF Its.pins THEN {pinned} ELSE {}) \union {NoChoice}

Choose(c) ==
    /\ parent # NoChoice
    /\ offers.kind \in Its.opensOn
    /\ c \in Offered /\ c # child
    /\ child' = c
    /\ UNCHANGED <<cascade, parent, pinned, itself, searchInput, committedInput, offers, asks, belongs, was>>

(* The first page of the children under the parent that match. *)
Matching(p, q) == {c \in Children : belongs[c] = p /\ q \in {NoSearch, c}}
FirstPage(found) == {c \in found : Cardinality({d \in found : d < c}) < OfferSize}

ServerOffers(a) ==
    /\ ~a.done
    /\ asks' = (asks \ {a}) \union {[a EXCEPT !.done = TRUE,
                    !.items = IF cascade = "cluster" THEN FirstPage({c \in Children :
                                    belongs[c] # NoChoice /\ a.search \in {NoSearch, c}})
                              ELSE FirstPage(Matching(a.of, a.search))]}
    /\ UNCHANGED <<cascade, parent, child, pinned, itself, searchInput, committedInput, offers, belongs, was>>

OffersArrive(a) ==
    /\ a.done
    /\ asks' = asks \ {a}
    /\ offers' = IF a.cancelled THEN offers ELSE Offering("success", a.of, a.search, a.items)
    /\ UNCHANGED <<cascade, parent, child, pinned, itself, searchInput, committedInput, belongs, was>>

OffersFail(a) ==
    /\ asks' = asks \ {a}
    /\ offers' = IF a.cancelled THEN offers ELSE [offers EXCEPT !.kind = "error"]
    /\ UNCHANGED <<cascade, parent, child, pinned, itself, searchInput, committedInput, belongs, was>>

(* Others move or delete a child. *)
OthersMove(c) ==
    /\ \E p \in Parents \union {NoChoice} :
          /\ belongs' = [belongs EXCEPT ![c] = p]
          /\ was' = [was EXCEPT ![c] = @ \union {p}]
    /\ UNCHANGED <<cascade, parent, child, pinned, itself, searchInput, committedInput, offers, asks>>

SelectStep ==
    \/ \E p \in Parents \union {NoChoice} : ChangeParent(p)
    \/ \E q \in Searches \union {NoSearch} : TypeSearch(q)
SelectNext ==
    \/ SelectStep \/ CommitSearch \/ RetryOffers
    \/ \E c \in Children \union {NoChoice} : Choose(c)
    \/ \E a \in asks : ServerOffers(a) \/ OffersArrive(a) \/ OffersFail(a)
    \/ \E c \in Movable : OthersMove(c)

SelectSpec == SelectInit /\ [][SelectNext]_selectVars

(* Requests are answered, or given up by the browser. *)
SelectFairness ==
    /\ WF_selectVars(\E a \in asks : ServerOffers(a))
    /\ WF_selectVars(\E a \in asks : OffersArrive(a) \/ OffersFail(a))

------------------------------------------------------------------------------
(* The types of the select's state. *)
SelectTypeOK ==
    /\ cascade \in Cascades
    /\ parent \in Parents \union {NoChoice}
    /\ {child, pinned, itself} \subseteq Children \union {NoChoice}
    /\ {searchInput, committedInput} \subseteq
          [context : Parents \union {NoChoice}, text : Searches \union {NoSearch}]
    /\ offers.kind \in {"idle", "loading", "success", "error"} /\ offers.items \subseteq Children
    /\ belongs \in [Children -> Parents \union {NoChoice}]
    /\ was \in [Children -> SUBSET (Parents \union {NoChoice})]

(* What is offered was asked for under the parent and for the search that  *)
(* stand in the form, whatever order the answers come in; and the child    *)
(* that would be sent is one of that parent's, or was while the form was   *)
(* open, before others moved it.  One exception is the code's own: the     *)
(* interface an address is bound to is offered under every Resource, as    *)
(* the binding of now, and choosing it changes nothing.  Clusters are      *)
(* chosen under no parent.                                                 *)
OffersCurrent ==
    /\ offers.kind = "success" => offers.of = parent /\ offers.search = Searched
    /\ child \notin {NoChoice, pinned} /\ cascade # "cluster" => parent \in was[child]

(* Unless the user keeps changing the parent or the search, the options do *)
(* not stay loading.                                                       *)
OffersSettle ==
    []<>(offers.kind # "loading") \/ []<><<SelectStep>>_selectVars
=============================================================================
