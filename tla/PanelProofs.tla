---------------------------- MODULE PanelProofs ----------------------------
(* Proofs about the dependent selects, the import panels, the panel of the *)
(* authorizations, the forms and the session: what they show and what they *)
(* send belongs to what the user sees, whatever answers come late, twice   *)
(* requested or not at all; a batch of rows is created as a whole or not   *)
(* at all; a form stores what was typed, and only a login that was         *)
(* verified before the account was disabled gives it a session again.      *)
EXTENDS Selections, Imports, Authorizations, Forms, Session, FiniteSetTheorems, TLAPS

-----------------------------------------------------------------------------
(* The dependent selects.                                                  *)

AskRecord == [of : Parents \union {NoChoice}, search : Searches \union {NoSearch},
              done : BOOLEAN, items : SUBSET Children, cancelled : BOOLEAN]
OffersRecord == [kind : {"idle", "loading", "success", "error"}, of : Parents \union {NoChoice},
                 search : Searches \union {NoSearch}, items : SUBSET Children]
ScopedRecord == [context : Parents \union {NoChoice}, text : Searches \union {NoSearch}]
Histories == [Children -> SUBSET (Parents \union {NoChoice})]

\* A load that counts is one for the parent and the search of now.
CurrentAsks == \A a \in asks : ~a.cancelled => a.of = parent /\ a.search = Searched

\* What was found for a parent was under it.
Owned(found) == \A c \in found.items : found.of \in was[c]

ChildrenOwned ==
    /\ \A c \in Children : belongs[c] \in was[c]
    /\ cascade # "cluster" => Owned(offers) /\ \A a \in asks : Owned(a)

SelectIInv ==
    /\ asks \subseteq AskRecord
    /\ parent \in Parents \union {NoChoice} /\ searchInput \in ScopedRecord /\ committedInput \in ScopedRecord
    /\ child \in Children \union {NoChoice} /\ pinned \in Children \union {NoChoice}
    /\ belongs \in [Children -> Parents \union {NoChoice}] /\ was \in Histories
    /\ offers \in OffersRecord
    /\ CurrentAsks
    /\ ChildrenOwned
    /\ OffersCurrent

\* A search is remembered with its parent, and counts under no other.
LEMMA ScopedSearch ==
    ASSUME NEW p \in Parents \union {NoChoice}, NEW q \in Searches \union {NoSearch}
    PROVE  Scoped(p, q) \in ScopedRecord /\ In(Scoped(p, q), p) = q
  BY DEF Scoped, ScopedRecord, In

LEMMA SearchTyped ==
    ASSUME NEW p, NEW scoped \in ScopedRecord
    PROVE  In(scoped, p) \in Searches \union {NoSearch}
  BY DEF ScopedRecord, In

LEMMA DroppedAsks ==
    ASSUME asks \subseteq AskRecord
    PROVE  /\ Dropped(asks) \subseteq AskRecord /\ \A a \in Dropped(asks) : a.cancelled
           /\ \A a \in Dropped(asks) : \E b \in asks : a.of = b.of /\ a.items = b.items
  BY DEF Dropped, AskRecord

LEMMA AskTyped ==
    ASSUME NEW p \in Parents, NEW q \in Searches \union {NoSearch}
    PROVE  /\ Ask(p, q) \in AskRecord /\ Ask(p, q).of = p /\ Ask(p, q).search = q
           /\ Ask(p, q).items = {}
  BY DEF Ask, AskRecord

\* The effect leaves one load that counts, the one it starts.
LEMMA LoadOffersCurrent ==
    ASSUME asks \subseteq AskRecord, ChildrenOwned, NEW p \in Parents \union {NoChoice},
           NEW q \in Searches \union {NoSearch}, LoadOffers(p, q), UNCHANGED <<cascade, belongs, was>>
    PROVE  /\ asks' \subseteq AskRecord
           /\ \A a \in asks' : ~a.cancelled => a.of = p /\ a.search = q
           /\ offers'.kind # "success"
           /\ offers' \in OffersRecord
           /\ ChildrenOwned'
  <1>1. offers'.items = {}
    BY DEF LoadOffers, NothingOffered, Offering
  <1>2. CASE p = NoChoice
    <2>1. asks' = Dropped(asks)
      BY <1>2 DEF LoadOffers
    <2>2. ChildrenOwned'
      BY <1>1, <2>1, DroppedAsks DEF ChildrenOwned, Owned
    <2> QED BY <1>2, <2>1, <2>2, DroppedAsks DEF LoadOffers, NothingOffered, OffersRecord
  <1>3. CASE p # NoChoice
    <2>1. asks' = Dropped(asks) \union {Ask(p, q)} /\ offers' = Offering("loading", p, q, {})
      BY <1>3 DEF LoadOffers
    <2>2. Ask(p, q) \in AskRecord /\ Ask(p, q).of = p /\ Ask(p, q).search = q /\ Ask(p, q).items = {}
      BY <1>3, AskTyped
    <2>3. ChildrenOwned'
      BY <1>1, <2>1, <2>2, DroppedAsks DEF ChildrenOwned, Owned
    <2> QED BY <2>1, <2>2, <2>3, DroppedAsks DEF Offering, OffersRecord
  <1> QED BY <1>2, <1>3

LEMMA SelectInitially == SelectInit => SelectIInv
  <1> SUFFICES ASSUME SelectInit PROVE SelectIInv
    OBVIOUS
  <1>1. /\ pinned \in Children \union {NoChoice} /\ child = pinned
        /\ belongs \in [Children -> Parents \union {NoChoice}]
        /\ was \in Histories /\ \A c \in Children : belongs[c] \in was[c]
    BY DEF SelectInit, Histories
  <1>2. parent \in Parents \union {NoChoice}
    BY <1>1 DEF SelectInit
  <1>3. /\ searchInput \in ScopedRecord /\ committedInput \in ScopedRecord /\ Searched = NoSearch
        /\ NoSearch \in Searches \union {NoSearch}
    BY <1>2, ScopedSearch DEF SelectInit, Searched
  <1>4. asks \subseteq AskRecord /\ CurrentAsks /\ \A a \in asks : a.items = {}
    <2>1. CASE parent = NoChoice
      BY <2>1 DEF SelectInit, CurrentAsks
    <2>2. CASE parent # NoChoice
      <3>1. asks = {Ask(parent, NoSearch)} /\ parent \in Parents
        BY <1>2, <2>2 DEF SelectInit
      <3> QED BY <1>3, <3>1, AskTyped DEF CurrentAsks
    <2> QED BY <2>1, <2>2
  <1>5. offers \in OffersRecord /\ offers.items = {} /\ offers.kind # "success"
    BY <1>2, <1>3 DEF SelectInit, NothingOffered, Offering, OffersRecord
  <1>6. ChildrenOwned
    BY <1>1, <1>4, <1>5 DEF ChildrenOwned, Owned
  <1> QED BY <1>1, <1>2, <1>3, <1>4, <1>5, <1>6 DEF SelectIInv, OffersCurrent

\* The parent, the search or the reload button starts a load.
LEMMA LoadingKept ==
    ASSUME SelectIInv, NEW p \in Parents \union {NoChoice}, NEW q \in Searches \union {NoSearch},
           LoadOffers(p, q), parent' = p, committedInput' \in ScopedRecord, In(committedInput', p) = q,
           UNCHANGED <<cascade, pinned, searchInput, belongs, was>>,
           child' = NoChoice \/ (UNCHANGED <<child, parent>>)
    PROVE  SelectIInv'
  <1>1. Searched' = q
    BY DEF Searched
  <1>2. /\ asks' \subseteq AskRecord /\ offers' \in OffersRecord /\ offers'.kind # "success"
        /\ ChildrenOwned' /\ CurrentAsks'
    BY <1>1, LoadOffersCurrent DEF SelectIInv, CurrentAsks
  <1>3. OffersCurrent'
    BY <1>2 DEF SelectIInv, OffersCurrent
  <1> QED BY <1>2, <1>3 DEF SelectIInv

LEMMA SelectKept == SelectIInv /\ [SelectNext]_selectVars => SelectIInv'
  <1> SUFFICES ASSUME SelectIInv, [SelectNext]_selectVars PROVE SelectIInv'
    OBVIOUS
  <1>1. ASSUME NEW p \in Parents \union {NoChoice}, ChangeParent(p) PROVE SelectIInv'
    <2>1. In(committedInput, p) \in Searches \union {NoSearch}
      BY SearchTyped DEF SelectIInv
    <2> QED BY <1>1, <2>1, LoadingKept DEF SelectIInv, ChangeParent
  <1>2. ASSUME NEW q \in Searches \union {NoSearch}, TypeSearch(q) PROVE SelectIInv'
    <2>1. searchInput' \in ScopedRecord
      BY <1>2, ScopedSearch DEF SelectIInv, TypeSearch
    <2> QED BY <1>2, <2>1
         DEF SelectIInv, TypeSearch, CurrentAsks, OffersCurrent, ChildrenOwned, Owned, Searched
  <1>3. CASE CommitSearch
    <2>1. PICK q : q = In(searchInput, parent)
      OBVIOUS
    <2>2. q \in Searches \union {NoSearch}
      BY <2>1, SearchTyped DEF SelectIInv
    <2>3. committedInput' \in ScopedRecord /\ In(committedInput', parent) = q
      BY <1>3, <2>1, <2>2, ScopedSearch DEF SelectIInv, CommitSearch
    <2> QED BY <1>3, <2>1, <2>2, <2>3, LoadingKept DEF SelectIInv, CommitSearch
  <1>4. CASE RetryOffers
    <2>1. Searched \in Searches \union {NoSearch}
      BY SearchTyped DEF SelectIInv, Searched
    <2> QED BY <1>4, <2>1, LoadingKept DEF SelectIInv, RetryOffers, Searched
  <1>5. ASSUME NEW c \in Children \union {NoChoice}, Choose(c) PROVE SelectIInv'
    <2>1. c \notin {NoChoice, pinned} => offers.kind = "success" /\ c \in offers.items
      BY <1>5 DEF Choose, Offered
    <2>2. c \notin {NoChoice, pinned} /\ cascade # "cluster" => parent \in was[c]
      BY <2>1 DEF SelectIInv, OffersCurrent, ChildrenOwned, Owned
    <2> QED BY <1>5, <2>2
         DEF SelectIInv, Choose, CurrentAsks, OffersCurrent, ChildrenOwned, Owned, Searched
  <1>6. ASSUME NEW a \in asks, ServerOffers(a) PROVE SelectIInv'
    <2>1. PICK items \in SUBSET Children :
             /\ asks' = (asks \ {a}) \union {[a EXCEPT !.done = TRUE, !.items = items]}
             /\ cascade # "cluster" => \A c \in items : belongs[c] = a.of
      <3>1. CASE cascade = "cluster"
        <4>1. PICK found \in SUBSET Children :
                 asks' = (asks \ {a}) \union {[a EXCEPT !.done = TRUE, !.items = FirstPage(found)]}
          BY <1>6, <3>1 DEF ServerOffers
        <4>2. FirstPage(found) \in SUBSET Children
          BY DEF FirstPage
        <4> QED BY <3>1, <4>1, <4>2
      <3>2. CASE cascade # "cluster"
        <4>1. asks' = (asks \ {a}) \union
                 {[a EXCEPT !.done = TRUE, !.items = FirstPage(Matching(a.of, a.search))]}
          BY <1>6, <3>2 DEF ServerOffers
        <4>2. /\ FirstPage(Matching(a.of, a.search)) \in SUBSET Children
              /\ \A c \in FirstPage(Matching(a.of, a.search)) : belongs[c] = a.of
          BY DEF FirstPage, Matching
        <4> QED BY <4>1, <4>2
      <3> QED BY <3>1, <3>2
    <2>2. PICK b : b = [a EXCEPT !.done = TRUE, !.items = items]
      OBVIOUS
    <2>3. /\ b \in AskRecord /\ b.items = items
          /\ b.cancelled = a.cancelled /\ b.of = a.of /\ b.search = a.search
      BY <2>2 DEF SelectIInv, AskRecord
    <2>4. cascade # "cluster" => Owned(b)
      BY <2>1, <2>3 DEF SelectIInv, ChildrenOwned, Owned
    <2>5. UNCHANGED <<cascade, parent, child, pinned, searchInput, committedInput, offers, belongs, was>>
      BY <1>6 DEF ServerOffers
    <2>6. asks' \subseteq AskRecord /\ CurrentAsks'
      BY <2>1, <2>2, <2>3, <2>5 DEF SelectIInv, CurrentAsks, Searched
    <2>7. ChildrenOwned'
      BY <2>1, <2>2, <2>4, <2>5 DEF SelectIInv, ChildrenOwned, Owned
    <2> QED BY <2>5, <2>6, <2>7 DEF SelectIInv, OffersCurrent, Searched
  <1>7. ASSUME NEW a \in asks, OffersArrive(a) PROVE SelectIInv'
    <2>1. asks' = asks \ {a} /\ UNCHANGED <<cascade, parent, child, pinned, searchInput, committedInput, belongs, was>>
      BY <1>7 DEF OffersArrive
    <2>2. asks' \subseteq AskRecord /\ CurrentAsks'
      BY <2>1 DEF SelectIInv, CurrentAsks, Searched
    <2>3. CASE a.cancelled
      <3>1. offers' = offers
        BY <1>7, <2>3 DEF OffersArrive
      <3> QED BY <2>1, <2>2, <3>1 DEF SelectIInv, OffersCurrent, ChildrenOwned, Owned, Searched
    <2>4. CASE ~a.cancelled
      <3>1. a.of = parent /\ a.search = Searched /\ a \in AskRecord
        BY <2>4 DEF SelectIInv, CurrentAsks
      <3>2. offers' = Offering("success", a.of, a.search, a.items)
        BY <1>7, <2>4 DEF OffersArrive
      <3>3. /\ offers' \in OffersRecord /\ offers'.of = parent /\ offers'.search = Searched
            /\ offers'.items = a.items /\ offers'.of = a.of
        BY <3>1, <3>2 DEF Offering, OffersRecord, AskRecord
      <3>4. ChildrenOwned'
        BY <2>1, <3>3 DEF SelectIInv, ChildrenOwned, Owned
      <3> QED BY <2>1, <2>2, <3>3, <3>4 DEF SelectIInv, OffersCurrent, Searched
    <2> QED BY <2>3, <2>4
  <1>8. ASSUME NEW a \in asks, OffersFail(a) PROVE SelectIInv'
    <2>1. asks' = asks \ {a} /\ UNCHANGED <<cascade, parent, child, pinned, searchInput, committedInput, belongs, was>>
      BY <1>8 DEF OffersFail
    <2>2. offers' = offers \/ offers' = [offers EXCEPT !.kind = "error"]
      BY <1>8 DEF OffersFail
    <2>3. /\ offers' \in OffersRecord /\ offers'.of = offers.of /\ offers'.items = offers.items
          /\ offers'.kind = "success" => offers' = offers
      BY <2>2 DEF SelectIInv, OffersRecord
    <2>4. asks' \subseteq AskRecord /\ CurrentAsks' /\ ChildrenOwned'
      BY <2>1, <2>3 DEF SelectIInv, CurrentAsks, ChildrenOwned, Owned, Searched
    <2> QED BY <2>1, <2>3, <2>4 DEF SelectIInv, OffersCurrent, Searched
  <1>9. ASSUME NEW c \in Movable, OthersMove(c) PROVE SelectIInv'
    <2>1. PICK p \in Parents \union {NoChoice} :
             belongs' = [belongs EXCEPT ![c] = p] /\ was' = [was EXCEPT ![c] = @ \union {p}]
      BY <1>9 DEF OthersMove
    <2>2. c \in Children
      BY SelectionsAssumption
    <2>3. /\ belongs' \in [Children -> Parents \union {NoChoice}] /\ was' \in Histories
          /\ \A d \in Children : was[d] \subseteq was'[d] /\ belongs'[d] \in was'[d]
      BY <2>1, <2>2 DEF SelectIInv, ChildrenOwned, Histories
    <2>4. UNCHANGED <<cascade, parent, child, pinned, searchInput, committedInput, offers, asks>>
      BY <1>9 DEF OthersMove
    <2>5. offers.items \subseteq Children /\ \A a \in asks : a.items \subseteq Children
      BY DEF SelectIInv, OffersRecord, AskRecord
    <2>6. ChildrenOwned'
      BY <2>3, <2>4, <2>5 DEF SelectIInv, ChildrenOwned, Owned
    <2>7. OffersCurrent'
      BY <2>3, <2>4 DEF SelectIInv, OffersCurrent, Searched
    <2> QED BY <2>3, <2>4, <2>6, <2>7 DEF SelectIInv, CurrentAsks, Searched
  <1>10. CASE UNCHANGED selectVars
    BY <1>10 DEF selectVars, SelectIInv, CurrentAsks, OffersCurrent, ChildrenOwned, Owned, Searched
  <1> QED BY <1>1, <1>2, <1>3, <1>4, <1>5, <1>6, <1>7, <1>8, <1>9, <1>10 DEF SelectNext, SelectStep

(* What a dependent select offers was asked for under the parent and for   *)
(* the search in the form, whatever order the answers come in, and the     *)
(* child chosen is or was one of that parent's, unless it is the interface *)
(* bound now; for any number of parents and children.                      *)
THEOREM OffersAlwaysCurrent == SelectSpec => []OffersCurrent
  <1>1. SelectIInv => OffersCurrent
    BY DEF SelectIInv
  <1> QED BY <1>1, SelectInitially, SelectKept, PTL DEF SelectSpec

\* What is given by the object that is edited.
ChoiceTyped == cascade \in Cascades /\ itself \in Children \union {NoChoice}

(* Every select keeps its shape: it holds a child, a parent and a search   *)
(* with the parent it is for, or nothing.                                  *)
THEOREM SelectTyping == SelectSpec => []SelectTypeOK
  <1>1. SelectInit => ChoiceTyped
    BY DEF SelectInit, ChoiceTyped
  <1>2. ChoiceTyped /\ [SelectNext]_selectVars => ChoiceTyped'
    BY DEF ChoiceTyped, SelectNext, SelectStep, ChangeParent, TypeSearch, CommitSearch, RetryOffers,
           Choose, ServerOffers, OffersArrive, OffersFail, OthersMove, selectVars
  <1>3. SelectIInv /\ ChoiceTyped => SelectTypeOK
    BY DEF SelectIInv, ChoiceTyped, SelectTypeOK, OffersRecord, ScopedRecord, Histories
  <1> QED BY <1>1, <1>2, <1>3, SelectInitially, SelectKept, PTL DEF SelectSpec

-----------------------------------------------------------------------------
(* The authorizations.                                                     *)

GrantRow == [cluster : Granted \union {Nothing}, id : Nat]
SomeAccount == Grantees \union {Nothing}

\* The authorizations given until now.
Given(rows) == rows \subseteq GrantRow /\ \A x \in rows : x.id <= lastGrant

\* A load, whatever it carries.
ReadingOf(S) ==
    [kind : {"list", "held", "options"}, of : S, page : S, ids : S, rows : S, done : BOOLEAN]
IsReading(r) == \E S : r \in ReadingOf(S)

ServerTyped ==
    /\ lastGrant \in Nat
    /\ active \in [Grantees -> SUBSET GrantRow] /\ \A a \in Grantees : Given(active[a])

PanelTyped ==
    /\ account \in SomeAccount /\ picked \in Granted \union {Nothing}
    /\ authList \in [kind : {"loading", "success", "error"}, of : SomeAccount, rows : SUBSET GrantRow]
    /\ granting \in [state : {"none", "sent", "answered"}, account : SomeAccount,
                     cluster : Granted \union {Nothing}, result : {"none", "ok", "already", "lost"}]
    /\ revoking \in [target : GrantRow, of : SomeAccount, state : {"none", "sent", "answered"},
                     result : {"none", "ok", "already", "lost"}]

PanelGiven ==
    /\ \A x \in authList.rows : x.id <= lastGrant
    /\ revoking.target.id <= lastGrant

\* Before an account is selected there is nothing to grant, to revoke or to show.
NothingYet ==
    account = Nothing =>
        /\ granting.state = "none" /\ revoking.of = Nothing /\ ~grantOpen
        /\ authList.kind # "success" /\ \A r \in readings : r.kind # "list"
RequestOfSome == revoking.state # "none" => revoking.of # Nothing

\* The loads that are not cancelled are those of the account, and of the modal.
ReadingsCurrent ==
    \A r \in readings :
        /\ IsReading(r) /\ Given(r.rows)
        /\ r.kind = "list" => r.of = account
        /\ r.kind = "list" /\ r.done => \A row \in r.rows : <<account, row>> \notin undone
        /\ r.kind = "held" => grantOpen /\ r.of = account

\* What is reported as revoked is not active, and its id is not given again.
UndoneGone ==
    /\ \A u \in undone : \E a \in Grantees, row \in GrantRow :
          u = <<a, row>> /\ row.id <= lastGrant /\ row \notin active[a]
    /\ revoking.state = "answered" /\ revoking.result \in {"ok", "already"} =>
          revoking.target \notin active[revoking.of]

GrantsIInv ==
    /\ ServerTyped /\ PanelTyped /\ PanelGiven /\ NothingYet /\ RequestOfSome
    /\ ReadingsCurrent /\ UndoneGone /\ AuthorizationsCurrent

PanelState == <<account, authList, modalVars, granting, revoking, readings, undone>>

LEMMA ReadingIsReading ==
    ASSUME NEW kind \in {"list", "held", "options"}, NEW of
    PROVE  /\ IsReading(Reading(kind, of)) /\ Reading(kind, of).kind = kind
           /\ Reading(kind, of).of = of /\ Reading(kind, of).rows = {} /\ ~Reading(kind, of).done
  <1>1. Reading(kind, of) \in ReadingOf({of, 1, {}})
    BY DEF Reading, ReadingOf
  <1> QED BY <1>1 DEF IsReading, Reading

LEMMA ReadingEnded ==
    ASSUME NEW r, IsReading(r), NEW x, NEW s, s = [r EXCEPT !.done = TRUE, !.ids = x]
    PROVE  IsReading(s) /\ s.kind = r.kind /\ s.of = r.of /\ s.rows = r.rows
  <1>1. PICK S : r \in ReadingOf(S)
    BY DEF IsReading
  <1>2. s \in ReadingOf(S \union {x, r.page + 1})
    BY <1>1 DEF ReadingOf
  <1> QED BY <1>1, <1>2 DEF ReadingOf, IsReading

LEMMA ReadingTurned ==
    ASSUME NEW r, IsReading(r), NEW x, NEW s, s = [r EXCEPT !.page = r.page + 1, !.ids = x]
    PROVE  IsReading(s) /\ s.kind = r.kind /\ s.of = r.of /\ s.rows = r.rows
  <1>1. PICK S : r \in ReadingOf(S)
    BY DEF IsReading
  <1>2. s \in ReadingOf(S \union {x, r.page + 1})
    BY <1>1 DEF ReadingOf
  <1> QED BY <1>1, <1>2 DEF ReadingOf, IsReading

LEMMA NoRevocationTyped ==
    NoRevocation \in [target : GrantRow, of : SomeAccount, state : {"none", "sent", "answered"},
                      result : {"none", "ok", "already", "lost"}]
    /\ NoRevocation.target.id = 0 /\ NoRevocation.of = Nothing
    /\ NoRevocation.state = "none" /\ NoRevocation.result = "none"
  BY DEF NoRevocation, Authorization, GrantRow, SomeAccount

LEMMA GrantsInitially == GrantsInit => GrantsIInv
  <1> SUFFICES ASSUME GrantsInit PROVE GrantsIInv
    OBVIOUS
  <1>1. ServerTyped
    <2>1. ASSUME NEW a \in Grantees PROVE active[a] \subseteq GrantRow /\ \A x \in active[a] : x.id = 0
      BY DEF GrantsInit, Authorization, GrantRow
    <2>2. active \in [Grantees -> SUBSET GrantRow]
      BY <2>1 DEF GrantsInit
    <2> QED BY <2>1, <2>2 DEF ServerTyped, Given, GrantsInit
  <1>2. PanelTyped /\ PanelGiven
    BY DEF GrantsInit, PanelTyped, PanelGiven, SomeAccount, Loaded, NoRequest, NoRevocation, Authorization, GrantRow
  <1> QED BY <1>1, <1>2 DEF GrantsIInv, GrantsInit, NothingYet, RequestOfSome, ReadingsCurrent,
            UndoneGone, AuthorizationsCurrent, Loaded, NoRequest, NoRevocation

-----------------------------------------------------------------------------
\* Giving an authorization gives a new id.
LEMMA GrantsKeep ==
    ASSUME ServerTyped, NEW a \in SomeAccount, NEW c \in Granted \union {Nothing}, Grants(a, c)
    PROVE  /\ ServerTyped' /\ lastGrant' = lastGrant + 1
           /\ \A b \in Grantees, row \in GrantRow :
                 row.id <= lastGrant /\ row \notin active[b] => row \notin active'[b]
  <1>1. lastGrant' = lastGrant + 1 /\ lastGrant \in Nat
    BY DEF Grants, ServerTyped
  <1>2. Authorization(c, lastGrant + 1) \in GrantRow /\ Authorization(c, lastGrant + 1).id = lastGrant + 1
    BY <1>1 DEF Authorization, GrantRow
  <1>3. ASSUME NEW b \in Grantees
        PROVE  /\ active'[b] \subseteq active[b] \union {Authorization(c, lastGrant + 1)}
               /\ active[b] \subseteq GrantRow /\ \A x \in active[b] : x.id <= lastGrant
    BY DEF Grants, ServerTyped, Given
  <1>4. \A b \in Grantees : active'[b] \subseteq GrantRow /\ \A x \in active'[b] : x.id <= lastGrant'
    BY <1>1, <1>2, <1>3 DEF GrantRow
  <1>5. active' \in [Grantees -> SUBSET GrantRow]
    BY <1>4 DEF Grants, ServerTyped
  <1>6. ServerTyped'
    BY <1>1, <1>4, <1>5 DEF ServerTyped, Given
  <1>7. \A b \in Grantees, row \in GrantRow :
           row.id <= lastGrant /\ row \notin active[b] => row \notin active'[b]
    BY <1>1, <1>2, <1>3
  <1> QED BY <1>1, <1>6, <1>7

LEMMA RevokesKeep ==
    ASSUME ServerTyped, NEW a \in SomeAccount, NEW row, Revokes(a, row), UNCHANGED lastGrant
    PROVE  /\ ServerTyped'
           /\ \A b \in Grantees : active'[b] \subseteq active[b]
           /\ a \in Grantees => row \notin active'[a]
  <1>1. \A b \in Grantees : active'[b] \subseteq active[b]
    BY DEF Revokes, ServerTyped
  <1>2. active' \in [Grantees -> SUBSET GrantRow]
    BY <1>1 DEF Revokes, ServerTyped
  <1>3. a \in Grantees => row \notin active'[a]
    BY DEF Revokes, ServerTyped
  <1> QED BY <1>1, <1>2, <1>3 DEF ServerTyped, Given

\* What was given before was given by then.
LEMMA GivenLater ==
    ASSUME lastGrant \in Nat, lastGrant' \in Nat, lastGrant <= lastGrant', NEW rows, Given(rows)
    PROVE  Given(rows)'
  BY DEF Given, GrantRow

\* The server gives or takes authorizations; of the panel only the requests change.
LEMMA ServerChangeKeeps ==
    ASSUME GrantsIInv, ServerTyped', lastGrant <= lastGrant',
           \A b \in Grantees, row \in GrantRow :
              row.id <= lastGrant /\ row \notin active[b] => row \notin active'[b],
           UNCHANGED <<account, authList, modalVars, readings, undone>>
    PROVE  /\ ReadingsCurrent' /\ AuthorizationsCurrent'
           /\ \A u \in undone' : \E a \in Grantees, row \in GrantRow :
                 u = <<a, row>> /\ row.id <= lastGrant' /\ row \notin active'[a]
  <1>1. lastGrant \in Nat /\ lastGrant' \in Nat
    BY DEF GrantsIInv, ServerTyped
  <1>3. ASSUME NEW r \in readings PROVE Given(r.rows)'
    BY <1>1, <1>3 DEF GrantsIInv, ReadingsCurrent, Given, GrantRow
  <1>4. ReadingsCurrent'
    BY <1>3 DEF GrantsIInv, ReadingsCurrent, modalVars, Given
  <1>5. AuthorizationsCurrent'
    BY DEF GrantsIInv, AuthorizationsCurrent, modalVars
  <1>6. ASSUME NEW u \in undone
        PROVE \E a \in Grantees, row \in GrantRow :
                 u = <<a, row>> /\ row.id <= lastGrant' /\ row \notin active'[a]
    <2>1. PICK a \in Grantees, row \in GrantRow : u = <<a, row>> /\ row.id <= lastGrant /\ row \notin active[a]
      BY DEF GrantsIInv, UndoneGone
    <2>2. row.id <= lastGrant' /\ row \notin active'[a]
      BY <1>1, <2>1 DEF GrantRow
    <2> QED BY <2>1, <2>2
  <1> QED BY <1>4, <1>5, <1>6

LEMMA ServerUnchanged ==
    ASSUME ServerTyped, UNCHANGED serverGrants
    PROVE  ServerTyped' /\ \A rows : Given(rows) => Given(rows)'
  BY DEF ServerTyped, serverGrants, Given

LEMMA SelectAccountKeeps == ASSUME GrantsIInv, NEW a \in Grantees, SelectAccount(a) PROVE GrantsIInv'
  <1>1. UNCHANGED serverGrants /\ ServerTyped' /\ \A rows : Given(rows) => Given(rows)'
    <2>1. UNCHANGED serverGrants
      BY DEF SelectAccount, serverGrants
    <2> QED BY <2>1, ServerUnchanged DEF GrantsIInv
  <1>2. PanelTyped'
    BY NoRevocationTyped DEF GrantsIInv, PanelTyped, SelectAccount, LoadAuthList, CancelReads, Loaded, Uncovered, modalVars, SomeAccount
  <1>7. PanelGiven'
    BY <1>1, NoRevocationTyped DEF GrantsIInv, ServerTyped, PanelTyped, PanelGiven, ReadingsCurrent, Given, SelectAccount, LoadAuthList, CancelReads, Loaded, Uncovered, modalVars, serverGrants, SomeAccount
  <1>3. NothingYet' /\ RequestOfSome'
    BY AuthorizationsAssumption DEF GrantsIInv, NothingYet, RequestOfSome, SelectAccount, LoadAuthList, CancelReads, Loaded, Uncovered, Reading, modalVars
  <1>4. ReadingsCurrent'
    BY <1>1, ReadingIsReading DEF GrantsIInv, ReadingsCurrent, SelectAccount, LoadAuthList, CancelReads, Loaded, Uncovered, modalVars, Given
  <1>5. UndoneGone'
    BY <1>1 DEF GrantsIInv, UndoneGone, SelectAccount, LoadAuthList, CancelReads, Loaded, Uncovered, serverGrants
  <1>6. AuthorizationsCurrent'
    BY DEF GrantsIInv, AuthorizationsCurrent, ReadingsCurrent, SelectAccount, LoadAuthList, CancelReads, Loaded, Uncovered, modalVars
  <1> QED BY <1>1, <1>2, <1>3, <1>4, <1>5, <1>6, <1>7 DEF GrantsIInv

LEMMA OpenGrantKeeps == ASSUME GrantsIInv, OpenGrant PROVE GrantsIInv'
  <1>1. UNCHANGED serverGrants /\ ServerTyped' /\ \A rows : Given(rows) => Given(rows)'
    <2>1. UNCHANGED serverGrants
      BY DEF OpenGrant, serverGrants
    <2> QED BY <2>1, ServerUnchanged DEF GrantsIInv
  <1>2. PanelTyped'
    BY NoRevocationTyped DEF GrantsIInv, PanelTyped, OpenGrant, Uncovered, HeldLoading, HeldIdle, OptionsLoading, modalVars, SomeAccount
  <1>7. PanelGiven'
    BY <1>1, NoRevocationTyped DEF GrantsIInv, ServerTyped, PanelTyped, PanelGiven, ReadingsCurrent, Given, OpenGrant, Uncovered, HeldLoading, HeldIdle, OptionsLoading, modalVars, serverGrants, SomeAccount
  <1>3. NothingYet' /\ RequestOfSome'
    BY DEF GrantsIInv, NothingYet, RequestOfSome, OpenGrant, Uncovered, HeldLoading, HeldIdle, OptionsLoading, Reading, modalVars
  <1>4. ReadingsCurrent'
    BY <1>1, ReadingIsReading DEF GrantsIInv, ReadingsCurrent, OpenGrant, Uncovered, HeldLoading, HeldIdle, OptionsLoading, modalVars, Given
  <1>5. UndoneGone'
    BY <1>1 DEF GrantsIInv, UndoneGone, OpenGrant, Uncovered, HeldLoading, HeldIdle, OptionsLoading, serverGrants
  <1>6. AuthorizationsCurrent'
    BY DEF GrantsIInv, AuthorizationsCurrent, ReadingsCurrent, OpenGrant, Uncovered, HeldLoading, HeldIdle, OptionsLoading, modalVars
  <1> QED BY <1>1, <1>2, <1>3, <1>4, <1>5, <1>6, <1>7 DEF GrantsIInv

LEMMA CloseGrantKeeps == ASSUME GrantsIInv, CloseGrant PROVE GrantsIInv'
  <1>1. UNCHANGED serverGrants /\ ServerTyped' /\ \A rows : Given(rows) => Given(rows)'
    <2>1. UNCHANGED serverGrants
      BY DEF CloseGrant, serverGrants
    <2> QED BY <2>1, ServerUnchanged DEF GrantsIInv
  <1>2. PanelTyped'
    BY NoRevocationTyped DEF GrantsIInv, PanelTyped, CloseGrant, ClosedModal, CancelReads, HeldIdle, modalVars, SomeAccount
  <1>7. PanelGiven'
    BY <1>1, NoRevocationTyped DEF GrantsIInv, ServerTyped, PanelTyped, PanelGiven, ReadingsCurrent, Given, CloseGrant, ClosedModal, CancelReads, HeldIdle, modalVars, serverGrants, SomeAccount
  <1>3. NothingYet' /\ RequestOfSome'
    BY DEF GrantsIInv, NothingYet, RequestOfSome, CloseGrant, ClosedModal, CancelReads, HeldIdle, Reading, modalVars
  <1>4. ReadingsCurrent'
    BY <1>1, ReadingIsReading DEF GrantsIInv, ReadingsCurrent, CloseGrant, ClosedModal, CancelReads, HeldIdle, modalVars, Given
  <1>5. UndoneGone'
    BY <1>1 DEF GrantsIInv, UndoneGone, CloseGrant, ClosedModal, CancelReads, HeldIdle, serverGrants
  <1>6. AuthorizationsCurrent'
    BY DEF GrantsIInv, AuthorizationsCurrent, ReadingsCurrent, CloseGrant, ClosedModal, CancelReads, HeldIdle, modalVars
  <1> QED BY <1>1, <1>2, <1>3, <1>4, <1>5, <1>6, <1>7 DEF GrantsIInv

LEMMA SearchClustersKeeps == ASSUME GrantsIInv, SearchClusters PROVE GrantsIInv'
  <1>1. UNCHANGED serverGrants /\ ServerTyped' /\ \A rows : Given(rows) => Given(rows)'
    <2>1. UNCHANGED serverGrants
      BY DEF SearchClusters, serverGrants
    <2> QED BY <2>1, ServerUnchanged DEF GrantsIInv
  <1>2. PanelTyped'
    BY NoRevocationTyped DEF GrantsIInv, PanelTyped, SearchClusters, CancelReads, modalVars, SomeAccount
  <1>7. PanelGiven'
    BY <1>1, NoRevocationTyped DEF GrantsIInv, ServerTyped, PanelTyped, PanelGiven, ReadingsCurrent, Given, SearchClusters, CancelReads, modalVars, serverGrants, SomeAccount
  <1>3. NothingYet' /\ RequestOfSome'
    BY DEF GrantsIInv, NothingYet, RequestOfSome, SearchClusters, CancelReads, Reading, modalVars
  <1>4. ReadingsCurrent'
    BY <1>1, ReadingIsReading DEF GrantsIInv, ReadingsCurrent, SearchClusters, CancelReads, modalVars, Given
  <1>5. UndoneGone'
    BY <1>1 DEF GrantsIInv, UndoneGone, SearchClusters, CancelReads, serverGrants
  <1>6. AuthorizationsCurrent'
    BY DEF GrantsIInv, AuthorizationsCurrent, ReadingsCurrent, SearchClusters, CancelReads, modalVars
  <1> QED BY <1>1, <1>2, <1>3, <1>4, <1>5, <1>6, <1>7 DEF GrantsIInv

LEMMA RetryHeldKeeps == ASSUME GrantsIInv, RetryHeld PROVE GrantsIInv'
  <1>1. UNCHANGED serverGrants /\ ServerTyped' /\ \A rows : Given(rows) => Given(rows)'
    <2>1. UNCHANGED serverGrants
      BY DEF RetryHeld, serverGrants
    <2> QED BY <2>1, ServerUnchanged DEF GrantsIInv
  <1>2. PanelTyped'
    BY NoRevocationTyped DEF GrantsIInv, PanelTyped, RetryHeld, CancelReads, HeldLoading, HeldIdle, modalVars, SomeAccount
  <1>7. PanelGiven'
    BY <1>1, NoRevocationTyped DEF GrantsIInv, ServerTyped, PanelTyped, PanelGiven, ReadingsCurrent, Given, RetryHeld, CancelReads, HeldLoading, HeldIdle, modalVars, serverGrants, SomeAccount
  <1>3. NothingYet' /\ RequestOfSome'
    BY DEF GrantsIInv, NothingYet, RequestOfSome, RetryHeld, CancelReads, HeldLoading, HeldIdle, Reading, modalVars
  <1>4. ReadingsCurrent'
    BY <1>1, ReadingIsReading DEF GrantsIInv, ReadingsCurrent, RetryHeld, CancelReads, HeldLoading, HeldIdle, modalVars, Given
  <1>5. UndoneGone'
    BY <1>1 DEF GrantsIInv, UndoneGone, RetryHeld, CancelReads, HeldLoading, HeldIdle, serverGrants
  <1>6. AuthorizationsCurrent'
    BY DEF GrantsIInv, AuthorizationsCurrent, ReadingsCurrent, RetryHeld, CancelReads, HeldLoading, HeldIdle, modalVars
  <1> QED BY <1>1, <1>2, <1>3, <1>4, <1>5, <1>6, <1>7 DEF GrantsIInv

LEMMA SubmitGrantKeeps == ASSUME GrantsIInv, SubmitGrant PROVE GrantsIInv'
  <1>1. UNCHANGED serverGrants /\ ServerTyped' /\ \A rows : Given(rows) => Given(rows)'
    <2>1. UNCHANGED serverGrants
      BY DEF SubmitGrant, serverGrants
    <2> QED BY <2>1, ServerUnchanged DEF GrantsIInv
  <1>2. PanelTyped'
    BY NoRevocationTyped DEF GrantsIInv, PanelTyped, SubmitGrant, Candidates, modalVars, SomeAccount
  <1>7. PanelGiven'
    BY <1>1, NoRevocationTyped DEF GrantsIInv, ServerTyped, PanelTyped, PanelGiven, ReadingsCurrent, Given, SubmitGrant, Candidates, modalVars, serverGrants, SomeAccount
  <1>3. NothingYet' /\ RequestOfSome'
    BY DEF GrantsIInv, NothingYet, RequestOfSome, SubmitGrant, Candidates, Reading, modalVars
  <1>4. ReadingsCurrent'
    BY <1>1, ReadingIsReading DEF GrantsIInv, ReadingsCurrent, SubmitGrant, Candidates, modalVars, Given
  <1>5. UndoneGone'
    BY <1>1 DEF GrantsIInv, UndoneGone, SubmitGrant, Candidates, serverGrants
  <1>6. AuthorizationsCurrent'
    BY DEF GrantsIInv, AuthorizationsCurrent, ReadingsCurrent, SubmitGrant, Candidates, modalVars
  <1> QED BY <1>1, <1>2, <1>3, <1>4, <1>5, <1>6, <1>7 DEF GrantsIInv

LEMMA PickKeeps == ASSUME GrantsIInv, NEW c \in Granted \union {Nothing}, Pick(c) PROVE GrantsIInv'
  <1>1. UNCHANGED serverGrants /\ ServerTyped' /\ \A rows : Given(rows) => Given(rows)'
    <2>1. UNCHANGED serverGrants
      BY DEF Pick, serverGrants
    <2> QED BY <2>1, ServerUnchanged DEF GrantsIInv
  <1>2. PanelTyped'
    BY NoRevocationTyped DEF GrantsIInv, PanelTyped, Pick, modalVars, SomeAccount
  <1>7. PanelGiven'
    BY <1>1, NoRevocationTyped DEF GrantsIInv, ServerTyped, PanelTyped, PanelGiven, ReadingsCurrent, Given, Pick, modalVars, serverGrants, SomeAccount
  <1>3. NothingYet' /\ RequestOfSome'
    BY DEF GrantsIInv, NothingYet, RequestOfSome, Pick, Reading, modalVars
  <1>4. ReadingsCurrent'
    BY <1>1, ReadingIsReading DEF GrantsIInv, ReadingsCurrent, Pick, modalVars, Given
  <1>5. UndoneGone'
    BY <1>1 DEF GrantsIInv, UndoneGone, Pick, serverGrants
  <1>6. AuthorizationsCurrent'
    BY DEF GrantsIInv, AuthorizationsCurrent, ReadingsCurrent, Pick, modalVars
  <1> QED BY <1>1, <1>2, <1>3, <1>4, <1>5, <1>6, <1>7 DEF GrantsIInv

LEMMA AskRevokeKeeps == ASSUME GrantsIInv, NEW row \in authList.rows, AskRevoke(row) PROVE GrantsIInv'
  <1>1. UNCHANGED serverGrants /\ ServerTyped' /\ \A rows : Given(rows) => Given(rows)'
    <2>1. UNCHANGED serverGrants
      BY DEF AskRevoke, serverGrants
    <2> QED BY <2>1, ServerUnchanged DEF GrantsIInv
  <1>2. PanelTyped'
    BY NoRevocationTyped DEF GrantsIInv, PanelTyped, AskRevoke, Uncovered, modalVars, SomeAccount
  <1>7. PanelGiven'
    BY <1>1, NoRevocationTyped DEF GrantsIInv, ServerTyped, PanelTyped, PanelGiven, ReadingsCurrent, Given, AskRevoke, Uncovered, modalVars, serverGrants, SomeAccount
  <1>3. NothingYet' /\ RequestOfSome'
    BY DEF GrantsIInv, NothingYet, RequestOfSome, AskRevoke, NoRevocation, Authorization, Uncovered, Reading, modalVars
  <1>4. ReadingsCurrent'
    BY <1>1, ReadingIsReading DEF GrantsIInv, ReadingsCurrent, AskRevoke, NoRevocation, Authorization, Uncovered, modalVars, Given
  <1>5. UndoneGone'
    BY <1>1 DEF GrantsIInv, UndoneGone, AskRevoke, NoRevocation, Authorization, Uncovered, serverGrants
  <1>6. AuthorizationsCurrent'
    BY DEF GrantsIInv, AuthorizationsCurrent, ReadingsCurrent, AskRevoke, NoRevocation, Authorization, Uncovered, modalVars
  <1> QED BY <1>1, <1>2, <1>3, <1>4, <1>5, <1>6, <1>7 DEF GrantsIInv

LEMMA CancelRevokeKeeps == ASSUME GrantsIInv, CancelRevoke PROVE GrantsIInv'
  <1>1. UNCHANGED serverGrants /\ ServerTyped' /\ \A rows : Given(rows) => Given(rows)'
    <2>1. UNCHANGED serverGrants
      BY DEF CancelRevoke, serverGrants
    <2> QED BY <2>1, ServerUnchanged DEF GrantsIInv
  <1>2. PanelTyped'
    BY NoRevocationTyped DEF GrantsIInv, PanelTyped, CancelRevoke, modalVars, SomeAccount
  <1>7. PanelGiven'
    BY <1>1, NoRevocationTyped DEF GrantsIInv, ServerTyped, PanelTyped, PanelGiven, ReadingsCurrent, Given, CancelRevoke, modalVars, serverGrants, SomeAccount
  <1>3. NothingYet' /\ RequestOfSome'
    BY DEF GrantsIInv, NothingYet, RequestOfSome, CancelRevoke, NoRevocation, Authorization, Reading, modalVars
  <1>4. ReadingsCurrent'
    BY <1>1, ReadingIsReading DEF GrantsIInv, ReadingsCurrent, CancelRevoke, NoRevocation, Authorization, modalVars, Given
  <1>5. UndoneGone'
    BY <1>1 DEF GrantsIInv, UndoneGone, CancelRevoke, NoRevocation, Authorization, serverGrants
  <1>6. AuthorizationsCurrent'
    BY DEF GrantsIInv, AuthorizationsCurrent, ReadingsCurrent, CancelRevoke, NoRevocation, Authorization, modalVars
  <1> QED BY <1>1, <1>2, <1>3, <1>4, <1>5, <1>6, <1>7 DEF GrantsIInv

LEMMA ConfirmRevokeKeeps == ASSUME GrantsIInv, ConfirmRevoke PROVE GrantsIInv'
  <1>1. UNCHANGED serverGrants /\ ServerTyped' /\ \A rows : Given(rows) => Given(rows)'
    <2>1. UNCHANGED serverGrants
      BY DEF ConfirmRevoke, serverGrants
    <2> QED BY <2>1, ServerUnchanged DEF GrantsIInv
  <1>2. PanelTyped'
    BY NoRevocationTyped DEF GrantsIInv, PanelTyped, ConfirmRevoke, modalVars, SomeAccount
  <1>7. PanelGiven'
    BY <1>1, NoRevocationTyped DEF GrantsIInv, ServerTyped, PanelTyped, PanelGiven, ReadingsCurrent, Given, ConfirmRevoke, modalVars, serverGrants, SomeAccount
  <1>3. NothingYet' /\ RequestOfSome'
    BY DEF GrantsIInv, NothingYet, RequestOfSome, ConfirmRevoke, Reading, modalVars
  <1>4. ReadingsCurrent'
    BY <1>1, ReadingIsReading DEF GrantsIInv, ReadingsCurrent, ConfirmRevoke, modalVars, Given
  <1>5. UndoneGone'
    BY <1>1 DEF GrantsIInv, UndoneGone, ConfirmRevoke, serverGrants
  <1>6. AuthorizationsCurrent'
    BY DEF GrantsIInv, AuthorizationsCurrent, ReadingsCurrent, ConfirmRevoke, modalVars
  <1> QED BY <1>1, <1>2, <1>3, <1>4, <1>5, <1>6, <1>7 DEF GrantsIInv

LEMMA ServerShowsKeeps == ASSUME GrantsIInv, NEW r \in readings, ServerShows(r) PROVE GrantsIInv'
  <1>1. UNCHANGED serverGrants /\ ServerTyped' /\ \A rows : Given(rows) => Given(rows)'
    <2>1. UNCHANGED serverGrants
      BY DEF ServerShows, serverGrants
    <2> QED BY <2>1, ServerUnchanged DEF GrantsIInv
  <1>2. PanelTyped'
    BY NoRevocationTyped DEF GrantsIInv, PanelTyped, ServerShows, modalVars, SomeAccount
  <1>7. PanelGiven'
    BY <1>1, NoRevocationTyped DEF GrantsIInv, ServerTyped, PanelTyped, PanelGiven, ReadingsCurrent, Given, ServerShows, modalVars, serverGrants, SomeAccount
  <1>3. NothingYet' /\ RequestOfSome'
    BY DEF GrantsIInv, NothingYet, RequestOfSome, ServerShows, Reading, modalVars
  <1>4. ReadingsCurrent'
    <2>0. PICK found : found = active[r.of]
      OBVIOUS
    <2>5. PICK s : s = [r EXCEPT !.done = TRUE, !.rows = found]
      OBVIOUS
    <2>1. readings' = (readings \ {r}) \union {s} /\ r.kind = "list" /\ r.of = account /\ account \in Grantees
      BY <2>0, <2>5, AuthorizationsAssumption DEF ServerShows, GrantsIInv, ReadingsCurrent, NothingYet, PanelTyped, SomeAccount
    <2>2. IsReading(s) /\ s.kind = "list" /\ s.of = account /\ s.rows = active[account]
      <3>1. IsReading(r)
        BY DEF GrantsIInv, ReadingsCurrent
      <3>2. IsReading(s) /\ s.kind = r.kind /\ s.of = r.of /\ s.rows = found
        <4>1. PICK S : r \in ReadingOf(S)
          BY <3>1 DEF IsReading
        <4>2. s \in ReadingOf(S \union {found})
          BY <2>5, <4>1 DEF ReadingOf
        <4> QED BY <2>5, <4>1, <4>2 DEF ReadingOf, IsReading
      <3> QED BY <2>0, <2>1, <3>2
    <2>3. Given(active[account]) /\ \A row \in active[account] : <<account, row>> \notin undone
      <3>1. \A u \in undone : \E a \in Grantees, row \in GrantRow : u = <<a, row>> /\ row \notin active[a]
        BY DEF GrantsIInv, UndoneGone
      <3> QED BY <2>1, <3>1 DEF GrantsIInv, ServerTyped
    <2>4. \A x \in readings' : x \in readings \/ x = s
      BY <2>1
    <2> QED BY <1>1, <2>2, <2>3, <2>4 DEF GrantsIInv, ReadingsCurrent, ServerShows, modalVars
  <1>5. UndoneGone'
    BY <1>1 DEF GrantsIInv, UndoneGone, ServerShows, serverGrants
  <1>6. AuthorizationsCurrent'
    BY DEF GrantsIInv, AuthorizationsCurrent, ReadingsCurrent, ServerShows, modalVars
  <1> QED BY <1>1, <1>2, <1>3, <1>4, <1>5, <1>6, <1>7 DEF GrantsIInv

LEMMA ServerHoldsKeeps == ASSUME GrantsIInv, NEW r \in readings, ServerHolds(r) PROVE GrantsIInv'
  <1>1. UNCHANGED serverGrants /\ ServerTyped' /\ \A rows : Given(rows) => Given(rows)'
    <2>1. UNCHANGED serverGrants
      BY DEF ServerHolds, serverGrants
    <2> QED BY <2>1, ServerUnchanged DEF GrantsIInv
  <1>2. PanelTyped'
    BY NoRevocationTyped DEF GrantsIInv, PanelTyped, ServerHolds, modalVars, SomeAccount
  <1>7. PanelGiven'
    BY <1>1, NoRevocationTyped DEF GrantsIInv, ServerTyped, PanelTyped, PanelGiven, ReadingsCurrent, Given, ServerHolds, modalVars, serverGrants, SomeAccount
  <1>8. PICK s : /\ readings' = (readings \ {r}) \union {s} /\ IsReading(s)
                 /\ r.kind = "held" /\ s.kind = "held" /\ s.of = r.of /\ s.rows = r.rows
    <2>1. r.kind = "held" /\ \E ids : \/ readings' = (readings \ {r}) \union {[r EXCEPT !.done = TRUE, !.ids = ids]}
                                     \/ readings' = (readings \ {r}) \union {[r EXCEPT !.page = r.page + 1, !.ids = ids]}
      BY DEF ServerHolds
    <2>2. PICK ids : \/ readings' = (readings \ {r}) \union {[r EXCEPT !.done = TRUE, !.ids = ids]}
                     \/ readings' = (readings \ {r}) \union {[r EXCEPT !.page = r.page + 1, !.ids = ids]}
      BY <2>1
    <2>3. IsReading(r)
      BY DEF GrantsIInv, ReadingsCurrent
    <2>4. CASE readings' = (readings \ {r}) \union {[r EXCEPT !.done = TRUE, !.ids = ids]}
      <3>1. PICK s : s = [r EXCEPT !.done = TRUE, !.ids = ids]
        OBVIOUS
      <3>2. IsReading(s) /\ s.kind = r.kind /\ s.of = r.of /\ s.rows = r.rows
        BY <2>3, <3>1, ReadingEnded
      <3> QED BY <2>1, <2>4, <3>1, <3>2
    <2>5. CASE readings' = (readings \ {r}) \union {[r EXCEPT !.page = r.page + 1, !.ids = ids]}
      <3>1. PICK s : s = [r EXCEPT !.page = r.page + 1, !.ids = ids]
        OBVIOUS
      <3>2. IsReading(s) /\ s.kind = r.kind /\ s.of = r.of /\ s.rows = r.rows
        BY <2>3, <3>1, ReadingTurned
      <3> QED BY <2>1, <2>5, <3>1, <3>2
    <2> QED BY <2>2, <2>4, <2>5
  <1>3. NothingYet' /\ RequestOfSome'
    BY <1>8 DEF GrantsIInv, NothingYet, RequestOfSome, ServerHolds, modalVars
  <1>4. ReadingsCurrent'
    BY <1>1, <1>8 DEF GrantsIInv, ReadingsCurrent, ServerHolds, modalVars
  <1>5. UndoneGone'
    BY <1>1 DEF GrantsIInv, UndoneGone, ServerHolds, serverGrants
  <1>6. AuthorizationsCurrent'
    BY DEF GrantsIInv, AuthorizationsCurrent, ReadingsCurrent, ServerHolds, modalVars
  <1> QED BY <1>1, <1>2, <1>3, <1>4, <1>5, <1>6, <1>7 DEF GrantsIInv

LEMMA ReadingArrivesKeeps == ASSUME GrantsIInv, NEW r \in readings, ReadingArrives(r) PROVE GrantsIInv'
  <1>1. UNCHANGED serverGrants /\ ServerTyped' /\ \A rows : Given(rows) => Given(rows)'
    <2>1. UNCHANGED serverGrants
      BY DEF ReadingArrives, serverGrants
    <2> QED BY <2>1, ServerUnchanged DEF GrantsIInv
  <1>2. PanelTyped'
    <2>1. r.kind = "list" => r.of \in SomeAccount /\ r.rows \subseteq GrantRow
      BY DEF GrantsIInv, ReadingsCurrent, PanelTyped, Given
    <2>2. authList' \in [kind : {"loading", "success", "error"}, of : SomeAccount, rows : SUBSET GrantRow]
      BY <2>1 DEF GrantsIInv, PanelTyped, ReadingArrives, Loaded
    <2> QED BY <2>2 DEF GrantsIInv, PanelTyped, ReadingArrives, modalVars
  <1>7. PanelGiven'
    BY <1>1, NoRevocationTyped DEF GrantsIInv, ServerTyped, PanelTyped, PanelGiven, ReadingsCurrent, Given, ReadingArrives, Loaded, modalVars, serverGrants, SomeAccount
  <1>3. NothingYet' /\ RequestOfSome'
    BY DEF GrantsIInv, NothingYet, RequestOfSome, ReadingArrives, Loaded, Reading, modalVars
  <1>4. ReadingsCurrent'
    BY <1>1, ReadingIsReading DEF GrantsIInv, ReadingsCurrent, ReadingArrives, Loaded, modalVars, Given
  <1>5. UndoneGone'
    BY <1>1 DEF GrantsIInv, UndoneGone, ReadingArrives, Loaded, serverGrants
  <1>6. AuthorizationsCurrent'
    BY DEF GrantsIInv, AuthorizationsCurrent, ReadingsCurrent, ReadingArrives, Loaded, modalVars
  <1> QED BY <1>1, <1>2, <1>3, <1>4, <1>5, <1>6, <1>7 DEF GrantsIInv

LEMMA ReadingFailsKeeps == ASSUME GrantsIInv, NEW r \in readings, ReadingFails(r) PROVE GrantsIInv'
  <1>1. UNCHANGED serverGrants /\ ServerTyped' /\ \A rows : Given(rows) => Given(rows)'
    <2>1. UNCHANGED serverGrants
      BY DEF ReadingFails, serverGrants
    <2> QED BY <2>1, ServerUnchanged DEF GrantsIInv
  <1>2. PanelTyped'
    <2>1. r.kind = "list" => r.of \in SomeAccount
      BY DEF GrantsIInv, ReadingsCurrent, PanelTyped
    <2>2. authList' \in [kind : {"loading", "success", "error"}, of : SomeAccount, rows : SUBSET GrantRow]
      BY <2>1 DEF GrantsIInv, PanelTyped, ReadingFails, Loaded
    <2> QED BY <2>2 DEF GrantsIInv, PanelTyped, ReadingFails, modalVars
  <1>7. PanelGiven'
    BY <1>1, NoRevocationTyped DEF GrantsIInv, ServerTyped, PanelTyped, PanelGiven, ReadingsCurrent, Given, ReadingFails, Loaded, HeldIdle, modalVars, serverGrants, SomeAccount
  <1>3. NothingYet' /\ RequestOfSome'
    BY DEF GrantsIInv, NothingYet, RequestOfSome, ReadingFails, Loaded, HeldIdle, Reading, modalVars
  <1>4. ReadingsCurrent'
    BY <1>1, ReadingIsReading DEF GrantsIInv, ReadingsCurrent, ReadingFails, Loaded, HeldIdle, modalVars, Given
  <1>5. UndoneGone'
    BY <1>1 DEF GrantsIInv, UndoneGone, ReadingFails, Loaded, HeldIdle, serverGrants
  <1>6. AuthorizationsCurrent'
    BY DEF GrantsIInv, AuthorizationsCurrent, ReadingsCurrent, ReadingFails, Loaded, HeldIdle, modalVars
  <1> QED BY <1>1, <1>2, <1>3, <1>4, <1>5, <1>6, <1>7 DEF GrantsIInv

LEMMA ServerRefusesGrantKeeps == ASSUME GrantsIInv, ServerRefusesGrant PROVE GrantsIInv'
  <1>1. UNCHANGED serverGrants /\ ServerTyped' /\ \A rows : Given(rows) => Given(rows)'
    <2>1. UNCHANGED serverGrants
      BY DEF ServerRefusesGrant, serverGrants
    <2> QED BY <2>1, ServerUnchanged DEF GrantsIInv
  <1>2. PanelTyped'
    BY NoRevocationTyped DEF GrantsIInv, PanelTyped, ServerRefusesGrant, modalVars, SomeAccount
  <1>7. PanelGiven'
    BY <1>1, NoRevocationTyped DEF GrantsIInv, ServerTyped, PanelTyped, PanelGiven, ReadingsCurrent, Given, ServerRefusesGrant, modalVars, serverGrants, SomeAccount
  <1>3. NothingYet' /\ RequestOfSome'
    BY DEF GrantsIInv, NothingYet, RequestOfSome, ServerRefusesGrant, Reading, modalVars
  <1>4. ReadingsCurrent'
    BY <1>1, ReadingIsReading DEF GrantsIInv, ReadingsCurrent, ServerRefusesGrant, modalVars, Given
  <1>5. UndoneGone'
    BY <1>1 DEF GrantsIInv, UndoneGone, ServerRefusesGrant, serverGrants
  <1>6. AuthorizationsCurrent'
    BY DEF GrantsIInv, AuthorizationsCurrent, ReadingsCurrent, ServerRefusesGrant, modalVars
  <1> QED BY <1>1, <1>2, <1>3, <1>4, <1>5, <1>6, <1>7 DEF GrantsIInv

LEMMA ServerRefusesRevokeKeeps == ASSUME GrantsIInv, ServerRefusesRevoke PROVE GrantsIInv'
  <1>1. UNCHANGED serverGrants /\ ServerTyped' /\ \A rows : Given(rows) => Given(rows)'
    <2>1. UNCHANGED serverGrants
      BY DEF ServerRefusesRevoke, serverGrants
    <2> QED BY <2>1, ServerUnchanged DEF GrantsIInv
  <1>2. PanelTyped'
    <2>1. PICK result \in {"already", "lost"} :
             revoking' = [revoking EXCEPT !.state = "answered", !.result = result]
      BY DEF ServerRefusesRevoke
    <2>2. revoking' \in [target : GrantRow, of : SomeAccount, state : {"none", "sent", "answered"},
                         result : {"none", "ok", "already", "lost"}]
      BY <2>1 DEF GrantsIInv, PanelTyped
    <2> QED BY <2>2 DEF GrantsIInv, PanelTyped, ServerRefusesRevoke, modalVars
  <1>7. PanelGiven'
    BY <1>1, NoRevocationTyped DEF GrantsIInv, ServerTyped, PanelTyped, PanelGiven, ReadingsCurrent, Given, ServerRefusesRevoke, modalVars, serverGrants, SomeAccount
  <1>3. NothingYet' /\ RequestOfSome'
    BY DEF GrantsIInv, NothingYet, RequestOfSome, ServerRefusesRevoke, Reading, modalVars
  <1>4. ReadingsCurrent'
    BY <1>1, ReadingIsReading DEF GrantsIInv, ReadingsCurrent, ServerRefusesRevoke, modalVars, Given
  <1>5. UndoneGone'
    BY <1>1 DEF GrantsIInv, UndoneGone, ServerRefusesRevoke, serverGrants
  <1>6. AuthorizationsCurrent'
    BY DEF GrantsIInv, AuthorizationsCurrent, ReadingsCurrent, ServerRefusesRevoke, modalVars
  <1> QED BY <1>1, <1>2, <1>3, <1>4, <1>5, <1>6, <1>7 DEF GrantsIInv

LEMMA GrantOkKeeps == ASSUME GrantsIInv, GrantOk PROVE GrantsIInv'
  <1>1. UNCHANGED serverGrants /\ ServerTyped' /\ \A rows : Given(rows) => Given(rows)'
    <2>1. UNCHANGED serverGrants
      BY DEF GrantOk, serverGrants
    <2> QED BY <2>1, ServerUnchanged DEF GrantsIInv
  <1>2. PanelTyped'
    BY NoRevocationTyped DEF GrantsIInv, PanelTyped, GrantOk, LoadAuthList, ClosedModal, CancelReads, Loaded, NoRequest, HeldIdle, modalVars, SomeAccount
  <1>7. PanelGiven'
    BY <1>1, NoRevocationTyped DEF GrantsIInv, ServerTyped, PanelTyped, PanelGiven, ReadingsCurrent, Given, GrantOk, LoadAuthList, ClosedModal, CancelReads, Loaded, NoRequest, HeldIdle, modalVars, serverGrants, SomeAccount
  <1>3. NothingYet' /\ RequestOfSome'
    BY DEF GrantsIInv, NothingYet, RequestOfSome, GrantOk, LoadAuthList, ClosedModal, CancelReads, Loaded, NoRequest, HeldIdle, Reading, modalVars
  <1>4. ReadingsCurrent'
    BY <1>1, ReadingIsReading DEF GrantsIInv, ReadingsCurrent, GrantOk, LoadAuthList, ClosedModal, CancelReads, Loaded, NoRequest, HeldIdle, modalVars, Given
  <1>5. UndoneGone'
    BY <1>1 DEF GrantsIInv, UndoneGone, GrantOk, LoadAuthList, ClosedModal, CancelReads, Loaded, NoRequest, HeldIdle, serverGrants
  <1>6. AuthorizationsCurrent'
    BY DEF GrantsIInv, AuthorizationsCurrent, ReadingsCurrent, GrantOk, LoadAuthList, ClosedModal, CancelReads, Loaded, NoRequest, HeldIdle, modalVars
  <1> QED BY <1>1, <1>2, <1>3, <1>4, <1>5, <1>6, <1>7 DEF GrantsIInv

LEMMA GrantFailsKeeps == ASSUME GrantsIInv, GrantFails PROVE GrantsIInv'
  <1>1. UNCHANGED serverGrants /\ ServerTyped' /\ \A rows : Given(rows) => Given(rows)'
    <2>1. UNCHANGED serverGrants
      BY DEF GrantFails, serverGrants
    <2> QED BY <2>1, ServerUnchanged DEF GrantsIInv
  <1>2. PanelTyped'
    BY NoRevocationTyped DEF GrantsIInv, PanelTyped, GrantFails, CancelReads, NoRequest, HeldLoading, HeldIdle, modalVars, SomeAccount
  <1>7. PanelGiven'
    BY <1>1, NoRevocationTyped DEF GrantsIInv, ServerTyped, PanelTyped, PanelGiven, ReadingsCurrent, Given, GrantFails, CancelReads, NoRequest, HeldLoading, HeldIdle, modalVars, serverGrants, SomeAccount
  <1>3. NothingYet' /\ RequestOfSome'
    BY DEF GrantsIInv, NothingYet, RequestOfSome, GrantFails, CancelReads, NoRequest, HeldLoading, HeldIdle, Reading, modalVars
  <1>4. ReadingsCurrent'
    BY <1>1, ReadingIsReading DEF GrantsIInv, ReadingsCurrent, GrantFails, CancelReads, NoRequest, HeldLoading, HeldIdle, modalVars, Given
  <1>5. UndoneGone'
    BY <1>1 DEF GrantsIInv, UndoneGone, GrantFails, CancelReads, NoRequest, HeldLoading, HeldIdle, serverGrants
  <1>6. AuthorizationsCurrent'
    BY DEF GrantsIInv, AuthorizationsCurrent, ReadingsCurrent, GrantFails, CancelReads, NoRequest, HeldLoading, HeldIdle, modalVars
  <1> QED BY <1>1, <1>2, <1>3, <1>4, <1>5, <1>6, <1>7 DEF GrantsIInv

LEMMA RevokeOkKeeps == ASSUME GrantsIInv, RevokeOk PROVE GrantsIInv'
  <1>1. UNCHANGED serverGrants /\ ServerTyped' /\ \A rows : Given(rows) => Given(rows)'
    <2>1. UNCHANGED serverGrants
      BY DEF RevokeOk, serverGrants
    <2> QED BY <2>1, ServerUnchanged DEF GrantsIInv
  <1>2. PanelTyped'
    BY NoRevocationTyped DEF GrantsIInv, PanelTyped, RevokeOk, LoadAuthList, CancelReads, Loaded, modalVars, SomeAccount
  <1>7. PanelGiven'
    BY <1>1, NoRevocationTyped DEF GrantsIInv, ServerTyped, PanelTyped, PanelGiven, ReadingsCurrent, Given, RevokeOk, LoadAuthList, CancelReads, Loaded, modalVars, serverGrants, SomeAccount
  <1>3. NothingYet' /\ RequestOfSome'
    BY DEF GrantsIInv, NothingYet, RequestOfSome, RevokeOk, LoadAuthList, CancelReads, Loaded, NoRevocation, Authorization, Reading, modalVars
  <1>4. ReadingsCurrent'
    BY <1>1, ReadingIsReading DEF GrantsIInv, ReadingsCurrent, RevokeOk, LoadAuthList, CancelReads, Loaded, NoRevocation, Authorization, modalVars, Given
  <1>5. UndoneGone'
    <2>1. revoking.of \in Grantees /\ revoking.target \in GrantRow /\ revoking.target.id <= lastGrant
          /\ revoking.target \notin active[revoking.of]
      BY DEF RevokeOk, GrantsIInv, RequestOfSome, PanelTyped, PanelGiven, UndoneGone, SomeAccount
    <2>2. undone' = undone \union {<<revoking.of, revoking.target>>} /\ revoking'.state = "none"
      BY NoRevocationTyped DEF RevokeOk
    <2> QED BY <1>1, <2>1, <2>2 DEF GrantsIInv, UndoneGone, serverGrants
  <1>6. AuthorizationsCurrent'
    BY DEF GrantsIInv, AuthorizationsCurrent, ReadingsCurrent, RevokeOk, LoadAuthList, CancelReads, Loaded, NoRevocation, Authorization, modalVars
  <1> QED BY <1>1, <1>2, <1>3, <1>4, <1>5, <1>6, <1>7 DEF GrantsIInv

LEMMA RevokeFailsKeeps == ASSUME GrantsIInv, RevokeFails PROVE GrantsIInv'
  <1>1. UNCHANGED serverGrants /\ ServerTyped' /\ \A rows : Given(rows) => Given(rows)'
    <2>1. UNCHANGED serverGrants
      BY DEF RevokeFails, serverGrants
    <2> QED BY <2>1, ServerUnchanged DEF GrantsIInv
  <1>2. PanelTyped'
    BY NoRevocationTyped DEF GrantsIInv, PanelTyped, RevokeFails, modalVars, SomeAccount
  <1>7. PanelGiven'
    BY <1>1, NoRevocationTyped DEF GrantsIInv, ServerTyped, PanelTyped, PanelGiven, ReadingsCurrent, Given, RevokeFails, modalVars, serverGrants, SomeAccount
  <1>3. NothingYet' /\ RequestOfSome'
    BY DEF GrantsIInv, NothingYet, RequestOfSome, RevokeFails, Reading, modalVars
  <1>4. ReadingsCurrent'
    BY <1>1, ReadingIsReading DEF GrantsIInv, ReadingsCurrent, RevokeFails, modalVars, Given
  <1>5. UndoneGone'
    BY <1>1 DEF GrantsIInv, UndoneGone, RevokeFails, serverGrants
  <1>6. AuthorizationsCurrent'
    BY DEF GrantsIInv, AuthorizationsCurrent, ReadingsCurrent, RevokeFails, modalVars
  <1> QED BY <1>1, <1>2, <1>3, <1>4, <1>5, <1>6, <1>7 DEF GrantsIInv

LEMMA ServerGrantsKeeps == ASSUME GrantsIInv, ServerGrants PROVE GrantsIInv'
  <1>1. PICK x \in SomeAccount, d \in Granted \union {Nothing} : Grants(x, d)
    BY DEF ServerGrants, GrantsIInv, PanelTyped, SomeAccount
  <1>2. /\ ServerTyped' /\ lastGrant' = lastGrant + 1 /\ lastGrant \in Nat
        /\ \A b \in Grantees, row \in GrantRow :
              row.id <= lastGrant /\ row \notin active[b] => row \notin active'[b]
    BY <1>1, GrantsKeep DEF GrantsIInv, ServerTyped
  <1>3. UNCHANGED <<account, authList, modalVars, readings, undone, revoking>>
    BY DEF ServerGrants
  <1>4. /\ ReadingsCurrent' /\ AuthorizationsCurrent'
        /\ \A u \in undone' : \E b \in Grantees, row \in GrantRow :
              u = <<b, row>> /\ row.id <= lastGrant' /\ row \notin active'[b]
    BY <1>2, <1>3, ServerChangeKeeps
  <1>5. UndoneGone'
    <2>1. revoking.target \in GrantRow /\ revoking.target.id <= lastGrant
          /\ (revoking.state = "answered" => revoking.of \in Grantees)
      BY DEF GrantsIInv, PanelTyped, PanelGiven, RequestOfSome, SomeAccount
    <2> QED BY <1>2, <1>3, <1>4, <2>1 DEF GrantsIInv, UndoneGone
  <1>6. PanelTyped' /\ RequestOfSome' /\ NothingYet'
    BY <1>3 DEF ServerGrants, GrantsIInv, PanelTyped, RequestOfSome, NothingYet, modalVars
  <1>7. PanelGiven'
    BY <1>2, <1>3 DEF GrantsIInv, PanelGiven, PanelTyped, GrantRow
  <1> QED BY <1>2, <1>4, <1>5, <1>6, <1>7 DEF GrantsIInv

LEMMA OthersGrantKeeps == ASSUME GrantsIInv, NEW a \in Grantees, NEW c \in Granted, OthersGrant(a, c) PROVE GrantsIInv'
  <1>1. PICK x \in SomeAccount, d \in Granted \union {Nothing} : Grants(x, d)
    BY DEF OthersGrant, GrantsIInv, PanelTyped, SomeAccount
  <1>2. /\ ServerTyped' /\ lastGrant' = lastGrant + 1 /\ lastGrant \in Nat
        /\ \A b \in Grantees, row \in GrantRow :
              row.id <= lastGrant /\ row \notin active[b] => row \notin active'[b]
    BY <1>1, GrantsKeep DEF GrantsIInv, ServerTyped
  <1>3. UNCHANGED <<account, authList, modalVars, readings, undone, revoking>>
    BY DEF OthersGrant
  <1>4. /\ ReadingsCurrent' /\ AuthorizationsCurrent'
        /\ \A u \in undone' : \E b \in Grantees, row \in GrantRow :
              u = <<b, row>> /\ row.id <= lastGrant' /\ row \notin active'[b]
    BY <1>2, <1>3, ServerChangeKeeps
  <1>5. UndoneGone'
    <2>1. revoking.target \in GrantRow /\ revoking.target.id <= lastGrant
          /\ (revoking.state = "answered" => revoking.of \in Grantees)
      BY DEF GrantsIInv, PanelTyped, PanelGiven, RequestOfSome, SomeAccount
    <2> QED BY <1>2, <1>3, <1>4, <2>1 DEF GrantsIInv, UndoneGone
  <1>6. PanelTyped' /\ RequestOfSome' /\ NothingYet'
    BY <1>3 DEF OthersGrant, GrantsIInv, PanelTyped, RequestOfSome, NothingYet, modalVars
  <1>7. PanelGiven'
    BY <1>2, <1>3 DEF GrantsIInv, PanelGiven, PanelTyped, GrantRow
  <1> QED BY <1>2, <1>4, <1>5, <1>6, <1>7 DEF GrantsIInv

LEMMA ServerRevokesKeeps == ASSUME GrantsIInv, ServerRevokes PROVE GrantsIInv'
  <1>1. PICK x, y : x \in SomeAccount /\ x = revoking.of /\ y = revoking.target /\ Revokes(x, y)
    BY DEF ServerRevokes, GrantsIInv, PanelTyped, SomeAccount
  <1>2. UNCHANGED <<lastGrant, account, authList, modalVars, readings, undone>>
        /\ revoking'.target = revoking.target /\ revoking'.of = revoking.of
    BY DEF ServerRevokes, GrantsIInv, PanelTyped
  <1>3. /\ ServerTyped' /\ lastGrant \in Nat /\ \A b \in Grantees : active'[b] \subseteq active[b]
        /\ x \in Grantees => y \notin active'[x]
    BY <1>1, <1>2, RevokesKeep DEF GrantsIInv, ServerTyped
  <1>4. /\ ReadingsCurrent' /\ AuthorizationsCurrent'
        /\ \A u \in undone' : \E b \in Grantees, z \in GrantRow :
              u = <<b, z>> /\ z.id <= lastGrant' /\ z \notin active'[b]
    BY <1>2, <1>3, ServerChangeKeeps
  <1>5. UndoneGone'
    <2>1. revoking'.state = "answered" => revoking.of \in Grantees
      BY DEF ServerRevokes, GrantsIInv, PanelTyped, RequestOfSome, SomeAccount
    <2>2. revoking'.state = "answered" /\ revoking'.result \in {"ok", "already"}
             => revoking.target \notin active'[revoking.of]
      BY <1>1, <1>3, <2>1 DEF ServerRevokes, GrantsIInv, UndoneGone
    <2> QED BY <1>2, <1>4, <2>2 DEF UndoneGone
  <1>6. PanelTyped' /\ RequestOfSome' /\ NothingYet'
    BY <1>2 DEF ServerRevokes, GrantsIInv, PanelTyped, RequestOfSome, NothingYet, modalVars
  <1>7. PanelGiven'
    BY <1>2 DEF GrantsIInv, PanelGiven
  <1> QED BY <1>3, <1>4, <1>5, <1>6, <1>7 DEF GrantsIInv

LEMMA OthersRevokeKeeps == ASSUME GrantsIInv, NEW a \in Grantees, NEW row \in active[a], OthersRevoke(a, row) PROVE GrantsIInv'
  <1>1. PICK x, y : x \in SomeAccount /\ x = a /\ y = row /\ Revokes(x, y)
    BY DEF OthersRevoke, GrantsIInv, PanelTyped, SomeAccount
  <1>2. UNCHANGED <<lastGrant, account, authList, modalVars, readings, undone>>
        /\ revoking'.target = revoking.target /\ revoking'.of = revoking.of
    BY DEF OthersRevoke, GrantsIInv, PanelTyped
  <1>3. /\ ServerTyped' /\ lastGrant \in Nat /\ \A b \in Grantees : active'[b] \subseteq active[b]
        /\ x \in Grantees => y \notin active'[x]
    BY <1>1, <1>2, RevokesKeep DEF GrantsIInv, ServerTyped
  <1>4. /\ ReadingsCurrent' /\ AuthorizationsCurrent'
        /\ \A u \in undone' : \E b \in Grantees, z \in GrantRow :
              u = <<b, z>> /\ z.id <= lastGrant' /\ z \notin active'[b]
    BY <1>2, <1>3, ServerChangeKeeps
  <1>5. UndoneGone'
    <2>1. revoking'.state = "answered" => revoking.of \in Grantees
      BY DEF OthersRevoke, GrantsIInv, PanelTyped, RequestOfSome, SomeAccount
    <2>2. revoking'.state = "answered" /\ revoking'.result \in {"ok", "already"}
             => revoking.target \notin active'[revoking.of]
      BY <1>1, <1>3, <2>1 DEF OthersRevoke, GrantsIInv, UndoneGone
    <2> QED BY <1>2, <1>4, <2>2 DEF UndoneGone
  <1>6. PanelTyped' /\ RequestOfSome' /\ NothingYet'
    BY <1>2 DEF OthersRevoke, GrantsIInv, PanelTyped, RequestOfSome, NothingYet, modalVars
  <1>7. PanelGiven'
    BY <1>2 DEF GrantsIInv, PanelGiven
  <1> QED BY <1>3, <1>4, <1>5, <1>6, <1>7 DEF GrantsIInv

LEMMA GrantsKept == GrantsIInv /\ [GrantsNext]_grantVars => GrantsIInv'
  <1> SUFFICES ASSUME GrantsIInv, [GrantsNext]_grantVars PROVE GrantsIInv'
    OBVIOUS
  <1>1. CASE UNCHANGED grantVars
    BY <1>1 DEF grantVars, modalVars, GrantsIInv, ServerTyped, PanelTyped, PanelGiven, NothingYet, RequestOfSome,
                ReadingsCurrent, UndoneGone, AuthorizationsCurrent, Given
  <1>2. CASE GrantsNext
    <2>1. CASE ServerAnswers
      BY <2>1, ServerGrantsKeeps, ServerRefusesGrantKeeps, ServerRevokesKeeps, ServerRefusesRevokeKeeps,
         ServerShowsKeeps, ServerHoldsKeeps DEF ServerAnswers
    <2>2. CASE AnswerArrives
      BY <2>2, GrantOkKeeps, GrantFailsKeeps, RevokeOkKeeps, RevokeFailsKeeps, ReadingArrivesKeeps,
         ReadingFailsKeeps DEF AnswerArrives
    <2>3. CASE \E a \in Grantees : \/ \E c \in Granted : OthersGrant(a, c)
                                  \/ \E row \in active[a] : OthersRevoke(a, row)
      BY <2>3, OthersGrantKeeps, OthersRevokeKeeps
    <2> QED BY <1>2, <2>1, <2>2, <2>3, SelectAccountKeeps, OpenGrantKeeps, CloseGrantKeeps, SearchClustersKeeps,
               RetryHeldKeeps, SubmitGrantKeeps, PickKeeps, AskRevokeKeeps, CancelRevokeKeeps, ConfirmRevokeKeeps
               DEF GrantsNext
  <1> QED BY <1>1, <1>2

(* The authorizations shown are those of the account on screen, a revoked  *)
(* one does not come back, and the Clusters withheld from the candidates   *)
(* are those of the account the modal is open for: for any number of       *)
(* accounts, Clusters and pages.                                           *)
THEOREM AuthorizationsAlwaysCurrent == GrantsSpec => []AuthorizationsCurrent
  <1>1. GrantsIInv => AuthorizationsCurrent
    BY DEF GrantsIInv
  <1> QED BY <1>1, GrantsInitially, GrantsKept, PTL DEF GrantsSpec

\* The bounds that the panel's loop over the pages keeps, and where the Clusters
\* it holds, offers and grants come from.
GrantsShaped ==
    /\ GrantsTypeOK
    /\ \A r \in readings : r.ids \subseteq Granted
    /\ granting.state = "sent" => granting.cluster \in Granted

LEMMA NewReadingShaped ==
    \A kind, of : Reading(kind, of).page \in 1 .. HeldPages /\ Reading(kind, of).ids = {}
  BY AuthorizationsAssumption DEF Reading

LEMMA GrantedTyped ==
    ASSUME GrantsShaped, ServerTyped, NEW a \in SomeAccount, NEW c \in Granted, Grants(a, c)
    PROVE  /\ \A b \in Grantees : ClustersOf(active'[b]) \subseteq Granted
           /\ lastGrant' \in 0 .. LastGrant
  <1>1. ASSUME NEW b \in Grantees
        PROVE  active'[b] \subseteq active[b] \union {Authorization(c, lastGrant + 1)}
    BY DEF Grants, ServerTyped
  <1>2. ASSUME NEW b \in Grantees, NEW x \in active'[b] PROVE x.cluster \in Granted
    BY <1>1, <1>2 DEF GrantsShaped, GrantsTypeOK, ClustersOf, Authorization
  <1> QED BY <1>2, AuthorizationsAssumption DEF Grants, ClustersOf, GrantsShaped, GrantsTypeOK

LEMMA RevokedTyped ==
    ASSUME GrantsShaped, ServerTyped, NEW a, NEW row, Revokes(a, row)
    PROVE  \A b \in Grantees : ClustersOf(active'[b]) \subseteq Granted
  <1>1. ASSUME NEW b \in Grantees PROVE active'[b] \subseteq active[b]
    BY DEF Revokes, ServerTyped
  <1> QED BY <1>1 DEF GrantsShaped, GrantsTypeOK, ClustersOf

LEMMA HoldsShaped ==
    ASSUME GrantsIInv, GrantsShaped, NEW r \in readings, ServerHolds(r)
    PROVE  GrantsShaped'
  <1>0. r.page \in 1 .. HeldPages /\ HeldPages \in Nat
    BY AuthorizationsAssumption DEF GrantsShaped, GrantsTypeOK
  <1> DEFINE ids == r.ids \union ClustersOf(NewestPage(active[r.of], r.page))
  <1>1. PICK s : /\ readings' = (readings \ {r}) \union {s}
                 /\ \/ s = [r EXCEPT !.done = TRUE, !.ids = ids]
                    \/ ~(r.page >= HeldPages) /\ s = [r EXCEPT !.page = r.page + 1, !.ids = ids]
    <2> DEFINE last == \/ NewestPage(active[r.of], r.page) = {}
                       \/ Cardinality(ids) >= Cardinality(active[r.of])
                       \/ r.page >= HeldPages
    <2>1. readings' = (readings \ {r}) \union {IF last THEN [r EXCEPT !.done = TRUE, !.ids = ids]
                                               ELSE [r EXCEPT !.page = r.page + 1, !.ids = ids]}
      BY DEF ServerHolds
    <2>2. CASE last
      BY <2>1, <2>2
    <2>3. CASE ~last
      <3>1. ~(r.page >= HeldPages)
        BY <2>3
      <3> HIDE DEF last, ids
      <3> QED BY <2>1, <2>3, <3>1
    <2> QED BY <2>2, <2>3
  <1>2. r.of \in Grantees
    BY DEF ServerHolds, GrantsIInv, ReadingsCurrent, NothingYet, PanelTyped, SomeAccount
  <1>3. ids \subseteq Granted
    BY <1>2 DEF NewestPage, ClustersOf, GrantsShaped, GrantsTypeOK
  <1>4. PICK S : r \in ReadingOf(S)
    BY DEF GrantsIInv, ReadingsCurrent, IsReading
  <1> HIDE DEF ids
  <1>5. s.ids = ids /\ s.page \in {r.page, r.page + 1}
    BY <1>1, <1>4 DEF ReadingOf
  <1>6. s.page \in 1 .. HeldPages
    <2>1. CASE s = [r EXCEPT !.done = TRUE, !.ids = ids]
      BY <1>0, <1>4, <2>1 DEF ReadingOf
    <2>2. CASE ~(r.page >= HeldPages)
      BY <1>0, <1>5, <2>2
    <2> QED BY <1>1, <2>1, <2>2
  <1> QED BY <1>1, <1>3, <1>5, <1>6 DEF ServerHolds, GrantsShaped, GrantsTypeOK, serverGrants, modalVars

LEMMA OtherReadingsShaped ==
    ASSUME GrantsIInv, GrantsShaped, NEW r \in readings,
           ServerShows(r) \/ ReadingArrives(r) \/ ReadingFails(r)
    PROVE  GrantsShaped'
  <1>1. CASE ServerShows(r)
    <2>1. PICK S : r \in ReadingOf(S)
      BY DEF GrantsIInv, ReadingsCurrent, IsReading
    <2>2. PICK s : s = [r EXCEPT !.done = TRUE, !.rows = active[r.of]]
      OBVIOUS
    <2>3. s.ids = r.ids /\ s.page = r.page
      BY <2>1, <2>2 DEF ReadingOf
    <2>4. readings' = (readings \ {r}) \union {s}
      BY <1>1, <2>2 DEF ServerShows
    <2> QED BY <1>1, <2>3, <2>4 DEF ServerShows, GrantsShaped, GrantsTypeOK, serverGrants, modalVars
  <1>2. CASE ReadingArrives(r)
    BY <1>2 DEF ReadingArrives, GrantsShaped, GrantsTypeOK, serverGrants, Loaded
  <1>3. CASE ReadingFails(r)
    BY <1>3 DEF ReadingFails, GrantsShaped, GrantsTypeOK, serverGrants, Loaded, HeldIdle, OptionsLoading
  <1> QED BY <1>1, <1>2, <1>3

LEMMA GrantingShaped ==
    ASSUME GrantsIInv, GrantsShaped,
           SubmitGrant \/ ServerGrants \/ ServerRefusesGrant \/ GrantOk \/ GrantFails
    PROVE  GrantsShaped'
  <1>1. CASE SubmitGrant
    BY <1>1 DEF SubmitGrant, Candidates, GrantsShaped, GrantsTypeOK, serverGrants, modalVars
  <1>2. CASE ServerGrants
    <2>1. granting.cluster \in Granted /\ granting.account \in SomeAccount /\ ServerTyped
      BY <1>2 DEF ServerGrants, GrantsShaped, GrantsIInv, PanelTyped
    <2>2. /\ \A b \in Grantees : ClustersOf(active'[b]) \subseteq Granted
          /\ lastGrant' \in 0 .. LastGrant
      BY <1>2, <2>1, GrantedTyped DEF ServerGrants
    <2>3. granting'.state = "answered"
      BY <1>2 DEF ServerGrants, GrantsIInv, PanelTyped
    <2> QED BY <1>2, <2>2, <2>3 DEF ServerGrants, GrantsShaped, GrantsTypeOK, modalVars
  <1>3. CASE ServerRefusesGrant
    <2>1. granting'.state = "answered"
      BY <1>3 DEF ServerRefusesGrant, GrantsIInv, PanelTyped
    <2> QED BY <1>3, <2>1 DEF ServerRefusesGrant, GrantsShaped, GrantsTypeOK, serverGrants, modalVars
  <1>4. CASE GrantOk
    BY <1>4, NewReadingShaped DEF GrantOk, LoadAuthList, CancelReads, ClosedModal, NoRequest, Loaded,
        HeldIdle, OptionsLoading, GrantsShaped, GrantsTypeOK, serverGrants
  <1>5. CASE GrantFails
    BY <1>5, NewReadingShaped DEF GrantFails, CancelReads, NoRequest, HeldIdle, HeldLoading,
        GrantsShaped, GrantsTypeOK, serverGrants
  <1> QED BY <1>1, <1>2, <1>3, <1>4, <1>5

LEMMA RevokingShaped ==
    ASSUME GrantsIInv, GrantsShaped,
           \/ CancelRevoke \/ ConfirmRevoke \/ ServerRevokes \/ ServerRefusesRevoke
           \/ RevokeOk \/ RevokeFails \/ \E row \in authList.rows : AskRevoke(row)
    PROVE  GrantsShaped'
  <1>1. revoking' = NoRevocation => revoking'.state = "none"
    BY DEF NoRevocation
  <1>2. \A x, y : revoking' = [NoRevocation EXCEPT !.target = x, !.of = y] => revoking'.state = "none"
    BY DEF NoRevocation
  <1>3. \A x, y : revoking' = [revoking EXCEPT !.state = x, !.result = y] => revoking'.state = x
    BY DEF GrantsIInv, PanelTyped
  <1>4. \A x : revoking' = [revoking EXCEPT !.state = x] => revoking'.state = x
    BY DEF GrantsIInv, PanelTyped
  <1>5. CASE ServerRevokes
    <2>1. \A b \in Grantees : ClustersOf(active'[b]) \subseteq Granted
      BY <1>5, RevokedTyped DEF ServerRevokes, GrantsIInv
    <2> QED BY <1>3, <1>5, <2>1 DEF ServerRevokes, GrantsShaped, GrantsTypeOK, modalVars
  <1>6. CASE RevokeOk
    BY <1>1, <1>6, NewReadingShaped DEF RevokeOk, LoadAuthList, CancelReads, Loaded, GrantsShaped,
        GrantsTypeOK, serverGrants, modalVars
  <1>7. CASE CancelRevoke \/ ConfirmRevoke \/ ServerRefusesRevoke \/ RevokeFails
                \/ \E row \in authList.rows : AskRevoke(row)
    <2>1. revoking'.state \in {"none", "sent", "answered"}
      <3>1. CASE CancelRevoke
        BY <1>1, <3>1 DEF CancelRevoke
      <3>2. CASE ConfirmRevoke
        BY <1>4, <3>2 DEF ConfirmRevoke
      <3>3. CASE ServerRefusesRevoke
        BY <1>3, <3>3 DEF ServerRefusesRevoke
      <3>4. CASE RevokeFails
        BY <1>3, <3>4 DEF RevokeFails
      <3>5. ASSUME NEW row \in authList.rows, AskRevoke(row) PROVE revoking'.state = "none"
        BY <1>2, <3>5 DEF AskRevoke
      <3> QED BY <1>7, <3>1, <3>2, <3>3, <3>4, <3>5
    <2>2. UNCHANGED <<active, lastGrant, account, authList, modalVars, granting, readings>>
      BY <1>7 DEF CancelRevoke, ConfirmRevoke, ServerRefusesRevoke, RevokeFails, AskRevoke, serverGrants
    <2> QED BY <2>1, <2>2 DEF GrantsShaped, GrantsTypeOK, modalVars
  <1> QED BY <1>5, <1>6, <1>7

LEMMA GrantsStayShaped ==
    GrantsIInv /\ GrantsShaped /\ [GrantsNext]_grantVars => GrantsShaped'
  <1> SUFFICES ASSUME GrantsIInv, GrantsShaped, [GrantsNext]_grantVars PROVE GrantsShaped'
    OBVIOUS
  <1>1. ASSUME NEW a \in Grantees, SelectAccount(a) PROVE GrantsShaped'
    BY <1>1, NewReadingShaped DEF SelectAccount, LoadAuthList, CancelReads, Loaded, GrantsShaped,
        GrantsTypeOK, serverGrants, modalVars
  <1>2. CASE OpenGrant
    BY <1>2, NewReadingShaped DEF OpenGrant, HeldLoading, HeldIdle, OptionsLoading, GrantsShaped,
        GrantsTypeOK, serverGrants
  <1>3. CASE CloseGrant
    BY <1>3 DEF CloseGrant, ClosedModal, CancelReads, HeldIdle, OptionsLoading, GrantsShaped,
        GrantsTypeOK, serverGrants
  <1>4. CASE SearchClusters \/ RetryHeld
    BY <1>4, NewReadingShaped DEF SearchClusters, RetryHeld, CancelReads, HeldLoading, HeldIdle,
        OptionsLoading, GrantsShaped, GrantsTypeOK, serverGrants
  <1>5. ASSUME NEW c \in Granted \union {Nothing}, Pick(c) PROVE GrantsShaped'
    BY <1>5 DEF Pick, GrantsShaped, GrantsTypeOK, serverGrants
  <1>6. ASSUME NEW a \in Grantees, NEW c \in Granted, OthersGrant(a, c) PROVE GrantsShaped'
    BY <1>6, GrantedTyped DEF OthersGrant, GrantsIInv, SomeAccount, GrantsShaped, GrantsTypeOK, modalVars
  <1>7. ASSUME NEW a \in Grantees, NEW row \in active[a], OthersRevoke(a, row) PROVE GrantsShaped'
    BY <1>7, RevokedTyped DEF OthersRevoke, GrantsIInv, GrantsShaped, GrantsTypeOK, modalVars
  <1>8. CASE UNCHANGED grantVars
    BY <1>8 DEF grantVars, GrantsShaped, GrantsTypeOK
  <1> QED BY <1>1, <1>2, <1>3, <1>4, <1>5, <1>6, <1>7, <1>8, HoldsShaped, OtherReadingsShaped,
          GrantingShaped, RevokingShaped DEF GrantsNext, ServerAnswers, AnswerArrives

(* The panel holds, offers and grants only Clusters that there are, and    *)
(* its loop over the pages of an account's list ends at the last page.     *)
THEOREM GrantsTyping == GrantsSpec => []GrantsTypeOK
  <1>1. GrantsInit => GrantsShaped
    BY AuthorizationsAssumption DEF GrantsInit, GrantsShaped, GrantsTypeOK, ClustersOf, Authorization,
        Loaded, HeldIdle, OptionsLoading, NoRequest, NoRevocation
  <1>2. GrantsShaped => GrantsTypeOK
    BY DEF GrantsShaped
  <1> QED BY <1>1, <1>2, GrantsInitially, GrantsKept, GrantsStayShaped, PTL DEF GrantsSpec

-----------------------------------------------------------------------------
(* The imports.                                                            *)

\* A call, whatever its fingerprint is.
CallOf(K) ==
    [op : {"validate", "import"}, batch : Nat, rows : Seq(Names), key : K, readable : BOOLEAN,
     stage : {"sent", "writing", "answered"}, todo : Seq(Names), staged : SUBSET Names,
     failed : BOOLEAN, result : {"none", "valid", "errors", "ok", "error"}, mounted : BOOLEAN]
IsCall(c) == \E K : c \in CallOf(K)

ImportTyped ==
    /\ input \in [carrier : {"file", "text"}, format : {"csv", "xlsx"}, file : Files, text : Batches]
    /\ created \in [Names -> Nat \union {NoFile}]
    /\ batches \in Seq(Seq(Names))
    /\ \A h \in Names : created[h] \in {NoFile} \union 0 .. Len(batches)
    /\ \A c \in calls : IsCall(c)

\* The panel waits for one call, and shows which.
OneAwaited ==
    /\ \A c, d \in calls : c.mounted /\ d.mounted => c = d
    /\ \A c \in calls :
          /\ c.op = "validate" => c.mounted
          /\ c.stage = "answered" => c.mounted
          /\ c.mounted /\ c.op = "validate" => validation.kind = "loading"
          /\ c.mounted /\ c.op = "import" => confirmation = "loading"

\* What is validated is the input, and so is what was reported free of errors.
Validated ==
    /\ \A c \in calls : c.op = "validate" => c.rows = Content(input)
    /\ validation = Reported("success", FALSE) => reported = Content(input)

\* A batch is confirmed once.
BatchOfItsOwn ==
    \A c \in calls : c.op = "import" =>
        /\ c.batch \in DOMAIN batches /\ c.rows = batches[c.batch]
        /\ \A d \in calls : d.op = "import" /\ d.batch = c.batch => d = c

\* What a batch has staged, while it is being written.
Staging(c) ==
    /\ c.op = "validate" => c.stage # "writing"
    /\ c.stage # "writing" => c.staged = {}
    /\ c.stage = "sent" => ~c.failed /\ c.todo = c.rows
    /\ c.stage = "writing" /\ ~c.failed => c.staged \union ToSet(c.todo) = ToSet(c.rows)
    /\ \A h \in c.staged : created[h] = NoFile
    /\ c.op = "import" /\ c.stage # "answered" => \A h \in Names : created[h] # c.batch
    /\ c.op = "import" /\ c.result = "ok" =>
          c.stage = "answered" /\ \A h \in ToSet(c.rows) : created[h] = c.batch
StagedApart == \A c, d \in calls : c # d => c.staged \intersect d.staged = {}

ImportIInv ==
    /\ ImportTyped /\ OneAwaited /\ Validated /\ BatchOfItsOwn
    /\ (\A c \in calls : Staging(c)) /\ StagedApart
    /\ ImportsWhatWasValidated /\ BatchesWhole

-----------------------------------------------------------------------------
LEMMA ContentTyped ==
    ASSUME ImportTyped, Sendable(input)
    PROVE  Content(input) \in Seq(Names)
  <1>1. input.file \in Files /\ input.text \in Batches /\ Batches \subseteq Seq(Names)
    BY ImportsAssumption DEF ImportTyped
  <1>2. input.file # NoFile => input.file.rows \in Batches
    BY <1>1 DEF Files, File
  <1> QED BY <1>1, <1>2 DEF Sendable, Content

LEMMA CallTyped ==
    ASSUME ImportTyped, Sendable(input), NEW op \in {"validate", "import"}, NEW b \in Nat
    PROVE  /\ IsCall(Call(op, b)) /\ Call(op, b).op = op /\ Call(op, b).batch = b
           /\ Call(op, b).rows = Content(input) /\ Call(op, b).todo = Content(input)
           /\ Call(op, b).stage = "sent" /\ Call(op, b).staged = {} /\ ~Call(op, b).failed
           /\ Call(op, b).result = "none" /\ Call(op, b).mounted
  <1>1. Readable(input) \in BOOLEAN
    BY DEF Readable
  <1>2. Call(op, b) \in CallOf({TargetKey(input)})
    BY <1>1, ContentTyped DEF Call, CallOf
  <1> QED BY <1>2 DEF IsCall, Call

LEMMA AnsweredTyped ==
    ASSUME NEW c, IsCall(c), NEW result \in {"valid", "errors", "ok", "error"},
           NEW d, d = Answered(c, result)
    PROVE  /\ IsCall(d) /\ d.op = c.op /\ d.batch = c.batch /\ d.rows = c.rows /\ d.mounted = c.mounted
           /\ d.stage = "answered" /\ d.staged = {} /\ d.result = result
  <1>1. PICK K : c \in CallOf(K)
    BY DEF IsCall
  <1>2. <<>> \in Seq(Names)
    OBVIOUS
  <1>3. [c EXCEPT !.stage = "answered", !.todo = <<>>] \in CallOf(K)
    BY <1>1, <1>2 DEF CallOf
  <1>4. d \in CallOf(K)
    BY <1>1, <1>2, <1>3 DEF CallOf, Answered
  <1>5. d.op = c.op /\ d.batch = c.batch /\ d.rows = c.rows /\ d.mounted = c.mounted
    BY <1>1 DEF CallOf, Answered
  <1>6. d.stage = "answered" /\ d.staged = {} /\ d.result = result
    BY <1>1 DEF CallOf, Answered
  <1> QED BY <1>4, <1>5, <1>6 DEF IsCall

LEMMA ToSetTail ==
    ASSUME NEW s \in Seq(Names), s # <<>>
    PROVE  /\ Head(s) \in Names /\ Tail(s) \in Seq(Names)
           /\ ToSet(s) = {Head(s)} \union ToSet(Tail(s))
  <1>1. Len(s) \in Nat \ {0} /\ DOMAIN s = 1 .. Len(s) /\ Head(s) = s[1] /\ Head(s) \in Names
    OBVIOUS
  <1>2. Tail(s) \in Seq(Names) /\ DOMAIN Tail(s) = 1 .. (Len(s) - 1)
        /\ \A k \in 1 .. (Len(s) - 1) : Tail(s)[k] = s[k + 1]
    BY <1>1
  <1>3. ASSUME NEW k \in 2 .. Len(s) PROVE s[k] = Tail(s)[k - 1] /\ k - 1 \in DOMAIN Tail(s)
    BY <1>1, <1>2
  <1>4. ToSet(s) \subseteq {Head(s)} \union ToSet(Tail(s))
    <2> SUFFICES ASSUME NEW k \in 1 .. Len(s) PROVE s[k] \in {Head(s)} \union ToSet(Tail(s))
      BY <1>1 DEF ToSet
    <2>1. CASE k = 1
      BY <1>1, <2>1
    <2>2. CASE k \in 2 .. Len(s)
      BY <1>3, <2>2 DEF ToSet
    <2> QED BY <1>1, <2>1, <2>2
  <1>5. ToSet(Tail(s)) \subseteq ToSet(s) /\ Head(s) \in ToSet(s)
    BY <1>1, <1>2 DEF ToSet
  <1> QED BY <1>1, <1>2, <1>4, <1>5

LEMMA ImportInitially == ImportInit => ImportIInv
  <1> SUFFICES ASSUME ImportInit PROVE ImportIInv
    OBVIOUS
  <1>1. ImportTyped
    BY ImportsAssumption DEF ImportInit, ImportTyped, EmptyInput, Files
  <1> QED BY <1>1 DEF ImportIInv, ImportInit, OneAwaited, Validated, BatchOfItsOwn, StagedApart,
            ImportsWhatWasValidated, BatchesWhole, NotValidated, Reported

\* While nothing is loading, no call is awaited.
LEMMA NoneAwaited ==
    ASSUME ImportIInv, ~Importing
    PROVE  \A c \in calls : ~c.mounted /\ c.op = "import" /\ c.stage # "answered"
  <1>1. \A c \in calls : c.op \in {"validate", "import"} /\ c.mounted \in BOOLEAN
    BY DEF ImportIInv, ImportTyped, IsCall, CallOf
  <1> QED BY <1>1 DEF ImportIInv, OneAwaited, Importing

LEMMA ChangeInputKeepsAll == ASSUME ImportIInv, ChangeInput PROVE ImportIInv'
  <1>1. \A c \in calls : ~c.mounted /\ c.op = "import"
    BY NoneAwaited DEF ChangeInput
  <1>2. UNCHANGED <<calls, created, batches>> /\ validation' = NotValidated /\ confirmation' = "idle"
    BY DEF ChangeInput
  <1>3. ImportTyped'
    <2>1. NoFile \in Files /\ <<>> \in Batches
      BY ImportsAssumption DEF Files
    <2>2. input' \in [carrier : {"file", "text"}, format : {"csv", "xlsx"}, file : Files, text : Batches]
      BY <2>1 DEF ChangeInput, Edited, CarrierPatch, ImportIInv, ImportTyped
    <2> QED BY <1>2, <2>2 DEF ImportIInv, ImportTyped
  <1>4. OneAwaited' /\ Validated' /\ BatchOfItsOwn'
    BY <1>1, <1>2 DEF ImportIInv, OneAwaited, Validated, BatchOfItsOwn, NotValidated, Reported
  <1>5. (\A c \in calls : Staging(c))' /\ StagedApart'
    BY <1>2 DEF ImportIInv, Staging, StagedApart
  <1>6. ImportsWhatWasValidated' /\ BatchesWhole'
    BY <1>1, <1>2 DEF ImportIInv, ImportsWhatWasValidated, BatchesWhole
  <1> QED BY <1>3, <1>4, <1>5, <1>6 DEF ImportIInv

LEMMA RefuseInputKeeps == ASSUME ImportIInv, RefuseInput PROVE ImportIInv'
  <1>1. \A c \in calls : ~c.mounted /\ c.op = "import"
    BY NoneAwaited DEF RefuseInput
  <1>2. UNCHANGED <<input, confirmation, calls, created, batches, reported>> /\ validation' = NotValidated
    BY DEF RefuseInput
  <1>3. ImportTyped' /\ OneAwaited' /\ Validated' /\ BatchOfItsOwn'
    BY <1>1, <1>2 DEF ImportIInv, ImportTyped, OneAwaited, Validated, BatchOfItsOwn, NotValidated, Reported
  <1>4. (\A c \in calls : Staging(c))' /\ StagedApart'
    BY <1>2 DEF ImportIInv, Staging, StagedApart
  <1>5. ImportsWhatWasValidated' /\ BatchesWhole'
    BY <1>1, <1>2 DEF ImportIInv, ImportsWhatWasValidated, BatchesWhole
  <1> QED BY <1>3, <1>4, <1>5 DEF ImportIInv

LEMMA ValidateKeeps == ASSUME ImportIInv, Validate PROVE ImportIInv'
  <1>1. \A c \in calls : ~c.mounted /\ c.op = "import"
    BY NoneAwaited DEF Validate
  <1>2. PICK d : d = Call("validate", 0)
    OBVIOUS
  <1>3. /\ IsCall(d) /\ d.op = "validate" /\ d.rows = Content(input) /\ d.todo = d.rows
        /\ d.stage = "sent" /\ d.staged = {} /\ ~d.failed /\ d.result = "none" /\ d.mounted
    BY <1>2, CallTyped DEF Validate, ImportIInv
  <1>4. /\ UNCHANGED <<input, confirmation, created, batches, reported>>
        /\ validation' = Reported("loading", FALSE) /\ calls' = calls \union {d}
    BY <1>2 DEF Validate
  <1>5. ImportTyped' /\ BatchOfItsOwn'
    BY <1>3, <1>4 DEF ImportIInv, ImportTyped, BatchOfItsOwn
  <1>6. OneAwaited' /\ Validated'
    BY <1>1, <1>3, <1>4 DEF ImportIInv, OneAwaited, Validated, Reported
  <1>7. (\A c \in calls : Staging(c))' /\ StagedApart'
    BY <1>3, <1>4 DEF ImportIInv, Staging, StagedApart
  <1>8. ImportsWhatWasValidated' /\ BatchesWhole'
    BY <1>1, <1>3, <1>4 DEF ImportIInv, ImportsWhatWasValidated, BatchesWhole
  <1> QED BY <1>5, <1>6, <1>7, <1>8 DEF ImportIInv

LEMMA ConfirmImportKeeps == ASSUME ImportIInv, ConfirmImport PROVE ImportIInv'
  <1>1. \A c \in calls : ~c.mounted /\ c.op = "import"
    BY NoneAwaited DEF ConfirmImport
  <1> DEFINE b == Len(batches) + 1
  <1>2. PICK d : d = Call("import", b)
    OBVIOUS
  <1>3. b \in Nat /\ DOMAIN batches = 1 .. (b - 1) /\ batches \in Seq(Seq(Names)) /\ Content(input) \in Seq(Names)
    BY ContentTyped DEF ConfirmImport, ImportIInv, ImportTyped
  <1>4. /\ IsCall(d) /\ d.op = "import" /\ d.batch = b /\ d.rows = Content(input) /\ d.todo = d.rows
        /\ d.stage = "sent" /\ d.staged = {} /\ ~d.failed /\ d.result = "none" /\ d.mounted
    BY <1>2, <1>3, CallTyped DEF ConfirmImport, ImportIInv
  <1>5. /\ UNCHANGED <<input, validation, created, reported>> /\ calls' = calls \union {d}
        /\ confirmation' = "loading" /\ batches' = Append(batches, Content(input))
    BY <1>2 DEF ConfirmImport
  <1>6. /\ batches' \in Seq(Seq(Names)) /\ DOMAIN batches' = 1 .. b /\ Len(batches') = b
        /\ batches'[b] = Content(input) /\ \A i \in 1 .. (b - 1) : batches'[i] = batches[i]
    BY <1>3, <1>5
  <1>7. \A h \in Names : created[h] \in {NoFile} \union 0 .. (b - 1) /\ created[h] # b
    BY <1>3, ImportsAssumption DEF ImportIInv, ImportTyped
  <1>8. reported = Content(input)
    BY DEF ConfirmImport, CanConfirm, ImportIInv, Validated, Reported
  <1> HIDE DEF b
  <1>9. ImportTyped'
    BY <1>3, <1>4, <1>5, <1>6, <1>7 DEF ImportIInv, ImportTyped
  <1>10. OneAwaited' /\ Validated'
    BY <1>1, <1>4, <1>5 DEF ImportIInv, OneAwaited, Validated
  <1>11. BatchOfItsOwn'
    <2>1. \A c \in calls : c.op = "import" => c.batch \in 1 .. (b - 1) /\ c.batch # b
      BY <1>3 DEF ImportIInv, BatchOfItsOwn
    <2> QED BY <1>3, <1>4, <1>5, <1>6, <2>1 DEF ImportIInv, BatchOfItsOwn
  <1>12. (\A c \in calls : Staging(c))' /\ StagedApart'
    BY <1>4, <1>5, <1>7 DEF ImportIInv, Staging, StagedApart
  <1>13. ImportsWhatWasValidated'
    BY <1>1, <1>4, <1>5, <1>8 DEF ImportsWhatWasValidated
  <1>14. BatchesWhole'
    <2>1. {h \in Names : created[h] = b} = {}
      BY <1>7
    <2>2. \A i \in 1 .. b : i = b \/ i \in 1 .. (b - 1)
      BY <1>3
    <2> QED BY <1>3, <1>5, <1>6, <2>1, <2>2 DEF ImportIInv, BatchesWhole
  <1> QED BY <1>9, <1>10, <1>11, <1>12, <1>13, <1>14 DEF ImportIInv

LEMMA ValidationArrivesKeeps ==
    ASSUME ImportIInv, NEW c \in calls, ValidationArrives(c) PROVE ImportIInv'
  <1>1. c.op = "validate" /\ c.mounted /\ c.rows = Content(input) /\ UNCHANGED <<input, created, batches>>
        /\ calls' = calls \ {c}
    BY DEF ValidationArrives, ImportIInv, OneAwaited, Validated
  <1>2. \A d \in calls' : d \in calls /\ ~d.mounted /\ d.op # "validate"
    BY <1>1 DEF ImportIInv, OneAwaited
  <1>3. ImportTyped' /\ OneAwaited' /\ BatchOfItsOwn'
    BY <1>1, <1>2 DEF ImportIInv, ImportTyped, OneAwaited, BatchOfItsOwn
  <1>4. Validated'
    <2>1. CASE validation' = Reported("success", c.result = "errors") /\ c.result \in {"valid", "errors"}
                 /\ reported' = IF c.result = "valid" THEN c.rows ELSE reported
      <3>1. validation' = Reported("success", FALSE) => c.result = "valid"
        BY <2>1 DEF Reported
      <3> QED BY <1>1, <1>2, <2>1, <3>1 DEF Validated
    <2>2. CASE validation' = Reported("error", FALSE)
      BY <1>1, <1>2, <2>2 DEF Validated, Reported
    <2> QED BY <2>1, <2>2 DEF ValidationArrives
  <1>5. (\A d \in calls : Staging(d))' /\ StagedApart'
    BY <1>1, <1>2 DEF ImportIInv, Staging, StagedApart
  <1>6. ImportsWhatWasValidated' /\ BatchesWhole'
    BY <1>1, <1>2 DEF ImportIInv, ImportsWhatWasValidated, BatchesWhole, ValidationArrives
  <1> QED BY <1>3, <1>4, <1>5, <1>6 DEF ImportIInv

LEMMA ImportArrivesKeeps ==
    ASSUME ImportIInv, NEW c \in calls, ImportArrives(c) PROVE ImportIInv'
  <1>1. c.op = "import" /\ c.mounted /\ c.rows = reported
        /\ UNCHANGED <<input, validation, created, batches, reported>> /\ calls' = calls \ {c}
    BY DEF ImportArrives, ImportIInv, OneAwaited, ImportsWhatWasValidated
  <1>2. \A d \in calls' : d \in calls /\ ~d.mounted
    BY <1>1 DEF ImportIInv, OneAwaited
  <1>3. ImportTyped' /\ OneAwaited' /\ Validated' /\ BatchOfItsOwn'
    BY <1>1, <1>2 DEF ImportIInv, ImportTyped, OneAwaited, Validated, BatchOfItsOwn
  <1>4. (\A d \in calls : Staging(d))' /\ StagedApart'
    BY <1>1, <1>2 DEF ImportIInv, Staging, StagedApart
  <1>5. ImportsWhatWasValidated'
    BY <1>1, <1>2 DEF ImportsWhatWasValidated
  <1>6. confirmation' = "success" => \E i \in DOMAIN batches :
           batches[i] = reported /\ \A h \in ToSet(reported) : created[h] = i
    BY <1>1 DEF ImportArrives, ImportIInv, BatchOfItsOwn, Staging
  <1>7. BatchesWhole'
    BY <1>1, <1>6 DEF ImportIInv, BatchesWhole
  <1> QED BY <1>3, <1>4, <1>5, <1>7 DEF ImportIInv

LEMMA ReopenPanelKeeps == ASSUME ImportIInv, ReopenPanel PROVE ImportIInv'
  <1>1. UNCHANGED <<created, batches>> /\ input' = EmptyInput /\ validation' = NotValidated
        /\ confirmation' = "idle"
    BY DEF ReopenPanel
  <1>2. ASSUME NEW d \in calls'
        PROVE  \E c \in calls :
                  /\ IsCall(d) /\ ~d.mounted /\ c.stage # "answered" /\ c.op = "import"
                  /\ d.op = c.op /\ d.batch = c.batch /\ d.rows = c.rows /\ d.stage = c.stage
                  /\ d.todo = c.todo /\ d.staged = c.staged /\ d.failed = c.failed /\ d.result = c.result
                  /\ d = [c EXCEPT !.mounted = FALSE]
    <2>1. PICK c \in calls : c.op = "import" /\ c.stage # "answered" /\ d = [c EXCEPT !.mounted = FALSE]
      BY DEF ReopenPanel
    <2>2. PICK K : c \in CallOf(K)
      BY DEF ImportIInv, ImportTyped, IsCall
    <2>3. d \in CallOf(K)
      BY <2>1, <2>2 DEF CallOf
    <2> QED BY <2>1, <2>2, <2>3 DEF CallOf, IsCall
  <1>3. ImportTyped'
    BY <1>1, <1>2, ImportsAssumption DEF ImportIInv, ImportTyped, EmptyInput, Files
  <1>4. OneAwaited' /\ Validated' /\ ImportsWhatWasValidated'
    BY <1>1, <1>2 DEF OneAwaited, Validated, ImportsWhatWasValidated, NotValidated, Reported
  <1>5. BatchOfItsOwn'
    <2> SUFFICES ASSUME NEW d \in calls', d.op = "import"
                 PROVE  /\ d.batch \in DOMAIN batches /\ d.rows = batches[d.batch]
                        /\ \A e \in calls' : e.op = "import" /\ e.batch = d.batch => e = d
      BY <1>1 DEF BatchOfItsOwn
    <2>1. PICK c \in calls : /\ c.op = "import" /\ d.batch = c.batch /\ d.rows = c.rows
                             /\ d = [c EXCEPT !.mounted = FALSE]
      BY <1>2
    <2>2. ASSUME NEW e \in calls', e.batch = d.batch PROVE e = d
      <3>1. PICK b \in calls : b.op = "import" /\ e.batch = b.batch /\ e = [b EXCEPT !.mounted = FALSE]
        BY <1>2
      <3>2. b = c
        BY <2>1, <2>2, <3>1 DEF ImportIInv, BatchOfItsOwn
      <3> QED BY <2>1, <3>1, <3>2
    <2> QED BY <2>1, <2>2 DEF ImportIInv, BatchOfItsOwn
  <1>6. (\A d \in calls : Staging(d))'
    BY <1>1, <1>2 DEF ImportIInv, Staging
  <1>7. StagedApart'
    <2> SUFFICES ASSUME NEW d \in calls', NEW e \in calls', d # e PROVE d.staged \intersect e.staged = {}
      BY DEF StagedApart
    <2>1. PICK c \in calls : d.staged = c.staged /\ d = [c EXCEPT !.mounted = FALSE]
      BY <1>2
    <2>2. PICK b \in calls : e.staged = b.staged /\ e = [b EXCEPT !.mounted = FALSE]
      BY <1>2
    <2>3. b # c
      BY <2>1, <2>2
    <2> QED BY <2>1, <2>2, <2>3 DEF ImportIInv, StagedApart
  <1>8. BatchesWhole'
    BY <1>1 DEF ImportIInv, BatchesWhole
  <1> QED BY <1>3, <1>4, <1>5, <1>6, <1>7, <1>8 DEF ImportIInv

\* The server moves one call.
LEMMA MovedCalls ==
    ASSUME NEW c \in calls, NEW d, Moved(c, d)
    PROVE  \A e \in calls' : \/ e = d /\ (d.stage = "answered" => d.mounted)
                             \/ e \in calls /\ e # c
  BY DEF Moved

LEMMA ServerStepKeeps ==
    ASSUME ImportIInv, NEW c \in calls, NEW d, IsCall(d), Moved(c, d), ServerOnly,
           d.op = c.op, d.batch = c.batch, d.rows = c.rows, d.mounted = c.mounted,
           created' \in [Names -> Nat \union {NoFile}],
           \A h \in Names : \/ created'[h] = created[h]
                            \/ /\ created[h] = NoFile /\ h \in c.staged
                               /\ c.op = "import" /\ created'[h] = c.batch,
           Staging(d)', \A e \in calls : e # c => d.staged \intersect e.staged = {},
           BatchesWhole'
    PROVE  ImportIInv'
  <1>1. UNCHANGED <<input, validation, confirmation, batches, reported>>
    BY DEF ServerOnly, panelVars
  <1>2. \A e \in calls' : \/ e = d /\ (d.stage = "answered" => d.mounted)
                          \/ e \in calls /\ e # c
    BY MovedCalls
  <1>3. c.op = "import" => c.batch \in DOMAIN batches /\ c.rows = batches[c.batch]
          /\ \A e \in calls : e.op = "import" /\ e.batch = c.batch => e = c
    BY DEF ImportIInv, BatchOfItsOwn
  <1>4. batches \in Seq(Seq(Names)) /\ DOMAIN batches = 1 .. Len(batches) /\ Len(batches) \in Nat
    BY DEF ImportIInv, ImportTyped
  <1>5. ImportTyped'
    <2>1. \A h \in Names : created'[h] \in {NoFile} \union 0 .. Len(batches)
      BY <1>3, <1>4 DEF ImportIInv, ImportTyped
    <2> QED BY <1>1, <1>2, <2>1 DEF ImportIInv, ImportTyped
  <1>6. OneAwaited' /\ Validated' /\ ImportsWhatWasValidated'
    BY <1>1, <1>2 DEF ImportIInv, OneAwaited, Validated, ImportsWhatWasValidated
  <1>7. BatchOfItsOwn'
    BY <1>1, <1>2, <1>3 DEF ImportIInv, BatchOfItsOwn
  <1>8. ASSUME NEW e \in calls, e # c PROVE Staging(e)'
    <2>1. \A h \in e.staged : created'[h] = created[h]
      <3>1. e.staged \subseteq Names /\ e.staged \intersect c.staged = {}
        BY <1>8 DEF ImportIInv, StagedApart, ImportTyped, IsCall, CallOf
      <3> QED BY <3>1
    <2>2. e.op = "import" => e.batch # c.batch \/ c.op # "import"
      BY <1>3, <1>8
    <2>3. e.op = "import" => ToSet(e.rows) \subseteq Names /\ e.batch \in Nat
      BY DEF ImportIInv, ImportTyped, IsCall, CallOf, ToSet
    <2>4. \A h \in Names : created[h] # NoFile => created'[h] = created[h]
      OBVIOUS
    <2>5. e.op = "import" => e.batch # NoFile
      BY <2>3, ImportsAssumption
    <2> QED BY <2>1, <2>2, <2>3, <2>4, <2>5 DEF ImportIInv, Staging
  <1>9. (\A e \in calls : Staging(e))'
    BY <1>2, <1>8
  <1>10. StagedApart'
    BY <1>2 DEF ImportIInv, StagedApart
  <1> QED BY <1>5, <1>6, <1>7, <1>9, <1>10 DEF ImportIInv

\* A call that ends without a commit.
LEMMA AnsweredKeeps ==
    ASSUME ImportIInv, NEW c \in calls, c.stage # "answered",
           NEW result \in {"valid", "errors", "error"},
           Moved(c, Answered(c, result)), ServerOnly, UNCHANGED created
    PROVE  ImportIInv'
  <1>1. PICK d : d = Answered(c, result)
    OBVIOUS
  <1>2. IsCall(c)
    BY DEF ImportIInv, ImportTyped
  <1>3. /\ IsCall(d) /\ d.op = c.op /\ d.batch = c.batch /\ d.rows = c.rows /\ d.mounted = c.mounted
        /\ d.stage = "answered" /\ d.staged = {} /\ d.result = result
    BY <1>1, <1>2, AnsweredTyped
  <1>4. Staging(d)'
    BY <1>3 DEF Staging
  <1>5. BatchesWhole'
    BY DEF ImportIInv, BatchesWhole, ServerOnly, panelVars
  <1>6. Moved(c, d) /\ created' \in [Names -> Nat \union {NoFile}]
    BY <1>1 DEF ImportIInv, ImportTyped
  <1> QED BY <1>3, <1>4, <1>5, <1>6, ServerStepKeeps

LEMMA ServerRechecksKeeps ==
    ASSUME ImportIInv, NEW c \in calls, ServerRechecks(c) PROVE ImportIInv'
  <1>1. c.op = "import" /\ c.stage = "sent" /\ UNCHANGED created /\ ServerOnly
    BY DEF ServerRechecks
  <1>2. CASE Moved(c, Answered(c, "error"))
    BY <1>1, <1>2, AnsweredKeeps
  <1>3. CASE Moved(c, [c EXCEPT !.stage = "writing"])
    <2>1. PICK d : d = [c EXCEPT !.stage = "writing"]
      OBVIOUS
    <2>2. PICK K : c \in CallOf(K)
      BY DEF ImportIInv, ImportTyped, IsCall
    <2>3. d \in CallOf(K)
      BY <2>1, <2>2 DEF CallOf
    <2>4. /\ d.op = c.op /\ d.batch = c.batch /\ d.rows = c.rows /\ d.mounted = c.mounted
          /\ d.stage = "writing" /\ d.staged = c.staged /\ d.todo = c.todo /\ d.failed = c.failed
          /\ d.result = c.result
      BY <2>1, <2>2 DEF CallOf
    <2>5. Staging(c)
      BY DEF ImportIInv
    <2>6. Staging(d)'
      BY <1>1, <2>4, <2>5 DEF Staging
    <2>7. BatchesWhole'
      BY <1>1 DEF ImportIInv, BatchesWhole, ServerOnly, panelVars
    <2>8. Moved(c, d) /\ created' \in [Names -> Nat \union {NoFile}] /\ IsCall(d)
          /\ \A e \in calls : e # c => d.staged \intersect e.staged = {}
      BY <1>1, <1>3, <2>1, <2>3, <2>4 DEF ImportIInv, ImportTyped, IsCall, StagedApart
    <2> QED BY <1>1, <2>4, <2>6, <2>7, <2>8, ServerStepKeeps
  <1> QED BY <1>2, <1>3 DEF ServerRechecks

LEMMA StageRowKeeps == ASSUME ImportIInv, NEW c \in calls, StageRow(c) PROVE ImportIInv'
  <1>1. /\ c.stage = "writing" /\ c.todo # <<>> /\ Holders(c) = {}
        /\ UNCHANGED created /\ ServerOnly
    BY DEF StageRow
  <1>2. PICK K : c \in CallOf(K)
    BY DEF ImportIInv, ImportTyped, IsCall
  <1> DEFINE h == Head(c.todo)
  <1>3. h \in Names /\ Tail(c.todo) \in Seq(Names) /\ ToSet(c.todo) = {h} \union ToSet(Tail(c.todo))
    BY <1>1, <1>2, ToSetTail DEF CallOf
  <1>0. PICK fails \in BOOLEAN :
           /\ ~fails => created[h] = NoFile
           /\ \E d : /\ d = [c EXCEPT !.todo = Tail(c.todo),
                                      !.staged = IF fails THEN c.staged ELSE c.staged \union {h},
                                      !.failed = c.failed \/ fails]
                    /\ Moved(c, d)
    BY DEF StageRow, Taken
  <1>4. PICK d : /\ d = [c EXCEPT !.todo = Tail(c.todo),
                                  !.staged = IF fails THEN c.staged ELSE c.staged \union {h},
                                  !.failed = c.failed \/ fails]
                 /\ Moved(c, d)
    BY <1>0
  <1>5. d \in CallOf(K)
    BY <1>2, <1>3, <1>4 DEF CallOf
  <1>6. /\ d.op = c.op /\ d.batch = c.batch /\ d.rows = c.rows /\ d.mounted = c.mounted
        /\ d.stage = "writing" /\ d.todo = Tail(c.todo) /\ d.failed = (c.failed \/ fails)
        /\ d.staged = (IF fails THEN c.staged ELSE c.staged \union {h}) /\ d.result = c.result
    BY <1>1, <1>2, <1>4 DEF CallOf
  <1>7. Staging(c)
    BY DEF ImportIInv
  <1> HIDE DEF h
  <1>8. Staging(d)'
    <2>1. /\ c.op = "import" /\ d.op = "import"
          /\ c.failed \in BOOLEAN /\ d.failed \in BOOLEAN
          /\ c.staged \subseteq Names /\ ToSet(c.rows) \subseteq Names
      BY <1>1, <1>2, <1>5, <1>6, <1>7 DEF Staging, CallOf, ToSet
    <2>2. d.stage # "sent" /\ d.stage # "answered" /\ d.stage = "writing"
      BY <1>6
    <2>3. ASSUME ~d.failed PROVE d.staged \union ToSet(d.todo) = ToSet(d.rows)
      <3>1. ~fails /\ ~c.failed
        BY <1>4, <1>6, <2>1, <2>3
      <3>2. c.staged \union ({h} \union ToSet(Tail(c.todo))) = ToSet(c.rows)
        BY <1>1, <1>3, <1>7, <3>1 DEF Staging
      <3>3. d.staged = c.staged \union {h} /\ d.todo = Tail(c.todo) /\ d.rows = c.rows
        BY <1>6, <3>1
      <3> QED BY <3>2, <3>3
    <2>4. ASSUME NEW g \in d.staged PROVE created[g] = NoFile
      <3>1. g \in c.staged \/ (~fails /\ g = h)
        BY <1>6, <2>4
      <3> QED BY <1>0, <1>7, <3>1 DEF Staging, h
    <2>5. \A g \in Names : created[g] # d.batch
      <3>1. c.stage # "answered" /\ d.batch = c.batch
        BY <1>1, <1>6
      <3> QED BY <1>7, <2>1, <3>1 DEF Staging
    <2>6. d.result = "ok" => FALSE
      <3>1. c.stage # "answered" /\ d.result = c.result
        BY <1>1, <1>6
      <3> QED BY <1>7, <2>1, <3>1 DEF Staging
    <2> QED BY <1>1, <2>1, <2>2, <2>3, <2>4, <2>5, <2>6 DEF Staging
  <1>9. \A e \in calls : e # c => h \notin e.staged
    BY <1>1 DEF Holders, h
  <1>10. \A e \in calls : e # c => d.staged \intersect e.staged = {}
    BY <1>6, <1>9 DEF ImportIInv, StagedApart
  <1>11. BatchesWhole'
    BY <1>1 DEF ImportIInv, BatchesWhole, ServerOnly, panelVars
  <1>12. created' \in [Names -> Nat \union {NoFile}] /\ IsCall(d)
    BY <1>1, <1>5 DEF ImportIInv, ImportTyped, IsCall
  <1> QED BY <1>1, <1>4, <1>6, <1>8, <1>10, <1>11, <1>12, ServerStepKeeps

LEMMA FinishBatchKeeps == ASSUME ImportIInv, NEW c \in calls, FinishBatch(c) PROVE ImportIInv'
  <1>1. /\ c.stage = "writing" /\ c.todo = <<>> /\ ServerOnly
        /\ Moved(c, Answered(c, IF c.failed THEN "error" ELSE "ok"))
        /\ created' = [h \in Names |-> IF h \in c.staged /\ ~c.failed THEN c.batch ELSE created[h]]
    BY DEF FinishBatch
  <1>2. CASE c.failed
    <2>1. created' = created
      BY <1>1, <1>2 DEF ImportIInv, ImportTyped
    <2> QED BY <1>1, <1>2, <2>1, AnsweredKeeps
  <1>3. CASE ~c.failed
    <2>1. PICK d : d = Answered(c, "ok")
      OBVIOUS
    <2>2. IsCall(c) /\ Staging(c)
      BY DEF ImportIInv, ImportTyped
    <2>3. c.staged \subseteq Names /\ c.batch \in Nat /\ c.op \in {"validate", "import"}
      BY <2>2 DEF IsCall, CallOf
    <2>4. /\ IsCall(d) /\ d.op = c.op /\ d.batch = c.batch /\ d.rows = c.rows /\ d.mounted = c.mounted
          /\ d.stage = "answered" /\ d.staged = {} /\ d.result = "ok"
      BY <2>1, <2>2, AnsweredTyped
    <2>5. /\ c.op = "import" /\ c.staged = ToSet(c.rows)
          /\ \A h \in c.staged : created[h] = NoFile
          /\ \A h \in Names : created[h] # c.batch
      BY <1>1, <1>3, <2>2, <2>3 DEF Staging, ToSet
    <2>6. \A h \in Names : created'[h] = IF h \in c.staged THEN c.batch ELSE created[h]
      BY <1>1, <1>3
    <2>7. created' \in [Names -> Nat \union {NoFile}]
      BY <1>1, <2>3 DEF ImportIInv, ImportTyped
    <2>8. Staging(d)'
      BY <2>3, <2>4, <2>5, <2>6 DEF Staging
    <2>9. c.batch \in DOMAIN batches /\ c.rows = batches[c.batch]
      BY <2>5 DEF ImportIInv, BatchOfItsOwn
    <2>10. BatchesWhole'
      <3>1. UNCHANGED <<batches, confirmation, reported>>
        BY <1>1 DEF ServerOnly, panelVars
      <3>2. \A i \in DOMAIN batches : i \in Nat /\ i # NoFile
        BY ImportsAssumption DEF ImportIInv, ImportTyped
      <3>3. {h \in Names : created'[h] = c.batch} = ToSet(batches[c.batch])
        <4>1. ASSUME NEW h \in Names PROVE created'[h] = c.batch <=> h \in c.staged
          <5>1. created[h] # c.batch
            BY <2>5
          <5>2. created'[h] = IF h \in c.staged THEN c.batch ELSE created[h]
            BY <2>6
          <5> QED BY <5>1, <5>2
        <4>2. {h \in Names : created'[h] = c.batch} = c.staged
          BY <2>3, <4>1
        <4> QED BY <2>5, <2>9, <4>2
      <3>4. ASSUME NEW i \in DOMAIN batches, i # c.batch
            PROVE {h \in Names : created'[h] = i} = {h \in Names : created[h] = i}
        BY <2>5, <2>6, <3>2, <3>4
      <3>5. ASSUME NEW i \in DOMAIN batches, NEW h \in Names, created[h] = i PROVE created'[h] = i
        BY <2>5, <2>6, <3>2, <3>5
      <3>6. ASSUME NEW i \in DOMAIN batches PROVE ToSet(batches[i]) \subseteq Names
        BY DEF ImportIInv, ImportTyped, ToSet
      <3> QED BY <3>1, <3>3, <3>4, <3>5, <3>6 DEF ImportIInv, BatchesWhole
    <2> QED BY <1>1, <1>3, <2>1, <2>4, <2>5, <2>6, <2>7, <2>8, <2>10, ServerStepKeeps
  <1>4. c.failed \in BOOLEAN
    BY DEF ImportIInv, ImportTyped, IsCall, CallOf
  <1> QED BY <1>2, <1>3, <1>4

LEMMA OthersCreateKeeps == ASSUME ImportIInv, NEW h \in Names, OthersCreate(h) PROVE ImportIInv'
  <1>1. /\ UNCHANGED <<calls, input, validation, confirmation, batches, reported>>
        /\ created[h] = NoFile /\ created' = [created EXCEPT ![h] = 0]
        /\ \A c \in calls : h \notin c.staged
    BY DEF OthersCreate, ServerOnly, panelVars, Taken
  <1>2. /\ created' \in [Names -> Nat \union {NoFile}]
        /\ \A g \in Names : created'[g] = IF g = h THEN 0 ELSE created[g]
    BY <1>1 DEF ImportIInv, ImportTyped
  <1>3. Len(batches) \in Nat /\ DOMAIN batches = 1 .. Len(batches) /\ batches \in Seq(Seq(Names))
    BY DEF ImportIInv, ImportTyped
  <1>4. ImportTyped'
    BY <1>1, <1>2, <1>3 DEF ImportIInv, ImportTyped
  <1>5. OneAwaited' /\ Validated' /\ BatchOfItsOwn' /\ StagedApart' /\ ImportsWhatWasValidated'
    BY <1>1 DEF ImportIInv, OneAwaited, Validated, BatchOfItsOwn, StagedApart, ImportsWhatWasValidated
  <1>6. ASSUME NEW c \in calls PROVE Staging(c)'
    <2>1. c.staged \subseteq Names /\ ToSet(c.rows) \subseteq Names
      BY DEF ImportIInv, ImportTyped, IsCall, CallOf, ToSet
    <2>2. c.op = "import" => c.batch \in 1 .. Len(batches) /\ c.batch # 0 /\ c.batch # NoFile
      BY <1>3, ImportsAssumption DEF ImportIInv, BatchOfItsOwn
    <2> QED BY <1>1, <1>2, <2>1, <2>2 DEF ImportIInv, Staging
  <1>7. BatchesWhole'
    <2>1. ASSUME NEW i \in DOMAIN batches
          PROVE /\ {g \in Names : created'[g] = i} = {g \in Names : created[g] = i}
                /\ \A g \in Names : created[g] = i => created'[g] = i
                /\ ToSet(batches[i]) \subseteq Names
      <3>1. i # 0 /\ i # NoFile /\ ToSet(batches[i]) \subseteq Names
        BY <1>3, ImportsAssumption DEF ToSet
      <3> QED BY <1>1, <1>2, <3>1
    <2> QED BY <1>1, <2>1 DEF ImportIInv, BatchesWhole
  <1> QED BY <1>1, <1>4, <1>5, <1>6, <1>7 DEF ImportIInv

LEMMA ImportKept == ImportIInv /\ [ImportNext]_importVars => ImportIInv'
  <1> SUFFICES ASSUME ImportIInv, [ImportNext]_importVars PROVE ImportIInv'
    OBVIOUS
  <1>1. ASSUME NEW c \in calls, ServerStep(c) \/ BatchAborts(c) PROVE ImportIInv'
    <2>1. CASE ServerValidates(c)
      BY <2>1, AnsweredKeeps DEF ServerValidates
    <2>2. CASE DeadlockAborts(c)
      BY <2>2, AnsweredKeeps DEF DeadlockAborts
    <2>3. CASE BatchAborts(c)
      BY <2>3, AnsweredKeeps DEF BatchAborts
    <2> QED BY <1>1, <2>1, <2>2, <2>3, ServerRechecksKeeps, StageRowKeeps, FinishBatchKeeps DEF ServerStep
  <1>2. ASSUME NEW c \in calls, PanelStep(c) PROVE ImportIInv'
    BY <1>2, ValidationArrivesKeeps, ImportArrivesKeeps DEF PanelStep
  <1>3. CASE UNCHANGED importVars
    <2>1. UNCHANGED <<input, validation, confirmation, validatedKey, calls, created, batches, reported>>
      BY <1>3 DEF importVars
    <2>2. ImportTyped' /\ OneAwaited' /\ Validated'
      BY <2>1 DEF ImportIInv, ImportTyped, OneAwaited, Validated, Importing
    <2>3. BatchOfItsOwn' /\ StagedApart' /\ \A c \in calls' : Staging(c)'
      BY <2>1 DEF ImportIInv, BatchOfItsOwn, StagedApart, Staging
    <2>4. ImportsWhatWasValidated' /\ BatchesWhole'
      BY <2>1 DEF ImportIInv, ImportsWhatWasValidated, BatchesWhole
    <2> QED BY <2>2, <2>3, <2>4 DEF ImportIInv
  <1> QED BY <1>1, <1>2, <1>3, ChangeInputKeepsAll, RefuseInputKeeps, ValidateKeeps, ConfirmImportKeeps,
             ReopenPanelKeeps, OthersCreateKeeps DEF ImportNext

(* Only the content last validated without errors is sent for import, for  *)
(* any names and contents and however long the answers take.               *)
THEOREM AlwaysImportsWhatWasValidated == ImportSpec => []ImportsWhatWasValidated
  <1>1. ImportIInv => ImportsWhatWasValidated
    BY DEF ImportIInv
  <1> QED BY <1>1, ImportInitially, ImportKept, PTL DEF ImportSpec

(* A batch is created with every row of it or not at all, and success is   *)
(* reported only of one that is there, for any number of batches.          *)
THEOREM BatchesAlwaysWhole == ImportSpec => []BatchesWhole
  <1>1. ImportIInv => BatchesWhole
    BY DEF ImportIInv
  <1> QED BY <1>1, ImportInitially, ImportKept, PTL DEF ImportSpec

-----------------------------------------------------------------------------
\* What the panel shows has its kinds, and the calls and the batches their bounds.
ImportShaped ==
    /\ validation \in [kind : {"idle", "loading", "success", "error"}, errors : BOOLEAN]
    /\ confirmation \in {"idle", "loading", "success", "error"}
    /\ IsFiniteSet(calls) /\ Cardinality(calls) <= MaxCalls
    /\ Len(batches) <= MaxBatches

LEMMA MoreCalls ==
    ASSUME IsFiniteSet(calls), Cardinality(calls) < MaxCalls, NEW d
    PROVE  IsFiniteSet(calls \union {d}) /\ Cardinality(calls \union {d}) <= MaxCalls
  <1>1. Cardinality(calls) \in Nat /\ MaxCalls \in Nat
    BY FS_CardinalityType, ImportsAssumption
  <1>2. /\ IsFiniteSet(calls \union {d})
        /\ Cardinality(calls \union {d}) = IF d \in calls THEN Cardinality(calls) ELSE Cardinality(calls) + 1
    BY FS_AddElement
  <1> QED BY <1>1, <1>2

LEMMA FewerCalls ==
    ASSUME IsFiniteSet(calls), Cardinality(calls) <= MaxCalls, NEW S, S \subseteq calls
    PROVE  IsFiniteSet(S) /\ Cardinality(S) <= MaxCalls
  <1>1. IsFiniteSet(S) /\ Cardinality(S) <= Cardinality(calls)
    BY FS_Subset
  <1> QED BY <1>1, FS_CardinalityType, ImportsAssumption

LEMMA MovedCallsFit ==
    ASSUME IsFiniteSet(calls), Cardinality(calls) <= MaxCalls, NEW c \in calls, NEW d, Moved(c, d)
    PROVE  IsFiniteSet(calls') /\ Cardinality(calls') <= MaxCalls
  <1>1. /\ IsFiniteSet(calls \ {c}) /\ Cardinality(calls \ {c}) = Cardinality(calls) - 1
        /\ Cardinality(calls) \in Nat
    BY FS_RemoveElement, FS_CardinalityType
  <1>2. /\ IsFiniteSet((calls \ {c}) \union {d})
        /\ Cardinality((calls \ {c}) \union {d}) \in Nat
        /\ Cardinality((calls \ {c}) \union {d}) <= Cardinality(calls)
    <2> DEFINE rest == calls \ {c}
    <2>1. IsFiniteSet(rest) /\ Cardinality(rest) = Cardinality(calls) - 1
      BY <1>1
    <2> HIDE DEF rest
    <2>2. /\ IsFiniteSet(rest \union {d})
          /\ Cardinality(rest \union {d}) = IF d \in rest THEN Cardinality(rest) ELSE Cardinality(rest) + 1
      BY <2>1, FS_AddElement
    <2>3. Cardinality(rest \union {d}) \in Nat /\ Cardinality(rest) \in Nat
      BY <2>1, <2>2, FS_CardinalityType
    <2> QED BY <1>1, <2>1, <2>2, <2>3 DEF rest
  <1>3. calls' = calls \ {c} \/ calls' = (calls \ {c}) \union {d}
    BY DEF Moved
  <1>4. MaxCalls \in Nat
    BY ImportsAssumption
  <1>5. CASE calls' = calls \ {c}
    BY <1>1, <1>4, <1>5
  <1>6. CASE calls' = (calls \ {c}) \union {d}
    BY <1>1, <1>2, <1>4, <1>6
  <1> QED BY <1>3, <1>5, <1>6

LEMMA ReopenedCallsFit ==
    ASSUME IsFiniteSet(calls), Cardinality(calls) <= MaxCalls, ReopenPanel
    PROVE  IsFiniteSet(calls') /\ Cardinality(calls') <= MaxCalls
  <1> DEFINE kept == {d \in calls : d.op = "import" /\ d.stage # "answered"}
             closed == [c \in kept |-> [c EXCEPT !.mounted = FALSE]]
  <1>1. IsFiniteSet(kept) /\ Cardinality(kept) <= MaxCalls
    BY FewerCalls
  <1>2. closed \in Surjection(kept, calls')
    <2>1. calls' = {[c EXCEPT !.mounted = FALSE] : c \in kept}
      BY DEF ReopenPanel
    <2> HIDE DEF kept
    <2>2. closed \in [kept -> calls']
      BY <2>1
    <2>3. \A c \in kept : closed[c] = [c EXCEPT !.mounted = FALSE]
      OBVIOUS
    <2> HIDE DEF closed
    <2>4. \A d \in calls' : \E c \in kept : closed[c] = d
      BY <2>1, <2>3
    <2> QED BY <2>2, <2>4 DEF Surjection
  <1>3. IsFiniteSet(calls') /\ Cardinality(calls') <= Cardinality(kept)
    <2> HIDE DEF kept, closed
    <2> QED BY <1>1, <1>2, FS_Surjection
  <1> HIDE DEF kept, closed
  <1> QED BY <1>1, <1>3, FS_CardinalityType, ImportsAssumption

LEMMA ImportStaysShaped == ImportIInv /\ ImportShaped /\ [ImportNext]_importVars => ImportShaped'
  <1> SUFFICES ASSUME ImportIInv, ImportShaped, [ImportNext]_importVars PROVE ImportShaped'
    OBVIOUS
  <1>1. CASE ChangeInput \/ RefuseInput
    <2>1. /\ validation' = [kind |-> "idle", errors |-> FALSE] /\ confirmation' \in {"idle", confirmation}
          /\ UNCHANGED <<calls, batches>>
      BY <1>1 DEF ChangeInput, RefuseInput, NotValidated, Reported
    <2> QED BY <2>1 DEF ImportShaped
  <1>2. CASE Validate
    BY <1>2, MoreCalls DEF ImportShaped, Validate, Reported
  <1>3. CASE ConfirmImport
    <2>1. batches \in Seq(Seq(Names)) /\ Content(input) \in Seq(Names)
      BY <1>3, ContentTyped DEF ConfirmImport, ImportIInv, ImportTyped
    <2>2. Len(batches') <= MaxBatches
      BY <1>3, <2>1, ImportsAssumption DEF ConfirmImport
    <2> QED BY <1>3, <2>2, MoreCalls DEF ImportShaped, ConfirmImport
  <1>4. CASE ReopenPanel
    BY <1>4, ReopenedCallsFit DEF ImportShaped, ReopenPanel, NotValidated, Reported
  <1>5. ASSUME NEW c \in calls, PanelStep(c) PROVE ImportShaped'
    <2>1. /\ \/ validation' \in {validation, [kind |-> "error", errors |-> FALSE]}
             \/ \E e \in BOOLEAN : validation' = [kind |-> "success", errors |-> e]
          /\ confirmation' \in {confirmation, "idle", "success", "error"}
      <3>1. CASE ValidationArrives(c)
        <4>1. (c.result = "errors") \in BOOLEAN
          OBVIOUS
        <4> QED BY <3>1, <4>1 DEF ValidationArrives, Reported
      <3>2. CASE ImportArrives(c)
        BY <3>2 DEF ImportArrives
      <3> QED BY <1>5, <3>1, <3>2 DEF PanelStep
    <2>2. calls' \subseteq calls /\ UNCHANGED batches
      BY <1>5 DEF PanelStep, ValidationArrives, ImportArrives
    <2>3. validation' \in [kind : {"idle", "loading", "success", "error"}, errors : BOOLEAN]
      <3>1. \A e \in BOOLEAN, kind \in {"success", "error"} :
               [kind |-> kind, errors |-> e] \in [kind : {"idle", "loading", "success", "error"}, errors : BOOLEAN]
        OBVIOUS
      <3> QED BY <2>1, <3>1, Zenon DEF ImportShaped
    <2>4. confirmation' \in {"idle", "loading", "success", "error"}
      BY <2>1 DEF ImportShaped
    <2> QED BY <2>2, <2>3, <2>4, FewerCalls DEF ImportShaped
  <1>6. ASSUME NEW c \in calls, ServerStep(c) \/ BatchAborts(c) PROVE ImportShaped'
    <2>1. PICK d : Moved(c, d) /\ ServerOnly
      BY <1>6 DEF ServerStep, BatchAborts, ServerValidates, ServerRechecks, StageRow, DeadlockAborts, FinishBatch
    <2> QED BY <2>1, MovedCallsFit DEF ImportShaped, ServerOnly, panelVars
  <1>7. ASSUME NEW h \in Names, OthersCreate(h) PROVE ImportShaped'
    BY <1>7 DEF ImportShaped, OthersCreate, ServerOnly, panelVars
  <1>8. CASE UNCHANGED importVars
    BY <1>8 DEF ImportShaped, importVars
  <1> QED BY <1>1, <1>2, <1>3, <1>4, <1>5, <1>6, <1>7, <1>8 DEF ImportNext

(* No more calls are awaited than the bound, no batch is numbered beyond   *)
(* those confirmed, and what the panel shows is of its types.              *)
THEOREM ImportTyping == ImportSpec => []ImportTypeOK
  <1>1. ImportInit => ImportShaped
    BY FS_EmptySet, ImportsAssumption DEF ImportInit, ImportShaped, NotValidated, Reported
  <1>2. ImportIInv /\ ImportShaped => ImportTypeOK
    <2> SUFFICES ASSUME ImportIInv, ImportShaped PROVE ImportTypeOK
      OBVIOUS
    <2>1. Len(batches) \in Nat /\ created \in [Names -> Nat \union {NoFile}]
          /\ \A h \in Names : created[h] \in {NoFile} \union 0 .. Len(batches)
      BY DEF ImportIInv, ImportTyped
    <2>2. 0 .. Len(batches) \subseteq 0 .. MaxBatches
      BY <2>1, ImportsAssumption DEF ImportShaped
    <2>3. created \in [Names -> 0 .. MaxBatches \union {NoFile}]
      BY <2>1, <2>2
    <2> QED BY <2>3 DEF ImportIInv, ImportTyped, ImportShaped, ImportTypeOK
  <1> QED BY <1>1, <1>2, ImportInitially, ImportKept, ImportStaysShaped, PTL DEF ImportSpec

-----------------------------------------------------------------------------
(* The forms.                                                              *)

Ways == {"text", "verbatim", "secret", "optional", "number", "positive", "count", "free", "note",
         "choice", "reference", "link", "json"}

\* The forms as data: each field has one way to be read, and each mode renders
\* an input for what it sends.
SheetFits(s) ==
    /\ \A f \in DOMAIN s.read : s.read[f] \in Ways
    /\ s.patches = s.editInputs

LEMMA NetworkFits == SheetFits(NetworkForm)
  BY DEF SheetFits, Ways, NetworkForm, Form, NetworkRead, NetworkPatches, NetworkInputs
LEMMA IpPoolFits == SheetFits(IpPoolForm)
  BY DEF SheetFits, Ways, IpPoolForm, Form, IpPoolRead, IpPoolPatches, IpPoolInputs
LEMMA AddressFormsFit == SheetFits(ManualForm) /\ SheetFits(AutoForm) /\ SheetFits(AddressForm)
  BY DEF SheetFits, Ways, ManualForm, AutoForm, AddressForm, Form, AddressRead, Only, ManualInputs, AutoInputs,
         AddressPatches, AddressInputs
LEMMA InterfaceFits == SheetFits(InterfaceForm)
  BY DEF SheetFits, Ways, InterfaceForm, Form, InterfaceRead, InterfacePatches, InterfaceInputs
LEMMA ServiceFits == SheetFits(ServiceForm)
  BY DEF SheetFits, Ways, ServiceForm, Form, ServiceRead, ServicePatches, ServiceInputs
LEMMA EndpointFits == SheetFits(EndpointForm)
  BY DEF SheetFits, Ways, EndpointForm, Form, EndpointRead, EndpointPatches, EndpointInputs
LEMMA ClusterFits == SheetFits(ClusterForm)
  BY DEF SheetFits, Ways, ClusterForm, Form, ClusterRead, ClusterPatches, ClusterInputs
LEMMA BareMetalFits == SheetFits(BareMetalForm)
  BY DEF SheetFits, Ways, BareMetalForm, ResourceForm, Form, WithResource, ResourceRead, HardwareRead,
         ResourcePatches, ResourceInputs, HardwarePatches
LEMMA VirtualMachineFits == SheetFits(VirtualMachineForm)
  BY DEF SheetFits, Ways, VirtualMachineForm, ResourceForm, Form, WithResource, ResourceRead, MachineRead,
         ResourcePatches, ResourceInputs, MachinePatches
LEMMA AccountFits == SheetFits(AccountForm)
  BY DEF SheetFits, Ways, AccountForm, Form, AccountRead, AccountPatches
LEMMA ApiKeyFits == SheetFits(ApiKeyForm)
  BY DEF SheetFits, Ways, ApiKeyForm, Form, ApiKeyRead

LEMMA SheetsFit == \A s \in DOMAIN Sheet : SheetFits(Sheet[s])
  BY NetworkFits, IpPoolFits, AddressFormsFit, InterfaceFits, ServiceFits, EndpointFits, ClusterFits,
     BareMetalFits, VirtualMachineFits, AccountFits, ApiKeyFits DEF Sheet

\* What can stand in an input, and the values of a way: what shows as such a
\* text and is read back from it.
Typed(way) == Typeable(way) \union {Empty}
Storable(way, v) == Shows(way, v) \in Typed(way) /\ Reads(way, Shows(way, v)) = v

LEMMA Trims ==
    /\ Trim(First) = First /\ Trim(Second) = Second /\ Trim(Padded) = First /\ Trim(Zero) = Zero
    /\ Trim(Bad) = Bad /\ Trim(Empty) = Empty /\ Trim(Blanks) = Empty /\ Trim(Null) = Null
    /\ Trim(Loose) = Loose
  <1>1. \A core, padded : Trim(Text(core, padded)) = Text(core, FALSE)
    BY DEF Trim, Text
  <1> HIDE DEF Text, Trim
  <1>2. Trim(First) = First /\ Trim(Second) = Second /\ Trim(Padded) = First /\ Trim(Zero) = Zero
    BY <1>1 DEF First, Second, Padded, Zero
  <1>3. Trim(Bad) = Bad /\ Trim(Empty) = Empty /\ Trim(Blanks) = Empty /\ Trim(Null) = Null /\ Trim(Loose) = Loose
    BY <1>1 DEF Bad, Empty, Blanks, Null, Loose
  <1> QED BY <1>2, <1>3

LEMMA TextsApart ==
    /\ First \notin {Second, Padded, Zero, Bad, Empty, Blanks, Null, Wrong}
    /\ Second \notin {Padded, Zero, Bad, Empty, Blanks, Null, Wrong}
    /\ Padded \notin {Zero, Bad, Empty, Blanks, Null, Wrong}
    /\ Zero \notin {Bad, Empty, Blanks, Null, Wrong}
    /\ Bad \notin {Empty, Blanks, Null, Wrong}
    /\ Empty \notin {Blanks, Null, Wrong}
    /\ Blanks \notin {Null, Wrong}
    /\ Null # Wrong
    /\ Loose \notin {First, Second, Padded, Zero, Bad, Empty, Blanks, Null, Wrong}
  BY DEF Text, First, Second, Padded, Zero, Bad, Empty, Blanks, Null, Wrong, Loose

\* A text that is accepted means what was typed, and a value that can be
\* stored; a create that leaves it out leaves out nothing.
ReadBack(way) ==
    \A t \in Typed(way) : Reads(way, t) # Wrong =>
        /\ Storable(way, Reads(way, t)) /\ (way = "verbatim" => Storable(way, Trim(Reads(way, t))))
        /\ Meaning(Reads(way, t)) = Meaning(t) /\ Meaning(Trim(Reads(way, t))) = Meaning(t)
        /\ Meaning(t) = Loose <=> Reads(way, t) = Loose
        /\ Meaning(t) = Loose <=> Trim(Reads(way, t)) = Loose
        /\ Reads(way, t) \in {Null, Empty} \/ (way = "note" /\ Reads(way, t) = Blanks)
              => Meaning(t) = Null /\ (way \in Nullable \/ way = "json")

\* The values an object has, and gets from others, show as texts of their way.
StoresWhatShows(way) ==
    \A v \in Stored(way) \union {Second, First} : Storable(way, v)

LEMMA TextsReadBack == ReadBack("text") /\ StoresWhatShows("text")
  BY Trims, TextsApart
     DEF ReadBack, StoresWhatShows, Typed, Storable, Typeable, Reads, Shows, Meaning, Numbers, Ids, Trimmed,
         Nullable, Unchecked, Stored
LEMMA VerbatimReadBack == ReadBack("verbatim") /\ StoresWhatShows("verbatim")
  BY Trims, TextsApart
     DEF ReadBack, StoresWhatShows, Typed, Storable, Typeable, Reads, Shows, Meaning, Numbers, Ids, Trimmed,
         Nullable, Unchecked, Stored
LEMMA SecretsReadBack == ReadBack("secret") /\ StoresWhatShows("secret")
  BY Trims, TextsApart
     DEF ReadBack, StoresWhatShows, Typed, Storable, Typeable, Reads, Shows, Meaning, Numbers, Ids, Trimmed,
         Nullable, Unchecked, Stored
LEMMA OptionalsReadBack == ReadBack("optional") /\ StoresWhatShows("optional")
  <1>1. ReadBack("optional")
    BY Trims, TextsApart DEF ReadBack, Typed, Storable, Typeable, Reads, Shows, Meaning, Numbers, Ids, Trimmed, Nullable, Unchecked
  <1>2. \A v \in Stored("optional") \union {Second, First} : v \in {Null, First, Second}
    BY DEF Stored, Nullable
  <1>3. Shows("optional", Null) = Empty /\ Shows("optional", First) = First /\ Shows("optional", Second) = Second
    BY TextsApart DEF Shows
  <1>4. {Empty, First, Second} \subseteq Typed("optional")
    BY DEF Typed, Typeable, Numbers, Ids
  <1>5. Reads("optional", Empty) = Null /\ Reads("optional", First) = First /\ Reads("optional", Second) = Second
    BY Trims, TextsApart DEF Reads, Numbers, Ids, Trimmed, Nullable, Unchecked
  <1>6. \A v \in {Null, First, Second} : Storable("optional", v)
    BY <1>3, <1>4, <1>5 DEF Storable
  <1> QED BY <1>1, <1>2, <1>6 DEF StoresWhatShows
LEMMA NumbersReadBack == ReadBack("number") /\ StoresWhatShows("number")
  BY Trims, TextsApart
     DEF ReadBack, StoresWhatShows, Typed, Storable, Typeable, Reads, Shows, Meaning, Numbers, Ids, Trimmed,
         Nullable, Unchecked, Stored
LEMMA PositivesReadBack == ReadBack("positive") /\ StoresWhatShows("positive")
  <1>1. ReadBack("positive")
    BY Trims, TextsApart DEF ReadBack, Typed, Storable, Typeable, Reads, Shows, Meaning, Numbers, Ids, Trimmed, Nullable, Unchecked
  <1>2. \A v \in Stored("positive") \union {Second, First} : v \in {Null, First, Second}
    BY DEF Stored, Nullable
  <1>3. Shows("positive", Null) = Empty /\ Shows("positive", First) = First /\ Shows("positive", Second) = Second
    BY TextsApart DEF Shows
  <1>4. {Empty, First, Second} \subseteq Typed("positive")
    BY DEF Typed, Typeable, Numbers, Ids
  <1>5. Reads("positive", Empty) = Null /\ Reads("positive", First) = First /\ Reads("positive", Second) = Second
    BY Trims, TextsApart DEF Reads, Numbers, Ids, Trimmed, Nullable, Unchecked
  <1>6. \A v \in {Null, First, Second} : Storable("positive", v)
    BY <1>3, <1>4, <1>5 DEF Storable
  <1> QED BY <1>1, <1>2, <1>6 DEF StoresWhatShows
LEMMA CountsReadBack == ReadBack("count") /\ StoresWhatShows("count")
  <1>1. ReadBack("count")
    BY Trims, TextsApart DEF ReadBack, Typed, Storable, Typeable, Reads, Shows, Meaning, Numbers, Ids, Trimmed, Nullable, Unchecked
  <1>2. \A v \in Stored("count") \union {Second, First} : v \in {Null, Zero, First, Second}
    BY DEF Stored, Nullable
  <1>3. Shows("count", Null) = Empty /\ Shows("count", Zero) = Zero /\ Shows("count", First) = First /\ Shows("count", Second) = Second
    BY TextsApart DEF Shows
  <1>4. {Empty, Zero, First, Second} \subseteq Typed("count")
    BY DEF Typed, Typeable, Numbers, Ids
  <1>5. Reads("count", Empty) = Null /\ Reads("count", Zero) = Zero /\ Reads("count", First) = First /\ Reads("count", Second) = Second
    BY Trims, TextsApart DEF Reads, Numbers, Ids, Trimmed, Nullable, Unchecked
  <1>6. \A v \in {Null, Zero, First, Second} : Storable("count", v)
    BY <1>3, <1>4, <1>5 DEF Storable
  <1> QED BY <1>1, <1>2, <1>6 DEF StoresWhatShows
LEMMA FreeReadBack == ReadBack("free") /\ StoresWhatShows("free")
  BY Trims, TextsApart
     DEF ReadBack, StoresWhatShows, Typed, Storable, Typeable, Reads, Shows, Meaning, Numbers, Ids, Trimmed,
         Nullable, Unchecked, Stored
LEMMA NotesReadBack == ReadBack("note") /\ StoresWhatShows("note")
  BY Trims, TextsApart
     DEF ReadBack, StoresWhatShows, Typed, Storable, Typeable, Reads, Shows, Meaning, Numbers, Ids, Trimmed,
         Nullable, Unchecked, Stored
LEMMA ChoicesReadBack == ReadBack("choice") /\ StoresWhatShows("choice")
  BY Trims, TextsApart
     DEF ReadBack, StoresWhatShows, Typed, Storable, Typeable, Reads, Shows, Meaning, Numbers, Ids, Trimmed,
         Nullable, Unchecked, Stored
LEMMA ReferencesReadBack == ReadBack("reference") /\ StoresWhatShows("reference")
  BY Trims, TextsApart
     DEF ReadBack, StoresWhatShows, Typed, Storable, Typeable, Reads, Shows, Meaning, Numbers, Ids, Trimmed,
         Nullable, Unchecked, Stored
LEMMA LinksReadBack == ReadBack("link") /\ StoresWhatShows("link")
  <1>1. ReadBack("link")
    BY Trims, TextsApart DEF ReadBack, Typed, Storable, Typeable, Reads, Shows, Meaning, Numbers, Ids, Trimmed, Nullable, Unchecked
  <1>2. \A v \in Stored("link") \union {Second, First} : v \in {Null, First, Second}
    BY DEF Stored, Nullable
  <1>3. Shows("link", Null) = Empty /\ Shows("link", First) = First /\ Shows("link", Second) = Second
    BY TextsApart DEF Shows
  <1>4. {Empty, First, Second} \subseteq Typed("link")
    BY DEF Typed, Typeable, Numbers, Ids
  <1>5. Reads("link", Empty) = Null /\ Reads("link", First) = First /\ Reads("link", Second) = Second
    BY Trims, TextsApart DEF Reads, Numbers, Ids, Trimmed, Nullable, Unchecked
  <1>6. \A v \in {Null, First, Second} : Storable("link", v)
    BY <1>3, <1>4, <1>5 DEF Storable
  <1> QED BY <1>1, <1>2, <1>6 DEF StoresWhatShows
LEMMA JsonReadBack == ReadBack("json") /\ StoresWhatShows("json")
  <1>1. ReadBack("json")
    BY Trims, TextsApart DEF ReadBack, Typed, Storable, Typeable, Reads, Shows, Meaning, Numbers, Ids, Trimmed, Nullable, Unchecked
  <1>2. \A v \in Stored("json") \union {Second, First} : v \in {Empty, First, Second}
    BY DEF Stored, Nullable
  <1>3. Shows("json", Empty) = Empty /\ Shows("json", First) = First /\ Shows("json", Second) = Second
    BY TextsApart DEF Shows
  <1>4. {Empty, First, Second} \subseteq Typed("json")
    BY DEF Typed, Typeable, Numbers, Ids
  <1>5. Reads("json", Empty) = Empty /\ Reads("json", First) = First /\ Reads("json", Second) = Second
    BY Trims, TextsApart DEF Reads, Numbers, Ids, Trimmed, Nullable, Unchecked
  <1>6. \A v \in {Empty, First, Second} : Storable("json", v)
    BY <1>3, <1>4, <1>5 DEF Storable
  <1> QED BY <1>1, <1>2, <1>6 DEF StoresWhatShows

\* What the server writes is in its normal form, and shows as well as what was
\* sent; what it has written before it writes again as it is.
LEMMA NormalForms ==
    ASSUME NEW f
    PROVE  /\ \A v \in {First, Second, Null, Empty, Zero} : Normal(f, v) = v
           /\ \A v : Normal(f, v) \in {v, First} /\ Normal(f, Normal(f, v)) = Normal(f, v)
           /\ \A v, meant : Meaning(v) = meant /\ (meant = Loose <=> v = Loose)
                 => Meaning(Normal(f, v)) = Normal(f, meant)
  <1>1. First # Loose /\ \A v \in {First, Second, Null, Empty, Zero} : v # Loose
    BY TextsApart
  <1>2. Meaning(First) = First
    BY Trims, TextsApart DEF Meaning
  <1> QED BY <1>1, <1>2 DEF Normal

LEMMA AllReadBack == \A way \in Ways : ReadBack(way) /\ StoresWhatShows(way)
  BY TextsReadBack, VerbatimReadBack, SecretsReadBack, OptionalsReadBack, NumbersReadBack,
     PositivesReadBack, CountsReadBack, FreeReadBack, NotesReadBack, ChoicesReadBack,
     ReferencesReadBack, LinksReadBack, JsonReadBack
     DEF Ways

FieldsOf(s) == DOMAIN Sheet[s].read

\* The values of an object, and the object a form was opened on: at the version
\* it is still at, it is the object.
ObjectFits(object) ==
    /\ object.version \in 0 .. LastSaved /\ DOMAIN object.values = watched
    /\ object.version > 0 => \A f \in watched :
          Storable(Way(f), object.values[f]) /\ Normal(f, object.values[f]) = object.values[f]
TextsFit(shown_) ==
    /\ DOMAIN shown_ = watched
    /\ \A f \in watched : shown_[f] \in Typed(Way(f))
EditsOldObject ==
    /\ base.version > 0 /\ base.version <= stored.version
    /\ base.version = stored.version => base.values = stored.values

\* The request in flight is made of the texts it remembers.
Carries(f, value) == IF formMode = "create" THEN CreatePayload(f, value) ELSE PatchPayload(f, value)
MadeOf(typed) ==
    /\ TextsFit(typed)
    /\ \A f \in watched : f \in Inputs => Reads(Way(f), typed[f]) # Wrong
    /\ DOMAIN post.fields = {f \in watched : Carries(f, Reads(Way(f), typed[f]))}
    /\ \A f \in DOMAIN post.fields : post.fields[f] = Reads(Way(f), typed[f])

FormsIInv ==
    /\ sheet \in Sheets /\ watched \subseteq FieldsOf(sheet)
    /\ formMode \in {"closed", "create", "edit"}
    /\ ObjectFits(stored) /\ ObjectFits(base) /\ TextsFit(texts)
    /\ formMode = "edit" => EditsOldObject
    /\ DOMAIN post = {"state", "fields", "version", "typed", "result"}
    /\ post.state \in {"none", "sent", "answered"} /\ DOMAIN post.fields \subseteq watched
    /\ post.state = "sent" =>
          formMode # "closed" /\ post.version = base.version /\ MadeOf(post.typed)
    /\ post.state = "answered" /\ post.result = "conflict" => formMode = "edit"

\* Each field watched has a way; what a mode sends it has an input for.
LEMMA WatchedFits ==
    ASSUME sheet \in Sheets, watched \subseteq FieldsOf(sheet)
    PROVE  /\ \A f \in watched : Way(f) \in Ways
           /\ Sheet[sheet].patches = Sheet[sheet].editInputs
  <1>1. SheetFits(Sheet[sheet])
    BY SheetsFit, FormsAssumption
  <1> QED BY <1>1 DEF SheetFits, FieldsOf, Way

LEMMA ObjectsShow ==
    ASSUME FormsIInv, NEW object, ObjectFits(object), object.version > 0
    PROVE  TextsFit([f \in watched |-> Shows(Way(f), object.values[f])])
  BY DEF ObjectFits, TextsFit, Storable

LEMMA PostFields ==
    ASSUME FormsIInv, NEW result, NEW p, p = [post EXCEPT !.state = "answered", !.result = result]
    PROVE  /\ p.state = "answered" /\ p.result = result /\ DOMAIN p.fields \subseteq watched
           /\ DOMAIN p = DOMAIN post
  BY DEF FormsIInv

LEMMA NothingFits ==
    ASSUME sheet \in Sheets, watched \subseteq FieldsOf(sheet)
    PROVE  /\ NoObject.version = 0 /\ ObjectFits(NoObject) /\ TextsFit(NoTexts)
           /\ TextsFit([f \in watched |-> Starts(f)])
           /\ NoPost.state = "none" /\ DOMAIN NoPost.fields = {}
           /\ DOMAIN NoPost = {"state", "fields", "version", "typed", "result"}
  <1>1. LastSaved \in Nat \ {0} /\ 0 \in 0 .. LastSaved
    <2>1. LastSaved \in Nat \ {0}
      BY FormsAssumption
    <2> QED BY <2>1
  <1>2. NoObject.version = 0 /\ ObjectFits(NoObject)
    BY <1>1 DEF NoObject, ObjectFits
  <1>3. TextsFit(NoTexts)
    BY DEF NoTexts, TextsFit, Typed
  <1>4. \A way : First \in Typeable(way)
    BY DEF Typeable
  <1>5. \A f \in watched : Starts(f) \in Typed(Way(f))
    BY <1>4 DEF Starts, Typed
  <1>6. TextsFit([f \in watched |-> Starts(f)])
    BY <1>5 DEF TextsFit
  <1>7. NoPost.state = "none" /\ DOMAIN NoPost.fields = {}
    <2>1. NoPost.state = "none" /\ NoPost.fields = <<>>
      BY DEF NoPost
    <2>2. DOMAIN <<>> = {}
      OBVIOUS
    <2> QED BY <2>1, <2>2
  <1>8. DOMAIN NoPost = {"state", "fields", "version", "typed", "result"}
    BY DEF NoPost
  <1> QED BY <1>2, <1>3, <1>6, <1>7, <1>8

LEMMA FormsStart == FormsInit => FormsIInv
  <1> SUFFICES ASSUME FormsInit PROVE FormsIInv
    OBVIOUS
  <1>1. /\ sheet \in Sheets /\ watched \subseteq FieldsOf(sheet) /\ formMode = "closed"
        /\ base = NoObject /\ texts = NoTexts /\ post = NoPost
    BY DEF FormsInit, Watchable, FieldsOf
  <1>2. ObjectFits(stored)
    <2>1. CASE stored = NoObject
      BY <1>1, <2>1, NothingFits
    <2>2. CASE stored # NoObject
      <3>1. /\ stored.version = 1 /\ stored.values \in [watched -> {First, Null, Empty, Zero}]
            /\ \A f \in watched : stored.values[f] \in Stored(Way(f))
        BY <2>2 DEF FormsInit
      <3>2. \A f \in watched : Storable(Way(f), stored.values[f])
        BY <1>1, <3>1, WatchedFits, AllReadBack DEF StoresWhatShows
      <3>4. \A f \in watched : Normal(f, stored.values[f]) = stored.values[f]
        BY <3>1, NormalForms
      <3>3. 1 \in 0 .. LastSaved
        <4>1. LastSaved \in Nat \ {0}
          BY FormsAssumption
        <4> QED BY <4>1
      <3> QED BY <3>1, <3>2, <3>3, <3>4 DEF ObjectFits
    <2> QED BY <2>1, <2>2
  <1> QED BY <1>1, <1>2, NothingFits DEF FormsIInv

\* The form opens, closes or is typed in; nothing is in flight or it stays.
LEMMA OpeningKeeps ==
    ASSUME FormsIInv, OpenForCreate \/ OpenForEdit \/ CloseForm
    PROVE  FormsIInv'
  <1>1. sheet \in Sheets /\ watched \subseteq FieldsOf(sheet) /\ ObjectFits(stored) /\ ObjectFits(base)
    BY DEF FormsIInv
  <1>2. UNCHANGED <<sheet, watched, stored, post>>
    BY DEF OpenForCreate, OpenForEdit, CloseForm
  <1>3. post.state # "sent" /\ (post.state = "answered" => post.result # "conflict")
    BY DEF OpenForCreate, OpenForEdit, CloseForm, FormsIInv
  <1>4. /\ formMode' \in {"closed", "create", "edit"} /\ ObjectFits(base') /\ TextsFit(texts')
        /\ formMode' = "edit" => base' = stored /\ stored.version > 0
    <2>1. CASE OpenForCreate
      BY <1>1, <2>1, NothingFits DEF OpenForCreate
    <2>2. CASE OpenForEdit
      BY <1>1, <2>2, ObjectsShow DEF OpenForEdit, MountedOn
    <2>3. CASE CloseForm
      BY <1>1, <2>3, NothingFits DEF CloseForm, Unmounted
    <2> QED BY <2>1, <2>2, <2>3
  <1>5. ObjectFits(stored)' /\ ObjectFits(base)' /\ TextsFit(texts)'
    BY <1>1, <1>2, <1>4 DEF ObjectFits, TextsFit, Way
  <1>6. formMode' = "edit" => EditsOldObject'
    <2>1. stored.version <= stored.version
      BY <1>1 DEF ObjectFits
    <2> QED BY <1>2, <1>4, <2>1 DEF EditsOldObject
  <1> QED BY <1>1, <1>2, <1>3, <1>4, <1>5, <1>6 DEF FormsIInv

LEMMA TypingKeeps ==
    ASSUME FormsIInv, NEW f \in watched, NEW t \in Typeable(Way(f)), Type(f, t)
    PROVE  FormsIInv'
  <1>1. UNCHANGED <<sheet, watched, stored, formMode, base, post>> /\ texts' = [texts EXCEPT ![f] = t]
    BY DEF Type
  <1>2. TextsFit(texts')
    BY <1>1 DEF FormsIInv, TextsFit, Typed
  <1>3. TextsFit(texts)' /\ ObjectFits(stored)' /\ ObjectFits(base)'
    BY <1>1, <1>2 DEF FormsIInv, TextsFit, ObjectFits, Way
  <1>4. MadeOf(post.typed) => MadeOf(post.typed)'
    BY <1>1 DEF MadeOf, TextsFit, Carries, CreatePayload, PatchPayload, Way, Inputs
  <1> QED BY <1>1, <1>3, <1>4 DEF FormsIInv, EditsOldObject

LEMMA SubmitKeeps == ASSUME FormsIInv, SubmitForm PROVE FormsIInv'
  <1> DEFINE value == [f \in watched |-> Reads(Way(f), texts[f])]
             carried == {f \in watched : Carries(f, value[f])}
  <1>1. /\ UNCHANGED <<sheet, watched, stored, formMode, base, texts>> /\ formMode # "closed"
        /\ \A f \in watched : f \in Inputs => value[f] # Wrong
        /\ post' = [state |-> "sent", fields |-> [f \in carried |-> value[f]],
                    version |-> base.version, typed |-> texts, result |-> "none"]
    BY DEF SubmitForm, Carries
  <1>2. /\ post'.state = "sent" /\ post'.version = base.version /\ post'.typed = texts
        /\ post'.fields = [f \in carried |-> value[f]]
        /\ DOMAIN post' = {"state", "fields", "version", "typed", "result"}
    BY <1>1
  <1>3. MadeOf(post.typed)'
    <2>1. /\ TextsFit(texts) /\ \A f \in watched : value[f] = Reads(Way(f), texts[f])
      BY DEF FormsIInv
    <2>2. carried = {f \in watched : Carries(f, Reads(Way(f), texts[f]))}
      BY <2>1
    <2> HIDE DEF value, carried
    <2>3. /\ DOMAIN post'.fields = carried
          /\ \A f \in carried : post'.fields[f] = value[f]
      BY <1>2
    <2>4. carried \subseteq watched
      BY <2>2
    <2> QED BY <1>1, <1>2, <2>1, <2>2, <2>3, <2>4
         DEF MadeOf, TextsFit, Carries, CreatePayload, PatchPayload, Way, Inputs
  <1>4. TextsFit(texts)' /\ ObjectFits(stored)' /\ ObjectFits(base)' /\ DOMAIN post'.fields \subseteq watched
    <2> HIDE DEF value
    <2> QED BY <1>1, <1>2 DEF FormsIInv, TextsFit, ObjectFits, Way
  <1> HIDE DEF value, carried
  <1> QED BY <1>1, <1>2, <1>3, <1>4 DEF FormsIInv, EditsOldObject


\* What an accepted request makes of a field: a field it carries takes the
\* value in its normal form, of one left out the value means what was typed.
LEMMA SavedField ==
    ASSUME FormsIInv, post.state = "sent", Savable, NEW f \in watched
    PROVE  /\ Storable(Way(f), Merged[f]) /\ Normal(f, Merged[f]) = Merged[f]
           /\ f \in Inputs => Meaning(Merged[f]) = Normal(f, Meaning(post.typed[f]))
           /\ f \notin Inputs /\ formMode = "edit" => Merged[f] = base.values[f]
  <1>1. /\ Way(f) \in Ways /\ Sheet[sheet].patches = Sheet[sheet].editInputs
        /\ ReadBack(Way(f)) /\ StoresWhatShows(Way(f))
    BY WatchedFits, AllReadBack DEF FormsIInv
  <1>2. PICK t : t = post.typed[f]
    OBVIOUS
  <1>3. PICK v : v = Reads(Way(f), t)
    OBVIOUS
  <1>4. /\ formMode \in {"create", "edit"} /\ t \in Typed(Way(f)) /\ (f \in Inputs => v # Wrong)
        /\ f \in DOMAIN post.fields <=> Carries(f, v)
        /\ f \in DOMAIN post.fields => post.fields[f] = v
    BY <1>2, <1>3 DEF FormsIInv, MadeOf, TextsFit
  <1>5. /\ formMode = "create" => Inputs = Sheet[sheet].createInputs
        /\ formMode = "edit" => Inputs = Sheet[sheet].patches
    BY <1>1 DEF Inputs
  <1>6. formMode = "edit" => stored.values = base.values /\ stored.version > 0
    BY DEF FormsIInv, Savable, EditsOldObject
  <1>7. v # Wrong => /\ Storable(Way(f), v) /\ (Way(f) = "verbatim" => Storable(Way(f), Trim(v)))
                     /\ Meaning(v) = Meaning(t) /\ Meaning(Trim(v)) = Meaning(t)
                     /\ Meaning(t) = Loose <=> v = Loose
                     /\ Meaning(t) = Loose <=> Trim(v) = Loose
                     /\ v \in {Null, Empty} \/ (Way(f) = "note" /\ v = Blanks)
                           => Meaning(t) = Null /\ (Way(f) \in Nullable \/ Way(f) = "json")
    BY <1>1, <1>3, <1>4 DEF ReadBack
  <1>8. CASE f \in DOMAIN post.fields
    <2>1. f \in Inputs
      BY <1>4, <1>5, <1>8 DEF Carries, CreatePayload, PatchPayload
    <2>2. PICK sent : sent = IF Way(f) = "verbatim" THEN Trim(v) ELSE v
      OBVIOUS
    <2>3. Merged[f] = Normal(f, sent)
      BY <1>4, <1>8, <2>2 DEF Merged
    <2>4. /\ Storable(Way(f), sent) /\ Storable(Way(f), First)
          /\ Meaning(sent) = Meaning(t) /\ (Meaning(t) = Loose <=> sent = Loose)
      BY <1>1, <1>4, <1>7, <2>1, <2>2 DEF StoresWhatShows
    <2> QED BY <1>2, <1>8, <2>1, <2>3, <2>4, NormalForms
  <1>9. CASE f \notin DOMAIN post.fields /\ formMode = "edit"
    <2>1. Merged[f] = base.values[f]
      BY <1>6, <1>9 DEF Merged
    <2>2. Storable(Way(f), Merged[f]) /\ Normal(f, Merged[f]) = Merged[f]
      BY <1>6, <1>9, <2>1 DEF FormsIInv, ObjectFits
    <2>3. f \in Inputs => v = base.values[f]
      BY <1>4, <1>5, <1>9 DEF Carries, PatchPayload
    <2>4. f \in Inputs => Meaning(Merged[f]) = Normal(f, Meaning(t))
      BY <1>4, <1>7, <2>1, <2>2, <2>3, NormalForms
    <2> QED BY <1>2, <2>1, <2>2, <2>4
  <1>10. CASE f \notin DOMAIN post.fields /\ formMode = "create"
    <2>1. Merged[f] = IF Way(f) \in Nullable THEN Null ELSE IF Way(f) = "json" THEN Empty ELSE First
      BY <1>10 DEF Merged
    <2>2. Storable(Way(f), Merged[f]) /\ Normal(f, Merged[f]) = Merged[f]
      BY <1>1, <2>1, NormalForms DEF StoresWhatShows, Stored
    <2>3. f \in Inputs => v \in {Null, Empty} \/ (Way(f) = "note" /\ v = Blanks)
      BY <1>4, <1>5, <1>10 DEF Carries, CreatePayload
    <2>4. Meaning(Null) = Null /\ Meaning(Empty) = Null
      BY Trims DEF Meaning
    <2>5. f \in Inputs => Meaning(Merged[f]) = Normal(f, Meaning(t))
      BY <1>4, <1>7, <2>1, <2>3, <2>4, NormalForms
    <2> QED BY <1>2, <1>10, <2>2, <2>5
  <1> QED BY <1>4, <1>8, <1>9, <1>10

LEMMA SaveKeeps == ASSUME FormsIInv, ServerSaves PROVE FormsIInv'
  <1>1. /\ UNCHANGED <<sheet, watched, formMode, base, texts>> /\ post.state = "sent" /\ Savable
        /\ stored.version < LastSaved /\ stored' = [version |-> stored.version + 1, values |-> Merged]
    BY DEF ServerSaves
  <1>2. PICK result \in {"ok", "lost"} : post' = [post EXCEPT !.state = "answered", !.result = result]
    BY DEF ServerSaves
  <1>3. stored'.version = stored.version + 1 /\ stored'.values = Merged /\ stored.version \in 0 .. LastSaved
    BY <1>1 DEF FormsIInv, ObjectFits
  <1>4. stored'.version \in 0 .. LastSaved /\ stored'.version > stored.version
    <2>1. LastSaved \in Nat
      BY FormsAssumption
    <2> QED BY <1>1, <1>3, <2>1
  <1>5. ObjectFits(stored')
    <2>1. DOMAIN Merged = watched
      BY DEF Merged
    <2>2. \A f \in watched : Storable(Way(f), Merged[f]) /\ Normal(f, Merged[f]) = Merged[f]
      BY <1>1, SavedField
    <2> QED BY <1>3, <1>4, <2>1, <2>2 DEF ObjectFits
  <1>6. TextsFit(texts)' /\ ObjectFits(stored)' /\ ObjectFits(base)'
    BY <1>1, <1>5 DEF FormsIInv, TextsFit, ObjectFits, Way
  <1>7. /\ post'.state = "answered" /\ post'.result # "conflict" /\ DOMAIN post'.fields \subseteq watched
        /\ DOMAIN post' = DOMAIN post
    BY <1>2, PostFields
  <1>8. formMode = "edit" => EditsOldObject'
    <2>1. SUFFICES ASSUME formMode = "edit" PROVE EditsOldObject'
      OBVIOUS
    <2>2. base.version > 0 /\ base.version <= stored.version /\ base.version \in Nat /\ stored.version \in Nat
      BY <1>3, <2>1 DEF FormsIInv, EditsOldObject, ObjectFits
    <2> QED BY <1>1, <1>3, <2>2 DEF EditsOldObject
  <1> QED BY <1>1, <1>6, <1>7, <1>8 DEF FormsIInv

LEMMA RefuseKeeps == ASSUME FormsIInv, ServerRefuses PROVE FormsIInv'
  <1>1. UNCHANGED <<sheet, watched, stored, formMode, base, texts>>
    BY DEF ServerRefuses
  <1>2. PICK result \in {"conflict", "refused", "lost"} :
           /\ result = "conflict" => formMode = "edit"
           /\ post' = [post EXCEPT !.state = "answered", !.result = result]
    BY DEF ServerRefuses
  <1>3. /\ post'.state = "answered" /\ post'.result = result /\ DOMAIN post'.fields \subseteq watched
        /\ DOMAIN post' = DOMAIN post
    BY <1>2, PostFields
  <1>4. TextsFit(texts)' /\ ObjectFits(stored)' /\ ObjectFits(base)'
    BY <1>1 DEF FormsIInv, TextsFit, ObjectFits, Way
  <1> QED BY <1>1, <1>2, <1>3, <1>4 DEF FormsIInv, EditsOldObject

LEMMA AnswerKeeps == ASSUME FormsIInv, FormSaved \/ FormRejected PROVE FormsIInv'
  <1>1. /\ UNCHANGED <<sheet, watched, stored>> /\ post' = NoPost
        /\ sheet \in Sheets /\ watched \subseteq FieldsOf(sheet) /\ ObjectFits(stored)
    BY DEF FormSaved, FormRejected, FormsIInv
  <1>2. /\ post'.state = "none" /\ DOMAIN post'.fields \subseteq watched
        /\ DOMAIN post' = {"state", "fields", "version", "typed", "result"}
    BY <1>1, NothingFits
  <1>3. /\ formMode' \in {"closed", "create", "edit"} /\ ObjectFits(base') /\ TextsFit(texts')
        /\ formMode' = "edit" => (base' = base /\ EditsOldObject) \/ (base' = stored /\ stored.version > 0)
    <2>1. CASE FormSaved
      BY <1>1, <2>1, NothingFits DEF FormSaved, Unmounted
    <2>2. CASE FormRejected /\ UNCHANGED <<base, texts>>
      BY <2>2 DEF FormRejected, FormsIInv
    <2>3. CASE FormRejected /\ post.result = "conflict" /\ MountedOn(stored)
      <3>1. formMode = "edit" /\ formMode' = formMode /\ EditsOldObject
        BY <2>3 DEF FormRejected, FormsIInv
      <3>2. stored.version > 0
        <4>1. base.version \in Nat /\ stored.version \in Nat
          BY DEF FormsIInv, ObjectFits
        <4> QED BY <3>1, <4>1 DEF EditsOldObject
      <3> QED BY <1>1, <2>3, <3>1, <3>2, ObjectsShow DEF MountedOn
    <2> QED BY <2>1, <2>2, <2>3 DEF FormRejected
  <1>4. TextsFit(texts)' /\ ObjectFits(stored)' /\ ObjectFits(base)'
    BY <1>1, <1>3 DEF TextsFit, ObjectFits, Way
  <1>5. formMode' = "edit" => EditsOldObject'
    <2>1. stored.version <= stored.version
      BY <1>1 DEF ObjectFits
    <2> QED BY <1>1, <1>3, <2>1 DEF EditsOldObject
  <1> QED BY <1>1, <1>2, <1>3, <1>4, <1>5 DEF FormsIInv

LEMMA OtherKeeps == ASSUME FormsIInv, NEW f \in watched, OtherSaves(f) PROVE FormsIInv'
  <1>1. /\ UNCHANGED <<sheet, watched, formMode, base, texts, post>> /\ stored.version \in 1 .. LastSaved - 2
        /\ stored.version \in 0 .. LastSaved /\ base.version \in 0 .. LastSaved /\ LastSaved \in Nat
    BY FormsAssumption DEF OtherSaves, FormsIInv, ObjectFits
  <1>2. PICK v \in Stored(Way(f)) \union {Second} :
           stored' = [version |-> stored.version + 1, values |-> [stored.values EXCEPT ![f] = v]]
    BY DEF OtherSaves
  <1>3. /\ stored'.version = stored.version + 1 /\ stored'.values = [stored.values EXCEPT ![f] = v]
        /\ stored'.version \in 0 .. LastSaved
    BY <1>1, <1>2
  <1>4. Storable(Way(f), v) /\ Normal(f, v) = v
    <2>1. v \in {First, Second, Null, Empty, Zero}
      BY DEF Stored
    <2> QED BY <2>1, WatchedFits, AllReadBack, NormalForms DEF StoresWhatShows, FormsIInv
  <1>5. \A g \in watched : Storable(Way(g), stored.values[g]) /\ Normal(g, stored.values[g]) = stored.values[g]
    BY <1>1 DEF FormsIInv, ObjectFits
  <1>6. ObjectFits(stored')
    BY <1>3, <1>4, <1>5 DEF FormsIInv, ObjectFits
  <1>7. TextsFit(texts)' /\ ObjectFits(stored)' /\ ObjectFits(base)'
    BY <1>1, <1>6 DEF FormsIInv, TextsFit, ObjectFits, Way
  <1>8. MadeOf(post.typed) => MadeOf(post.typed)'
    BY <1>1 DEF MadeOf, TextsFit, Carries, CreatePayload, PatchPayload, Way, Inputs
  <1>9. formMode = "edit" => EditsOldObject'
    <2>1. SUFFICES ASSUME formMode = "edit" PROVE EditsOldObject'
      OBVIOUS
    <2>2. base.version > 0 /\ base.version <= stored.version
      BY <2>1 DEF FormsIInv, EditsOldObject
    <2>3. base.version <= stored.version + 1 /\ base.version # stored.version + 1
      BY <1>1, <2>2
    <2> QED BY <1>1, <1>3, <2>2, <2>3 DEF EditsOldObject
  <1> QED BY <1>1, <1>7, <1>8, <1>9 DEF FormsIInv

LEMMA AlwaysFormsIInv == FormsSpec => []FormsIInv
  <1>1. FormsIInv /\ UNCHANGED formVars => FormsIInv'
    BY DEF FormsIInv, formVars, TextsFit, ObjectFits, EditsOldObject, MadeOf, Carries, CreatePayload,
           PatchPayload, Way, Inputs
  <1>2. FormsIInv /\ [FormsNext]_formVars => FormsIInv'
    BY <1>1, OpeningKeeps, TypingKeeps, SubmitKeeps, SaveKeeps, RefuseKeeps, AnswerKeeps, OtherKeeps
       DEF FormsNext
  <1> QED BY <1>2, FormsStart, PTL DEF FormsSpec

(* The types of a form's state: what its inputs show is what could have    *)
(* been typed there, also after the value came back from the server.       *)
THEOREM FormsTyping == FormsSpec => []FormsTypeOK
  <1>1. FormsIInv => FormsTypeOK
    BY DEF FormsIInv, FormsTypeOK, ObjectFits, TextsFit, Typed, FieldsOf
  <1> QED BY <1>1, AlwaysFormsIInv, PTL

LEMMA OnlyServerSaves ==
    ASSUME [FormsNext]_formVars, post.state = "sent", stored' # stored, post' # post
    PROVE  ServerSaves
  <1>1. ~UNCHANGED formVars
    BY DEF formVars
  <1>2. ~(OpenForCreate \/ OpenForEdit \/ CloseForm \/ SubmitForm \/ ServerRefuses \/ FormSaved \/ FormRejected)
    BY DEF OpenForCreate, OpenForEdit, CloseForm, SubmitForm, ServerRefuses, FormSaved, FormRejected
  <1>3. ~\E f \in watched : OtherSaves(f) \/ \E t \in Typeable(Way(f)) : Type(f, t)
    BY DEF OtherSaves, Type
  <1> QED BY <1>1, <1>2, <1>3 DEF FormsNext

LEMMA OnlySubmitSends ==
    ASSUME [FormsNext]_formVars, post.state = "none", post'.state = "sent"
    PROVE  SubmitForm
  <1>1. post' # post
    OBVIOUS
  <1>2. ~UNCHANGED formVars
    BY <1>1 DEF formVars
  <1>3. ~(OpenForCreate \/ OpenForEdit \/ CloseForm)
    BY <1>1 DEF OpenForCreate, OpenForEdit, CloseForm
  <1>4. ~(ServerSaves \/ ServerRefuses \/ FormSaved \/ FormRejected)
    BY DEF ServerSaves, ServerRefuses, FormSaved, FormRejected
  <1>5. ~\E f \in watched : OtherSaves(f) \/ \E t \in Typeable(Way(f)) : Type(f, t)
    BY <1>1 DEF OtherSaves, Type
  <1> QED BY <1>2, <1>3, <1>4, <1>5 DEF FormsNext

\* For every form and any two of its fields: what is saved means what stood in
\* the form when it was submitted, a CIDR, a hostname and a username in the
\* server's normal form, in the fields it has inputs for and in no other,
\* although only the fields that changed are sent; and an edit in which nothing
\* was changed sends nothing (build...Patch, parse...FormValues).
THEOREM AlwaysSavesWhatWasTyped == FormsSpec => SavesWhatWasTyped
  <1> DEFINE Step ==
        /\ post.state = "sent" /\ stored' # stored /\ post' # post =>
             \A f \in watched :
                Meaning(stored'.values[f]) =
                    IF f \in Inputs THEN Normal(f, Meaning(post.typed[f]))
                    ELSE Meaning(IF formMode = "edit" THEN base.values[f] ELSE stored'.values[f])
        /\ post.state = "none" /\ post'.state = "sent" /\ formMode = "edit" =>
             \E f \in watched : texts[f] # Shows(Way(f), base.values[f])
  <1>1. ASSUME FormsIInv, [FormsNext]_formVars PROVE [Step]_formVars
    <2>1. ASSUME post.state = "sent", stored' # stored, post' # post, NEW f \in watched
          PROVE  Meaning(stored'.values[f]) =
                   IF f \in Inputs THEN Normal(f, Meaning(post.typed[f]))
                   ELSE Meaning(IF formMode = "edit" THEN base.values[f] ELSE stored'.values[f])
      <3>1. Savable /\ stored'.values = Merged
        BY <1>1, <2>1, OnlyServerSaves DEF ServerSaves
      <3>2. /\ f \in Inputs => Meaning(Merged[f]) = Normal(f, Meaning(post.typed[f]))
            /\ f \notin Inputs /\ formMode = "edit" => Merged[f] = base.values[f]
        BY <1>1, <2>1, <3>1, SavedField
      <3> QED BY <3>1, <3>2
    <2>2. ASSUME post.state = "none", post'.state = "sent", formMode = "edit"
          PROVE  \E f \in watched : texts[f] # Shows(Way(f), base.values[f])
      <3>1. SubmitForm
        BY <1>1, <2>2, OnlySubmitSends
      <3>2. PICK f \in watched : PatchPayload(f, Reads(Way(f), texts[f]))
        BY <2>2, <3>1 DEF SubmitForm
      <3>3. Storable(Way(f), base.values[f])
        BY <1>1, <2>2 DEF FormsIInv, EditsOldObject, ObjectFits
      <3> QED BY <3>2, <3>3 DEF PatchPayload, Storable
    <2> QED BY <2>1, <2>2
  <1>2. FormsIInv /\ [FormsNext]_formVars => [Step]_formVars
    BY <1>1
  <1>3. FormsSpec => [][Step]_formVars
    BY <1>2, AlwaysFormsIInv, PTL DEF FormsSpec
  <1> QED BY <1>3 DEF SavesWhatWasTyped

-----------------------------------------------------------------------------
(* The session.                                                            *)

KnownCookies == 1 .. lastSession \union {NoCookie}
CallRecord ==
    [kind : {"me", "login", "logout", "page"}, cookie : KnownCookies,
     state : {"sent", "authenticated", "answered"}, result : {"none", "ok", "lost", "unauthorized"},
     here : BOOLEAN]

SessionIInv ==
    /\ status \in {"ACTIVE", "DISABLED"}
    /\ sessions \subseteq 1 .. lastSession /\ lastSession \in 1 .. LastSession
    /\ cookie \in KnownCookies
    /\ tab \in {"boot-loading", "boot-error", "login", "authenticated"}
    /\ tabCalls \subseteq CallRecord

LEMMA CallsStayTyped ==
    ASSUME SessionIInv, NEW c \in tabCalls
    PROVE  /\ \A r \in {"ok", "lost", "unauthorized"} : [c EXCEPT !.state = "answered", !.result = r] \in CallRecord
           /\ [c EXCEPT !.state = "authenticated"] \in CallRecord
           /\ \A b \in BOOLEAN : [c EXCEPT !.here = b] \in CallRecord
  BY DEF SessionIInv, CallRecord

LEMMA NewCallTyped ==
    ASSUME SessionIInv, NEW kind \in {"me", "login", "logout", "page"}
    PROVE  TabCall(kind) \in CallRecord
  BY DEF SessionIInv, CallRecord, TabCall

LEMMA HandlersKeep ==
    ASSUME SessionIInv, NEW c \in tabCalls,
           Authenticate(c) \/ ServerAuthorizes(c) \/ ServerLogsOut(c) \/ ServerFails(c)
    PROVE  SessionIInv'
  <1>1. /\ UNCHANGED <<status, lastSession, cookie, tab>> /\ sessions' \subseteq sessions
    BY DEF Authenticate, ServerAuthorizes, ServerLogsOut, ServerFails, serverSession
  <1>2. \E d \in CallRecord : tabCalls' = (tabCalls \ {c}) \union {d}
    <2>1. ASSUME NEW results \in SUBSET {"ok", "lost", "unauthorized"}, Answer(c, results)
          PROVE  \E d \in CallRecord : tabCalls' = (tabCalls \ {c}) \union {d}
      <3>1. PICK r \in results :
               tabCalls' = (tabCalls \ {c}) \union {[c EXCEPT !.state = "answered", !.result = r]}
        BY <2>1 DEF Answer
      <3>2. [c EXCEPT !.state = "answered", !.result = r] \in CallRecord
        BY CallsStayTyped
      <3> QED BY <3>1, <3>2
    <2>2. ASSUME tabCalls' = (tabCalls \ {c}) \union {[c EXCEPT !.state = "authenticated"]}
          PROVE  \E d \in CallRecord : tabCalls' = (tabCalls \ {c}) \union {d}
      <3>1. [c EXCEPT !.state = "authenticated"] \in CallRecord
        BY CallsStayTyped
      <3> QED BY <2>2, <3>1
    <2>3. CASE Authenticate(c)
      BY <2>1, <2>2, <2>3 DEF Authenticate
    <2>4. CASE ~Authenticate(c)
      <3>1. Answer(c, {"ok", "lost"}) \/ Answer(c, {"unauthorized", "lost"}) \/ Answer(c, {"lost"})
        BY <2>4 DEF ServerAuthorizes, ServerLogsOut, ServerFails
      <3> QED BY <2>1, <3>1
    <2> QED BY <2>3, <2>4
  <1>3. tabCalls' \subseteq CallRecord'
    BY <1>1, <1>2 DEF SessionIInv, CallRecord, KnownCookies
  <1> QED BY <1>1, <1>3 DEF SessionIInv, KnownCookies

LEMMA InsertionKeeps == ASSUME SessionIInv, NEW c \in tabCalls, CreateSession(c) PROVE SessionIInv'
  <1>1. /\ UNCHANGED <<status, cookie, tab>> /\ lastSession < LastSession /\ lastSession' = lastSession + 1
        /\ sessions' = sessions \union {lastSession'}
    BY DEF CreateSession
  <1>2. PICK r \in {"ok", "lost"} :
           tabCalls' = (tabCalls \ {c}) \union {[c EXCEPT !.state = "answered", !.result = r, !.cookie = lastSession']}
    BY DEF CreateSession
  <1>3. lastSession \in 1 .. LastSession /\ LastSession \in Nat
    BY SessionAssumption DEF SessionIInv
  <1>4. lastSession' \in 1 .. LastSession /\ 1 .. lastSession \subseteq 1 .. lastSession' /\ lastSession' \in 1 .. lastSession'
    BY <1>1, <1>3
  <1>5. KnownCookies \subseteq KnownCookies' /\ lastSession' \in KnownCookies'
    BY <1>4 DEF KnownCookies
  <1>6. CallRecord \subseteq CallRecord'
    BY <1>5 DEF CallRecord
  <1>7. [c EXCEPT !.state = "answered", !.result = r, !.cookie = lastSession'] \in CallRecord'
    <2>1. c \in CallRecord'
      BY <1>6 DEF SessionIInv
    <2> QED BY <1>5, <2>1 DEF CallRecord
  <1>8. tabCalls' \subseteq CallRecord'
    BY <1>2, <1>6, <1>7 DEF SessionIInv
  <1> QED BY <1>1, <1>4, <1>5, <1>8 DEF SessionIInv

LEMMA TabKeeps ==
    ASSUME SessionIInv,
           (\E c \in tabCalls : TabAnswer(c)) \/ RetryBoot \/ SubmitLogin \/ Logout \/ PageRequest
    PROVE  SessionIInv'
  <1>1. UNCHANGED <<status, sessions, lastSession>>
    BY DEF TabAnswer, RetryBoot, SubmitLogin, Logout, PageRequest, serverSession
  <1>2. cookie' \in KnownCookies /\ tab' \in {"boot-loading", "boot-error", "login", "authenticated"}
        /\ tabCalls' \subseteq CallRecord
    <2>1. ASSUME NEW c \in tabCalls, TabAnswer(c) 
          PROVE  /\ cookie' \in KnownCookies /\ tab' \in {"boot-loading", "boot-error", "login", "authenticated"}
                 /\ tabCalls' \subseteq CallRecord
      <3>1. c.cookie \in KnownCookies
        BY DEF SessionIInv, CallRecord
      <3>2. cookie' \in KnownCookies
        BY <2>1, <3>1 DEF TabAnswer, NextCookie, SessionIInv, KnownCookies
      <3>3. tab' \in {"boot-loading", "boot-error", "login", "authenticated"}
        BY <2>1 DEF TabAnswer, NextPhase, SessionIInv
      <3>4. ASSUME NEW d \in tabCalls' PROVE d \in CallRecord
        <4>1. PICK e \in tabCalls : d = [e EXCEPT !.here = e.here /\ tab' \in MountedIn(e.kind)]
          BY <2>1, <3>4 DEF TabAnswer, Left
        <4>2. (e.here /\ tab' \in MountedIn(e.kind)) \in BOOLEAN
          OBVIOUS
        <4> QED BY <4>1, <4>2, CallsStayTyped
      <3> QED BY <3>2, <3>3, <3>4
    <2>2. CASE RetryBoot
      <3>1. cookie' = cookie /\ tab' = tab
        BY <2>2 DEF RetryBoot
      <3>2. ASSUME NEW d \in tabCalls', d # TabCall("me") PROVE d \in CallRecord
        <4>1. PICK e \in tabCalls : d = [e EXCEPT !.here = e.here /\ e.kind # "me"]
          BY <2>2, <3>2 DEF RetryBoot
        <4>2. (e.here /\ e.kind # "me") \in BOOLEAN
          OBVIOUS
        <4> QED BY <4>1, <4>2, CallsStayTyped
      <3> QED BY <3>1, <3>2, NewCallTyped DEF SessionIInv
    <2>3. CASE SubmitLogin \/ Logout \/ PageRequest
      <3>1. PICK kind \in {"login", "logout", "page"} : tabCalls' = tabCalls \union {TabCall(kind)}
        BY <2>3 DEF SubmitLogin, Logout, PageRequest, Sends
      <3>2. cookie' = cookie /\ tab' = tab
        BY <2>3 DEF SubmitLogin, Logout, PageRequest
      <3> QED BY <3>1, <3>2, NewCallTyped DEF SessionIInv
    <2> QED BY <2>1, <2>2, <2>3
  <1> QED BY <1>1, <1>2 DEF SessionIInv, KnownCookies, CallRecord

LEMMA AlwaysSessionIInv == SessionSpec => []SessionIInv
  <1>1. SessionInit => SessionIInv
    <2> SUFFICES ASSUME SessionInit PROVE SessionIInv
      OBVIOUS
    <2>1. LastSession \in Nat \ {0}
      BY SessionAssumption
    <2>2. lastSession = 1 /\ lastSession \in 1 .. LastSession /\ 1 \in 1 .. lastSession
      BY <2>1 DEF SessionInit
    <2>3. cookie \in KnownCookies /\ sessions \subseteq 1 .. lastSession
      BY <2>2 DEF SessionInit, KnownCookies
    <2>4. tabCalls \subseteq CallRecord
      BY <2>3 DEF SessionInit, TabCall, CallRecord
    <2> QED BY <2>2, <2>3, <2>4 DEF SessionInit, SessionIInv
  <1>2. SessionIInv /\ [SessionNext]_sessionVars => SessionIInv'
    <2>1. SessionIInv /\ UNCHANGED sessionVars => SessionIInv'
      BY DEF SessionIInv, sessionVars, KnownCookies, CallRecord
    <2>2. ASSUME SessionIInv, NEW s \in {"ACTIVE", "DISABLED"}, UpdateStatus(s) PROVE SessionIInv'
      BY <2>2 DEF SessionIInv, UpdateStatus, SessionsAfter, KnownCookies, CallRecord
    <2>3. ASSUME SessionIInv, NEW i \in sessions, Expire(i) PROVE SessionIInv'
      BY <2>3 DEF SessionIInv, Expire, KnownCookies, CallRecord
    <2> QED BY <2>1, <2>2, <2>3, HandlersKeep, InsertionKeeps, TabKeeps DEF SessionNext, ServerHandles
  <1> QED BY <1>1, <1>2, PTL DEF SessionSpec

(* The types of the session's state: the tab holds no cookie the server    *)
(* did not give, and no phase but the four of the shell.                   *)
THEOREM SessionTyping == SessionSpec => []SessionTypeOK
  <1>1. SessionIInv => SessionTypeOK
    BY DEF SessionIInv, SessionTypeOK, KnownCookies, CallRecord
  <1> QED BY <1>1, AlwaysSessionIInv, PTL

\* A login that was verified inserts its session although the account was
\* disabled since (create_session after authenticate, with no lock).
InsertsTooLate ==
    status = "DISABLED" /\ \E c \in tabCalls : CreateSession(c)

(* Disabling an account deletes its sessions, and nothing gives a disabled *)
(* account one but a login verified before: that is the one gap in the     *)
(* promise of update_user.                                                 *)
THEOREM OnlyLateLoginsSlipIn ==
    SessionSpec => [][DisabledHasNoSessions => DisabledHasNoSessions' \/ InsertsTooLate]_sessionVars
  <1>1. ASSUME [SessionNext]_sessionVars, DisabledHasNoSessions, ~InsertsTooLate
        PROVE  DisabledHasNoSessions'
    <2>1. CASE UNCHANGED sessionVars
      BY <1>1, <2>1 DEF sessionVars, DisabledHasNoSessions
    <2>2. ASSUME NEW c \in tabCalls, ServerHandles(c) PROVE DisabledHasNoSessions'
      <3>1. CASE CreateSession(c)
        BY <1>1, <2>2, <3>1 DEF CreateSession, DisabledHasNoSessions, InsertsTooLate
      <3>2. CASE ~CreateSession(c)
        BY <1>1, <2>2, <3>2 DEF ServerHandles, Authenticate, ServerAuthorizes, ServerLogsOut, ServerFails,
           serverSession, DisabledHasNoSessions
      <3> QED BY <3>1, <3>2
    <2>3. ASSUME NEW s \in {"ACTIVE", "DISABLED"}, UpdateStatus(s) PROVE DisabledHasNoSessions'
      BY <1>1, <2>3 DEF UpdateStatus, SessionsAfter, DisabledHasNoSessions
    <2>4. ASSUME NEW i \in sessions, Expire(i) PROVE DisabledHasNoSessions'
      BY <1>1, <2>4 DEF Expire, DisabledHasNoSessions
    <2>5. CASE (\E c \in tabCalls : TabAnswer(c)) \/ RetryBoot \/ SubmitLogin \/ Logout \/ PageRequest
      BY <1>1, <2>5 DEF TabAnswer, RetryBoot, SubmitLogin, Logout, PageRequest, serverSession, DisabledHasNoSessions
    <2> QED BY <1>1, <2>1, <2>2, <2>3, <2>4, <2>5 DEF SessionNext
  <1>2. [SessionNext]_sessionVars
           => [DisabledHasNoSessions => DisabledHasNoSessions' \/ InsertsTooLate]_sessionVars
    BY <1>1
  <1> QED BY <1>2, PTL DEF SessionSpec
=============================================================================
