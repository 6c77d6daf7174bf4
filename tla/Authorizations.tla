---------------------------- MODULE Authorizations ----------------------------
(***************************************************************************)
(* The panel that grants accounts access to Clusters and revokes it        *)
(* (src/frontend/src/components/ClusterAuthorizationPanel.tsx and          *)
(* authorizationCandidates.ts) and the server under it                     *)
(* (src/backend/app/services/cluster_authorization.py).  Four effects load *)
(* the lists; the one that loads what an account already has pages through *)
(* it while others grant and revoke.  The modal can be closed, and opened  *)
(* for another account, while its request is in flight.                    *)
(***************************************************************************)
EXTENDS Naturals, FiniteSets

CONSTANTS
    Grantees,    \* accounts that are not ADMIN
    Granted,     \* the Clusters there are
    Nothing,     \* no account, no Cluster
    HeldPage,    \* ACTIVE_GRANT_PAGE_SIZE
    HeldPages,   \* ACTIVE_GRANT_MAX_PAGES
    LastGrant    \* bound: grants made

ASSUME AuthorizationsAssumption ==
    /\ Nothing \notin Grantees \union Granted
    /\ HeldPage \in Nat \ {0} /\ HeldPages \in Nat \ {0} /\ LastGrant \in Nat

VARIABLES
    active,     \* the active authorizations of each account
    lastGrant,  \* the id given last
    account,    \* selectedUser
    authList,   \* state: the list shown, with the account it was loaded for
    grantOpen,  \* the modal
    held,       \* activeGrants: idle, loading, error, or the Clusters account has
    options,    \* clustersState: the Clusters that match the search
    picked,     \* selectedClusterId
    granting,   \* the grant in flight: grantBusy
    revoking,   \* revokeTarget, and its request: revokeBusy
    readings,   \* loads in flight, not cancelled
    undone      \* history: the authorizations this panel was told are revoked

grantVars == <<active, lastGrant, account, authList, grantOpen, held, options, picked,
               granting, revoking, readings, undone>>
serverGrants == <<active, lastGrant>>
modalVars == <<grantOpen, held, options, picked>>

------------------------------------------------------------------------------
Authorization(c, id) == [cluster |-> c, id |-> id]
ClustersOf(rows) == {x.cluster : x \in rows}
(* A page of the server's list, newest first. *)
NewestPage(rows, p) ==
    {x \in rows : Cardinality({y \in rows : y.id > x.id}) \in (p - 1) * HeldPage .. p * HeldPage - 1}
Loaded(kind, of, rows) == [kind |-> kind, of |-> of, rows |-> rows]
HeldIdle == [kind |-> "idle", of |-> Nothing, ids |-> {}]
HeldLoading == [HeldIdle EXCEPT !.kind = "loading"]
OptionsLoading == [kind |-> "loading", clusters |-> {}]
NoRequest == [state |-> "none", account |-> Nothing, cluster |-> Nothing, result |-> "none"]
NoRevocation == [target |-> Authorization(Nothing, 0), of |-> Nothing,
                 state |-> "none", result |-> "none"]
Reading(kind, of) ==
    [kind |-> kind, of |-> of, page |-> 1, ids |-> {}, rows |-> {}, done |-> FALSE]

(* Mutant: the answers of earlier runs of an effect count. *)
CancelledNone(kinds) == readings

(* cancelled = true in the cleanup of an effect: its answer is ignored. *)
CancelReads(kinds) == {r \in readings : r.kind \notin kinds}

(* The effect of the list runs for an account. *)
LoadAuthList(a, others) ==
    /\ authList' = Loaded("loading", Nothing, {})
    /\ readings' = others \union {Reading("list", a)}

(* The modal is closed: nothing is held, and its loads are ignored.  What  *)
(* was typed and picked is cleared when it opens; it is not seen before.   *)
ClosedModal ==
    /\ grantOpen' = FALSE
    /\ held' = HeldIdle /\ options' = OptionsLoading /\ picked' = Nothing

GrantsInit ==
    /\ active \in [Grantees -> {{}} \union {{Authorization(c, 0)} : c \in Granted}]
    /\ lastGrant = 0
    /\ account = Nothing
    /\ authList = Loaded("loading", Nothing, {})
    /\ grantOpen = FALSE /\ held = HeldIdle /\ options = OptionsLoading /\ picked = Nothing
    /\ granting = NoRequest /\ revoking = NoRevocation
    /\ readings = {} /\ undone = {}

------------------------------------------------------------------------------
(* The lists.  A modal or a dialog covers the page. *)
Uncovered == ~grantOpen /\ revoking.of = Nothing

(* setSelectedUser, or another filter or page of the account's list. *)
SelectAccount(a) ==
    /\ Uncovered
    /\ account' = a
    /\ LoadAuthList(a, CancelReads({"list"}))
    /\ UNCHANGED <<serverGrants, modalVars, granting, revoking, undone>>

(* openGrant *)
OpenGrant ==
    /\ account # Nothing /\ Uncovered
    /\ grantOpen' = TRUE /\ picked' = Nothing
    /\ held' = HeldLoading /\ options' = OptionsLoading
    /\ readings' = readings \union {Reading("held", account), Reading("options", Nothing)}
    /\ UNCHANGED <<serverGrants, account, authList, granting, revoking, undone>>

(* Every letter typed starts a load. *)
SearchClusters ==
    /\ grantOpen
    /\ options' = OptionsLoading
    /\ readings' = CancelReads({"options"}) \union {Reading("options", Nothing)}
    /\ UNCHANGED <<serverGrants, account, authList, grantOpen, held, picked, granting, revoking, undone>>

RetryHeld ==
    /\ grantOpen /\ held.kind = "error" /\ granting.state = "none"
    /\ held' = HeldLoading
    /\ readings' = CancelReads({"held"}) \union {Reading("held", account)}
    /\ UNCHANGED <<serverGrants, account, authList, grantOpen, options, picked, granting, revoking, undone>>

(* The server reads a page of the account's list. *)
ServerShows(r) ==
    /\ r.kind = "list" /\ ~r.done
    /\ readings' = (readings \ {r}) \union {[r EXCEPT !.done = TRUE, !.rows = active[r.of]]}
    /\ UNCHANGED <<serverGrants, account, authList, modalVars, granting, revoking, undone>>

(* loadActiveGrants: page after page until as many Clusters as the total   *)
(* were seen, or nothing comes, or the cap is reached.                     *)
ServerHolds(r) ==
    /\ r.kind = "held" /\ ~r.done
    /\ LET total == Cardinality(active[r.of])
           items == NewestPage(active[r.of], r.page)
           ids == r.ids \union ClustersOf(items)
           last == items = {} \/ Cardinality(ids) >= total \/ r.page >= HeldPages
       IN readings' = (readings \ {r}) \union
             {IF last THEN [r EXCEPT !.done = TRUE, !.ids = ids]
              ELSE [r EXCEPT !.page = r.page + 1, !.ids = ids]}
    /\ UNCHANGED <<serverGrants, account, authList, modalVars, granting, revoking, undone>>

(* The answer of an effect that was not cleaned up.  The Clusters that     *)
(* match what was typed do not change here.                                *)
ReadingArrives(r) ==
    /\ readings' = readings \ {r}
    /\ \/ /\ r.kind = "list" /\ r.done
          /\ authList' = Loaded("success", r.of, r.rows)
          /\ UNCHANGED <<held, options>>
       \/ /\ r.kind = "held" /\ r.done
          /\ held' = [kind |-> "success", of |-> r.of, ids |-> r.ids]
          /\ UNCHANGED <<authList, options>>
       \/ /\ r.kind = "options"
          /\ \E found \in {Granted, {}} : options' = [kind |-> "success", clusters |-> found]
          /\ UNCHANGED <<authList, held>>
    /\ UNCHANGED <<serverGrants, account, grantOpen, picked, granting, revoking, undone>>

ReadingFails(r) ==
    /\ readings' = readings \ {r}
    /\ IF r.kind = "list" THEN authList' = Loaded("error", r.of, {}) /\ UNCHANGED <<held, options>>
       ELSE IF r.kind = "held" THEN held' = [HeldIdle EXCEPT !.kind = "error"] /\ UNCHANGED <<authList, options>>
       ELSE options' = [OptionsLoading EXCEPT !.kind = "error"] /\ UNCHANGED <<authList, held>>
    /\ UNCHANGED <<serverGrants, account, grantOpen, picked, granting, revoking, undone>>

------------------------------------------------------------------------------
(* Granting. *)

(* computeGrantCandidates: none unless both loads succeeded. *)
Candidates ==
    IF held.kind = "success" /\ options.kind = "success" THEN options.clusters \ held.ids ELSE {}

Pick(c) ==
    /\ grantOpen /\ c \in Candidates \union {Nothing} /\ Candidates # {} /\ c # picked
    /\ picked' = c
    /\ UNCHANGED <<serverGrants, account, authList, grantOpen, held, options, granting,
                   revoking, readings, undone>>

(* submitGrant, if canSubmitGrant *)
SubmitGrant ==
    /\ grantOpen /\ granting.state = "none" /\ picked \in Candidates
    /\ granting' = [state |-> "sent", account |-> account, cluster |-> picked, result |-> "none"]
    /\ UNCHANGED <<serverGrants, account, authList, modalVars, revoking, readings, undone>>

(* The button waits for the request; the cross of the modal does not. *)
CloseGrant ==
    /\ grantOpen
    /\ ClosedModal
    /\ readings' = CancelReads({"held", "options"})
    /\ UNCHANGED <<serverGrants, account, authList, granting, revoking, undone>>

(* An account has a Cluster at most once (unique among the active). *)
Grants(a, c) ==
    /\ c \notin ClustersOf(active[a]) /\ lastGrant < LastGrant
    /\ lastGrant' = lastGrant + 1
    /\ active' = [active EXCEPT ![a] = @ \union {Authorization(c, lastGrant + 1)}]

ServerGrants ==
    /\ granting.state = "sent"
    /\ Grants(granting.account, granting.cluster)
    /\ \E result \in {"ok", "lost"} : granting' = [granting EXCEPT !.state = "answered", !.result = result]
    /\ UNCHANGED <<account, authList, modalVars, revoking, readings, undone>>

(* 409 already_granted; the Cluster deleted, or no answer. *)
ServerRefusesGrant ==
    /\ granting.state = "sent"
    /\ \E result \in {"already", "lost"} :
          /\ result = "already" => granting.cluster \in ClustersOf(active[granting.account])
          /\ granting' = [granting EXCEPT !.state = "answered", !.result = result]
    /\ UNCHANGED <<serverGrants, account, authList, modalVars, revoking, readings, undone>>

(* Whatever modal is open by now is closed. *)
GrantOk ==
    /\ granting.state = "answered" /\ granting.result = "ok"
    /\ granting' = NoRequest
    /\ ClosedModal
    /\ LoadAuthList(account, CancelReads({"list", "held", "options"}))
    /\ UNCHANGED <<serverGrants, account, revoking, undone>>

(* If it was granted already, what the account has is loaded again. *)
GrantFails ==
    /\ granting.state = "answered" /\ granting.result # "ok"
    /\ granting' = NoRequest
    /\ IF granting.result = "already"
       THEN /\ picked' = Nothing
            /\ IF grantOpen
               THEN /\ held' = HeldLoading
                    /\ readings' = CancelReads({"held"}) \union {Reading("held", account)}
               ELSE UNCHANGED <<held, readings>>
       ELSE UNCHANGED <<picked, held, readings>>
    /\ UNCHANGED <<serverGrants, account, authList, grantOpen, options, revoking, undone>>

------------------------------------------------------------------------------
(* Revoking. *)
AskRevoke(row) ==
    /\ Uncovered /\ authList.kind = "success" /\ row \in authList.rows
    /\ revoking' = [NoRevocation EXCEPT !.target = row, !.of = authList.of]
    /\ UNCHANGED <<serverGrants, account, authList, modalVars, granting, readings, undone>>

CancelRevoke ==
    /\ revoking.of # Nothing /\ revoking.state = "none"
    /\ revoking' = NoRevocation
    /\ UNCHANGED <<serverGrants, account, authList, modalVars, granting, readings, undone>>

ConfirmRevoke ==
    /\ revoking.of # Nothing /\ revoking.state = "none"
    /\ revoking' = [revoking EXCEPT !.state = "sent"]
    /\ UNCHANGED <<serverGrants, account, authList, modalVars, granting, readings, undone>>

Revokes(a, row) ==
    /\ row \in active[a]
    /\ active' = [active EXCEPT ![a] = @ \ {row}]

ServerRevokes ==
    /\ revoking.state = "sent"
    /\ Revokes(revoking.of, revoking.target)
    /\ \E result \in {"ok", "lost"} : revoking' = [revoking EXCEPT !.state = "answered", !.result = result]
    /\ UNCHANGED <<lastGrant, account, authList, modalVars, granting, readings, undone>>

(* 409 already_revoked, or no answer. *)
ServerRefusesRevoke ==
    /\ revoking.state = "sent"
    /\ \E result \in {"already", "lost"} :
          /\ result = "already" => revoking.target \notin active[revoking.of]
          /\ revoking' = [revoking EXCEPT !.state = "answered", !.result = result]
    /\ UNCHANGED <<serverGrants, account, authList, modalVars, granting, readings, undone>>

(* Revoked now or before: the list is loaded again. *)
RevokeOk ==
    /\ revoking.state = "answered" /\ revoking.result \in {"ok", "already"}
    /\ revoking' = NoRevocation
    /\ undone' = undone \union {<<revoking.of, revoking.target>>}
    /\ LoadAuthList(account, CancelReads({"list"}))
    /\ UNCHANGED <<serverGrants, account, modalVars, granting>>

RevokeFails ==
    /\ revoking.state = "answered" /\ revoking.result = "lost"
    /\ revoking' = [revoking EXCEPT !.state = "none", !.result = "none"]
    /\ UNCHANGED <<serverGrants, account, authList, modalVars, granting, readings, undone>>

------------------------------------------------------------------------------
(* Other administrators. *)
OthersGrant(a, c) ==
    /\ Grants(a, c)
    /\ UNCHANGED <<account, authList, modalVars, granting, revoking, readings, undone>>
OthersRevoke(a, row) ==
    /\ Revokes(a, row)
    /\ UNCHANGED <<lastGrant, account, authList, modalVars, granting, revoking, readings, undone>>

ServerAnswers ==
    \/ ServerGrants \/ ServerRefusesGrant \/ ServerRevokes \/ ServerRefusesRevoke
    \/ \E r \in readings : ServerShows(r) \/ ServerHolds(r)
AnswerArrives ==
    \/ GrantOk \/ GrantFails \/ RevokeOk \/ RevokeFails
    \/ \E r \in readings : ReadingArrives(r) \/ ReadingFails(r)

GrantsNext ==
    \/ \E a \in Grantees : SelectAccount(a)
    \/ OpenGrant \/ CloseGrant \/ SearchClusters \/ RetryHeld \/ SubmitGrant
    \/ \E c \in Granted \union {Nothing} : Pick(c)
    \/ \E row \in authList.rows : AskRevoke(row)
    \/ CancelRevoke \/ ConfirmRevoke
    \/ ServerAnswers \/ AnswerArrives
    \/ \E a \in Grantees : \/ \E c \in Granted : OthersGrant(a, c)
                           \/ \E row \in active[a] : OthersRevoke(a, row)

GrantsSpec == GrantsInit /\ [][GrantsNext]_grantVars

(* Requests are answered, or given up by the browser. *)
GrantsFairness ==
    /\ WF_grantVars(ServerGrants \/ ServerRefusesGrant) /\ WF_grantVars(GrantOk \/ GrantFails)
    /\ WF_grantVars(ServerRevokes \/ ServerRefusesRevoke) /\ WF_grantVars(RevokeOk \/ RevokeFails)

------------------------------------------------------------------------------
(* The types of the panel's state. *)
GrantsTypeOK ==
    /\ \A a \in Grantees : ClustersOf(active[a]) \subseteq Granted
    /\ lastGrant \in 0 .. LastGrant
    /\ account \in Grantees \union {Nothing}
    /\ authList.kind \in {"loading", "success", "error"}
    /\ held.kind \in {"idle", "loading", "success", "error"} /\ held.ids \subseteq Granted
    /\ options.kind \in {"loading", "success", "error"} /\ options.clusters \subseteq Granted
    /\ picked \in Granted \union {Nothing}
    /\ granting.state \in {"none", "sent", "answered"}
    /\ revoking.state \in {"none", "sent", "answered"}
    /\ \A r \in readings : r.page \in 1 .. HeldPages

(* The list shown is of the account on screen and no older than what the   *)
(* panel was told: an authorization reported as revoked does not come      *)
(* back.  And the Clusters left out of the candidates are those of the     *)
(* account the modal is open for, although it can be closed and opened for *)
(* another while its loads, or its request, are on their way.              *)
AuthorizationsCurrent ==
    /\ authList.kind = "success" =>
          authList.of = account /\ \A row \in authList.rows : <<account, row>> \notin undone
    /\ grantOpen /\ held.kind = "success" => held.of = account

(* A grant or a revocation that was sent does not keep the panel busy. *)
GrantsSettle ==
    /\ granting.state # "none" ~> granting.state = "none"
    /\ revoking.state # "none" ~> revoking.state = "none"
=============================================================================
