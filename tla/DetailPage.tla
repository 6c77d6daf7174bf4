----------------------------- MODULE DetailPage -----------------------------
(***************************************************************************)
(* The detail page of a Cluster or a Resource and the page that creates    *)
(* one (src/frontend/src/pages), with the section switch of HomePage that  *)
(* mounts them.  A behaviour is about one object; other sections are       *)
(* "away".  The sidebar leaves any page at any moment a modal dialog does  *)
(* not cover it; what an unmounted page hears of its requests is dropped,  *)
(* except the answer to a create, whose callback belongs to HomePage.      *)
(***************************************************************************)
EXTENDS Optimistic, FiniteSets

CONSTANTS
    Rights,      \* the permissions of the signed-in user
    LastVersion, \* bound: the object is not written past this version
    MaxLoads     \* bound: GETs in flight when a detail is opened

ASSUME DetailPageAssumption == LastVersion \in Nat \ {0} /\ MaxLoads \in Nat \ {0}

VARIABLES
    row,          \* the server's row of the object
    place,        \* section of HomePage
    deletedFlag,  \* whether the page asks for deleted objects too
    loads,        \* GETs in flight, each with its effect's cancelled flag
    view,         \* state: loading, success with the row, or an error
    edit,         \* mode = "edit", the mounted form and its PATCH
    confirm,      \* action, actionBusy, actionError and its request
    creation,     \* the request of the create page, mounted or left
    told          \* the newest version the page was told of since it was opened

detailVars == <<row, place, deletedFlag, loads, view, edit, confirm, creation, told>>

RowState == [version : 0 .. LastVersion, live : BOOLEAN]
May(right) == right \in Rights

Blank == [kind |-> "loading", row |-> NoRow]
NoEdit == [open |-> FALSE, shows |-> 0, request |-> "none", version |-> 0,
           result |-> "none", error |-> "none", got |-> NoRow]
NoConfirm == [op |-> "none", request |-> "none", version |-> 0, result |-> "none",
              error |-> "none", got |-> NoRow]

(* The load effect runs, because id, deletedFlag or reloadToken changed.   *)
Load(flag) ==
    /\ deletedFlag' = flag
    /\ view' = Blank
    /\ loads' = {[l EXCEPT !.cancelled = TRUE] : l \in loads}
                    \union {[flag |-> flag, read |-> FALSE, row |-> NoRow, cancelled |-> FALSE]}

(* HomePage mounts the detail page, as it is at its first render. *)
Mount(flag, version) ==
    /\ place' = "detail"
    /\ Load(flag)
    /\ edit' = NoEdit
    /\ confirm' = NoConfirm
    /\ told' = version

(* The detail page is unmounted: its answers go nowhere, and a write of it *)
(* that is still on its way is from then on one of SomeoneWrites.          *)
Unmount(to) ==
    /\ place' = to
    /\ loads' = {[l EXCEPT !.cancelled = TRUE] : l \in loads}
    /\ view' = Blank
    /\ edit' = NoEdit
    /\ confirm' = NoConfirm
    /\ told' = 0
    /\ UNCHANGED deletedFlag

DetailInit ==
    /\ row \in {NoRow, [version |-> 1, live |-> TRUE], [version |-> 1, live |-> FALSE]}
    /\ place = "list"
    /\ deletedFlag = FALSE
    /\ loads = {}
    /\ view = Blank
    /\ edit = NoEdit
    /\ confirm = NoConfirm
    /\ creation = "none"
    /\ told = 0

(***************************************************************************)
(* Opening and leaving                                                     *)
(***************************************************************************)
(* A row of the list, which may be out of date by now, or a relation.      *)
OpenDetail(flag) ==
    /\ place = "list" /\ row.version > 0 /\ Cardinality(loads) < MaxLoads
    /\ flag => May("VIEW_DELETED")
    /\ Mount(flag, 0)
    /\ UNCHANGED <<row, creation>>

(* The back button and the sidebar; a modal dialog covers both. *)
Leave(to) ==
    /\ place = "detail" /\ confirm.op = "none"
    /\ Unmount(to)
    /\ UNCHANGED <<row, creation>>

GoTo(to) ==
    /\ place \in {"list", "away", "create"} /\ place # to
    /\ to = "create" => place = "list" /\ May("WRITE") /\ creation = "none"
    /\ place' = to
    /\ UNCHANGED <<row, deletedFlag, loads, view, edit, confirm, creation, told>>

(***************************************************************************)
(* Loading                                                                 *)
(***************************************************************************)
(* The server reads the row; without the flag a deleted one is not found. *)
ServerLoads(l) ==
    /\ ~l.read
    /\ loads' = (loads \ {l}) \union {[l EXCEPT !.read = TRUE, !.row = row]}
    /\ UNCHANGED <<row, place, deletedFlag, view, edit, confirm, creation, told>>

Visible(l) == l.row.version > 0 /\ (l.flag \/ l.row.live)

(* Mutant: the cancelled flag is not looked at. *)
LoadAnswerLate(l) ==
    /\ l.read
    /\ loads' = loads \ {l}
    /\ IF Visible(l)
       THEN /\ view' = [kind |-> "success", row |-> l.row]
            /\ edit' = IF edit.open THEN [edit EXCEPT !.shows = l.row.version] ELSE edit
            /\ told' = Later(told, l.row.version)
       ELSE /\ view' = [kind |-> "missing", row |-> l.row]
            /\ UNCHANGED <<edit, told>>
    /\ UNCHANGED <<row, place, deletedFlag, confirm, creation>>

(* Mutant: the form keeps the values it was mounted with. *)
LoadAnswerKeepsForm(l) ==
    /\ l.read
    /\ loads' = loads \ {l}
    /\ IF l.cancelled THEN UNCHANGED <<view, told>>
       ELSE IF Visible(l)
       THEN /\ view' = [kind |-> "success", row |-> l.row]
            /\ told' = Later(told, l.row.version)
       ELSE /\ view' = [kind |-> "missing", row |-> l.row]
            /\ UNCHANGED told
    /\ UNCHANGED <<row, place, deletedFlag, edit, confirm, creation>>

LoadAnswer(l) ==
    /\ l.read
    /\ loads' = loads \ {l}
    /\ IF l.cancelled THEN UNCHANGED <<view, edit, told>>
       ELSE IF Visible(l)
       THEN /\ view' = [kind |-> "success", row |-> l.row]
            /\ edit' = IF edit.open THEN [edit EXCEPT !.shows = l.row.version] ELSE edit
            /\ told' = Later(told, l.row.version)
       ELSE /\ view' = [kind |-> "missing", row |-> l.row]
            /\ UNCHANGED <<edit, told>>
    /\ UNCHANGED <<row, place, deletedFlag, confirm, creation>>

LoadFails(l) ==
    /\ loads' = loads \ {l}
    /\ view' = IF l.cancelled THEN view ELSE [kind |-> "error", row |-> NoRow]
    /\ UNCHANGED <<row, place, deletedFlag, edit, confirm, creation, told>>

(* The retry button of the error state. *)
RetryLoad ==
    /\ place = "detail" /\ view.kind \in {"error", "missing"}
    /\ Load(deletedFlag)
    /\ UNCHANGED <<row, place, edit, confirm, creation, told>>

(***************************************************************************)
(* Editing                                                                 *)
(***************************************************************************)
Viewing == place = "detail" /\ view.kind = "success" /\ ~edit.open /\ confirm.op = "none"
Editing == place = "detail" /\ view.kind = "success" /\ edit.open

StartEdit ==
    /\ Viewing
    /\ May("WRITE") /\ view.row.live
    /\ edit' = [NoEdit EXCEPT !.open = TRUE, !.shows = view.row.version]
    /\ UNCHANGED <<row, place, deletedFlag, loads, view, confirm, creation, told>>

CancelEdit ==
    /\ Editing /\ edit.request = "none"
    /\ edit' = NoEdit
    /\ UNCHANGED <<row, place, deletedFlag, loads, view, confirm, creation, told>>

(* buildUpdatePayload: without a change nothing is sent, otherwise the     *)
(* changed fields with the version of the resource in state.               *)
SubmitEdit ==
    /\ Editing /\ edit.request = "none"
    /\ \/ edit' = [edit EXCEPT !.error = "unchanged"]
       \/ edit' = [edit EXCEPT !.request = "sent", !.version = view.row.version,
                               !.result = "none", !.error = "none"]
    /\ UNCHANGED <<row, place, deletedFlag, loads, view, confirm, creation, told>>

(* refreshAfterConflict: the detail is loaded again, and the form, still   *)
(* the page's mode, is mounted anew with what comes.                       *)
RefreshEdit ==
    /\ Editing /\ edit.request = "none" /\ edit.error = "conflict"
    /\ edit' = [edit EXCEPT !.error = "none"]
    /\ Load(deletedFlag)
    /\ UNCHANGED <<row, place, confirm, creation, told>>

EditOk ==
    /\ edit.request = "answered" /\ edit.result = "ok"
    /\ view' = [kind |-> "success", row |-> edit.got]
    /\ told' = Later(told, edit.got.version)
    /\ edit' = NoEdit
    /\ UNCHANGED <<row, place, deletedFlag, loads, confirm, creation>>

EditFails ==
    /\ edit.request = "answered" /\ edit.result # "ok"
    /\ edit' = [edit EXCEPT !.request = "none", !.result = "none", !.error = edit.result]
    /\ UNCHANGED <<row, place, deletedFlag, loads, view, confirm, creation, told>>

(***************************************************************************)
(* Deleting and restoring                                                  *)
(***************************************************************************)
RequestAct(op) ==
    /\ Viewing
    /\ \/ op = "delete" /\ May("DELETE_OBJECT") /\ view.row.live
       \/ op = "restore" /\ May("RESTORE") /\ ~view.row.live
    /\ confirm' = [NoConfirm EXCEPT !.op = op]
    /\ UNCHANGED <<row, place, deletedFlag, loads, view, edit, creation, told>>

(* ConfirmDialog passes one click on and no other before it settles. *)
ConfirmAct ==
    /\ confirm.op # "none" /\ confirm.request = "none"
    /\ confirm' = [confirm EXCEPT !.request = "sent", !.version = view.row.version,
                                  !.result = "none", !.error = "none"]
    /\ UNCHANGED <<row, place, deletedFlag, loads, view, edit, creation, told>>

CancelAct ==
    /\ confirm.op # "none" /\ confirm.request = "none"
    /\ confirm' = NoConfirm
    /\ UNCHANGED <<row, place, deletedFlag, loads, view, edit, creation, told>>

(* A deleted object is shown to those who may see it; others go back. *)
DeleteOk ==
    /\ confirm.request = "answered" /\ confirm.result = "ok" /\ confirm.op = "delete"
    /\ IF May("VIEW_DELETED")
       THEN /\ Load(TRUE)
            /\ confirm' = NoConfirm
            /\ told' = Later(told, confirm.got.version)
            /\ UNCHANGED <<place, edit>>
       ELSE Unmount("list")
    /\ UNCHANGED <<row, creation>>

(* The restored object is shown, then loaded again if the flag changed. *)
RestoreOk ==
    /\ confirm.request = "answered" /\ confirm.result = "ok" /\ confirm.op = "restore"
    /\ confirm' = NoConfirm
    /\ told' = Later(told, confirm.got.version)
    /\ IF deletedFlag
       THEN Load(FALSE)
       ELSE /\ view' = [kind |-> "success", row |-> confirm.got]
            /\ UNCHANGED <<deletedFlag, loads>>
    /\ UNCHANGED <<row, place, edit, creation>>

ActFails ==
    /\ confirm.request = "answered" /\ confirm.result # "ok"
    /\ confirm' = [confirm EXCEPT !.request = "none", !.result = "none", !.error = confirm.result]
    /\ UNCHANGED <<row, place, deletedFlag, loads, view, edit, creation, told>>

RefreshFromDialog ==
    /\ confirm.op # "none" /\ confirm.request = "none" /\ confirm.error = "conflict"
    /\ confirm' = NoConfirm
    /\ Load(deletedFlag)
    /\ UNCHANGED <<row, place, edit, creation, told>>

(***************************************************************************)
(* The create page                                                         *)
(***************************************************************************)
SubmitCreate ==
    /\ place = "create" /\ creation = "none" /\ May("WRITE")
    /\ creation' = "sent"
    /\ UNCHANGED <<row, place, deletedFlag, loads, view, edit, confirm, told>>

(* onCreated belongs to HomePage: it opens the detail wherever the user    *)
(* has gone meanwhile.  A detail of the object already open stays mounted, *)
(* as its key, the id, is the same.                                        *)
CreateOk ==
    /\ creation = "ok"
    /\ creation' = "none"
    /\ IF place = "detail"
       THEN UNCHANGED <<place, deletedFlag, loads, view, edit, confirm, told>>
       ELSE Mount(FALSE, 1)
    /\ UNCHANGED row

CreateFails ==
    /\ creation = "failed"
    /\ creation' = "none"
    /\ UNCHANGED <<row, place, deletedFlag, loads, view, edit, confirm, told>>

(***************************************************************************)
(* The server                                                              *)
(***************************************************************************)
Bounded(op) == row' = row \/ (op # "other" /\ row.version < LastVersion)

ServerEdits ==
    /\ edit.request = "sent"
    /\ \E result \in Results, commits \in BOOLEAN :
          /\ Answerable([op |-> "edit", versioned |-> TRUE, version |-> edit.version],
                        row, TRUE, result, commits)
          /\ row' = IF commits THEN Written("edit", row) ELSE row
          /\ edit' = [edit EXCEPT !.request = "answered", !.result = result, !.got = row']
    /\ Bounded("edit")
    /\ UNCHANGED <<place, deletedFlag, loads, view, confirm, creation, told>>

ServerActs ==
    /\ confirm.request = "sent"
    /\ \E result \in Results, commits \in BOOLEAN :
          /\ Answerable([op |-> confirm.op, versioned |-> TRUE, version |-> confirm.version],
                        row, TRUE, result, commits)
          /\ row' = IF commits THEN Written(confirm.op, row) ELSE row
          /\ confirm' = [confirm EXCEPT !.request = "answered", !.result = result, !.got = row']
    /\ Bounded(confirm.op)
    /\ UNCHANGED <<place, deletedFlag, loads, view, edit, creation, told>>

ServerCreates ==
    /\ creation = "sent"
    /\ \E result \in Results \ {"conflict"}, commits \in BOOLEAN :
          /\ Answerable([op |-> "create", versioned |-> FALSE, version |-> 0],
                        row, TRUE, result, commits)
          /\ row' = IF commits THEN Written("create", row) ELSE row
          /\ creation' = IF result = "ok" THEN "ok" ELSE "failed"
    /\ UNCHANGED <<place, deletedFlag, loads, view, edit, confirm, told>>

(* Other users; never up to the last version, which is left to the page.   *)
SomeoneWrites ==
    /\ row.version < LastVersion - 1
    /\ \E op \in {"create", "edit", "delete", "restore"} :
          Applies(op, row, TRUE) /\ row' = Written(op, row)
    /\ UNCHANGED <<place, deletedFlag, loads, view, edit, confirm, creation, told>>

(***************************************************************************)
(* The specification                                                       *)
(***************************************************************************)
NavigationStep ==
    \/ \E flag \in BOOLEAN : OpenDetail(flag)
    \/ \E to \in {"list", "away"} : Leave(to)
    \/ \E to \in {"list", "away", "create"} : GoTo(to)

LoadStep ==
    \/ \E l \in loads : ServerLoads(l) \/ LoadAnswer(l) \/ LoadFails(l)
    \/ RetryLoad

EditStep ==
    \/ StartEdit \/ CancelEdit \/ SubmitEdit \/ RefreshEdit
    \/ ServerEdits \/ EditOk \/ EditFails

ActStep ==
    \/ \E op \in {"delete", "restore"} : RequestAct(op)
    \/ ConfirmAct \/ CancelAct \/ RefreshFromDialog
    \/ ServerActs \/ DeleteOk \/ RestoreOk \/ ActFails

CreateStep == SubmitCreate \/ ServerCreates \/ CreateOk \/ CreateFails

DetailNext ==
    \/ NavigationStep \/ LoadStep \/ EditStep \/ ActStep \/ CreateStep \/ SomeoneWrites

DetailSpec == DetailInit /\ [][DetailNext]_detailVars

(* The backend answers or the browser gives up, and the page hears of it.  *)
DetailFairness ==
    /\ WF_detailVars(\E l \in loads : ServerLoads(l))
    /\ WF_detailVars(\E l \in loads : LoadAnswer(l) \/ LoadFails(l))
    /\ WF_detailVars(ServerEdits) /\ WF_detailVars(EditOk \/ EditFails)
    /\ WF_detailVars(ServerActs) /\ WF_detailVars(DeleteOk \/ RestoreOk \/ ActFails)

(***************************************************************************)
(* Properties                                                              *)
(***************************************************************************)
(* The types of the detail page's state. *)
DetailTypeOK ==
    /\ row \in RowState
    /\ place \in {"list", "detail", "create", "away"}
    /\ deletedFlag \in BOOLEAN
    /\ loads \subseteq [flag : BOOLEAN, read : BOOLEAN, row : RowState, cancelled : BOOLEAN]
    /\ view \in [kind : {"loading", "success", "missing", "error"}, row : RowState]
    /\ edit \in [open : BOOLEAN, shows : 0 .. LastVersion, version : 0 .. LastVersion,
                 request : {"none", "sent", "answered"}, result : Results \union {"none"},
                 error : Results \union {"none", "unchanged"}, got : RowState]
    /\ confirm \in [op : {"none", "delete", "restore"}, version : 0 .. LastVersion,
                    request : {"none", "sent", "answered"}, result : Results \union {"none"},
                    error : Results \union {"none"}, got : RowState]
    /\ creation \in {"none", "sent", "ok", "failed"}
    /\ told \in 0 .. LastVersion

(* The detail shown is never older than what the page was told since it    *)
(* was opened, by an earlier load or by the answer to its own write; the   *)
(* answer to a load of an earlier opening would break it.  And "not found" *)
(* is never the outcome of what the user just did here: if the page says   *)
(* so, someone wrote the object after the last the page heard of it.       *)
DetailFresh ==
    /\ view.kind = "success" => view.row.version >= told
    /\ view.kind = "missing" => view.row.version > told

(* An edit lands only on the version whose values the form shows, and a    *)
(* deletion or restoration only on the version shown under the dialog.     *)
EditsWhatItShows ==
    [][/\ edit.request = "sent" /\ edit'.request = "answered" /\ row' # row
            => row.version = edit.shows
       /\ confirm.request = "sent" /\ confirm'.request = "answered" /\ row' # row
            => view.kind = "success" /\ row.version = view.row.version]_detailVars

(* An open detail page does not load forever, and a request of its form or *)
(* of its dialog is answered or given up, so that they can be used again.  *)
DetailSettles ==
    /\ place = "detail" /\ view.kind = "loading" ~> place # "detail" \/ view.kind # "loading"
    /\ edit.request # "none" ~> edit.request = "none"
    /\ confirm.request # "none" ~> confirm.request = "none"
=============================================================================
