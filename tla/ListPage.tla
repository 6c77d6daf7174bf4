------------------------------ MODULE ListPage ------------------------------
(***************************************************************************)
(* A list page of the web frontend (src/frontend/src/pages and             *)
(* src/frontend/src/components): a list loaded by a React effect, a form   *)
(* that creates or edits one object, a confirmation dialog that deletes,   *)
(* releases, restores or revokes one, and the activity view of an object.  *)
(* All list pages of the frontend have this control; module Pages says     *)
(* what each of them offers.  The server is the optimistic locking of the  *)
(* backend: a versioned write succeeds only at the version it names.       *)
(*                                                                         *)
(* HomePage mounts one section at a time, so a behaviour is the life of    *)
(* one mounted page.  Every request may lose its answer, before or after   *)
(* the server did what it asks for; answers arrive in any order; other     *)
(* users write between any two steps.                                      *)
(***************************************************************************)
EXTENDS Pages, FiniteSets

CONSTANTS
    Objects,        \* the objects of the page's type, present or not yet
    Nobody,         \* no object
    Permissions,    \* what the signed-in user may do (user.permissions)
    Mounted,        \* the sections a behaviour may be about
    MaxVersion,     \* bound: no object is written past this version
    MaxFlights      \* bound: list and activity requests in flight

ASSUME ListPageAssumption ==
    /\ Objects # {} /\ Nobody \notin Objects
    /\ Mounted \subseteq DOMAIN Page
    /\ MaxVersion \in Nat \ {0}
    /\ MaxFlights \in Nat \ {0}

VARIABLES
    section,    \* the mounted page
    db,         \* the server's rows
    query,      \* query of the page: the filter and page applied last
    flights,    \* the GET requests in flight, each with its effect's cancelled flag
    list,       \* state: the list shown
    mode,       \* mode: list, create or edit form, activity view
    form,       \* the mounted form and its request
    dialog,     \* action, actionBusy, actionError and the commit guard
    activity,   \* activityState: the object and page it is about
    floor       \* the newest version of each object the page was told of

pageVars == <<section, db, query, flights, list, mode, form, dialog, activity, floor>>

(***************************************************************************)
(* Values                                                                  *)
(***************************************************************************)
Row == [version : 0 .. MaxVersion, live : BOOLEAN]  \* version 0: no such object yet
Rows == [Objects -> Row]
Pages2 == {1, 2}
This == Page[section]
NoRows == [o \in Objects |-> NoRow]

Loads(slot) == {f \in flights : f.slot = slot}
Current(slot) == {f \in Loads(slot) : ~f.cancelled}
Room == Cardinality(flights) < MaxFlights

(* Mutant: the effect has no cleanup. *)
CancelledNever(slot) == flights

(* Leaving an effect: its cleanup sets the cancelled flag of its request. *)
Cancelled(slot) ==
    {IF f.slot = slot THEN [f EXCEPT !.cancelled = TRUE] ELSE f : f \in flights}

(* Running an effect: cleanup of the run before, then a new request. *)
Started(slot, args) ==
    Cancelled(slot) \union
        {[slot |-> slot, args |-> args, read |-> FALSE, rows |-> NoRows, cancelled |-> FALSE]}

Loading(q) == [kind |-> "loading", query |-> q, rows |-> NoRows]

(* The list effect runs again: its query changed or reloadToken did. *)
Reload(q) ==
    /\ Room
    /\ flights' = Started("list", [query |-> q, object |-> Nobody])
    /\ list' = Loading(q)

(* A row the list shows under its filter, on one of its pages. *)
Matches(row, filter) ==
    /\ row.version > 0
    /\ filter = "exclude" => row.live
    /\ filter = "only" => ~row.live
Shown(o) == list.kind = "success" /\ Matches(list.rows[o], list.query.filter)

(* A button of the row of o: rendered by permission and by deleted_at. *)
RowOffers(op, o) ==
    \E b \in This.rows :
        /\ b.op = op
        /\ b.needs \in Permissions
        /\ b.on = "live" => list.rows[o].live
        /\ b.on = "deleted" => ~list.rows[o].live
ToolbarOffers(op) == \E b \in This.toolbar : b.op = op /\ b.needs \in Permissions
Versioned(op) == \E r \in This.forms \union This.actions : r.op = op /\ r.versioned

ListMode == [kind |-> "list", op |-> "none", object |-> Nobody, version |-> 0, page |-> 1]
NoActivity == [kind |-> "loading", object |-> Nobody, page |-> 1]
IdleForm == [shows |-> 0, request |-> "none", op |-> "none", object |-> Nobody,
             version |-> 0, result |-> "none", got |-> 0, error |-> "none"]
IdleDialog == [op |-> "none", object |-> Nobody, version |-> 0, request |-> "none",
               result |-> "none", got |-> 0, error |-> "none", guard |-> FALSE]

(* The list is in view and no modal covers it. *)
Browsing == mode.kind = "list" /\ dialog.op = "none"

ListInit ==
    /\ section \in Mounted
    /\ db \in [Objects -> {NoRow, [version |-> 1, live |-> TRUE],
                           [version |-> 1, live |-> FALSE]}]
    /\ query \in {[filter |-> f, page |-> 1] : f \in This.initial}
    /\ flights = {[slot |-> "list", args |-> [query |-> query, object |-> Nobody],
                   read |-> FALSE, rows |-> NoRows, cancelled |-> FALSE]}
    /\ list = Loading(query)
    /\ mode = ListMode
    /\ form = IdleForm
    /\ dialog = IdleDialog
    /\ activity = NoActivity
    /\ floor = [o \in Objects |-> 0]

(***************************************************************************)
(* The list: filters, pages, reloads                                       *)
(***************************************************************************)
(* applyFilters, resetFilters, toggleSort, changeDeleted, changePageSize:  *)
(* another query, from its first page.                                     *)
ChangeFilter(f) ==
    /\ Browsing
    /\ f \in This.filters
    /\ ~This.paged => f # query.filter
    /\ f \in {"include", "only"} => ToolbarOffers("deleted")
    /\ query' = [filter |-> f, page |-> 1]
    /\ Reload(query')
    /\ UNCHANGED <<section, db, mode, form, dialog, activity, floor>>

(* Mutant: off by one. *)
GotoPagePast(p) ==
    /\ Browsing
    /\ This.paged /\ list.kind = "success" /\ p # query.page
    /\ query' = [query EXCEPT !.page = p + 1]
    /\ Reload(query')
    /\ UNCHANGED <<section, db, mode, form, dialog, activity, floor>>

GotoPage(p) ==
    /\ Browsing
    /\ This.paged /\ list.kind = "success" /\ p # query.page
    /\ query' = [query EXCEPT !.page = p]
    /\ Reload(query')
    /\ UNCHANGED <<section, db, mode, form, dialog, activity, floor>>

(* The retry button of the error state bumps reloadToken. *)
RetryList ==
    /\ Browsing
    /\ list.kind = "error"
    /\ Reload(query)
    /\ UNCHANGED <<section, db, query, mode, form, dialog, activity, floor>>

(* The server reads the rows for a GET in flight. *)
ServerReads(f) ==
    /\ ~f.read
    /\ flights' = (flights \ {f}) \union {[f EXCEPT !.read = TRUE, !.rows = IF f.slot = "list" THEN db ELSE NoRows]}
    /\ UNCHANGED <<section, db, query, list, mode, form, dialog, activity, floor>>

(* Mutant: the cancelled flag is not looked at. *)
ListAnswerLate(f) ==
    /\ f.slot = "list" /\ f.read
    /\ flights' = flights \ {f}
    /\ list' = [kind |-> "success", query |-> f.args.query, rows |-> f.rows]
    /\ floor' = [o \in Objects |-> Later(floor[o], f.rows[o].version)]
    /\ UNCHANGED <<section, db, query, mode, form, dialog, activity>>

(* The answer to a list request: dropped when the effect was cleaned up.   *)
ListAnswer(f) ==
    /\ f.slot = "list" /\ f.read
    /\ flights' = flights \ {f}
    /\ IF f.cancelled
       THEN UNCHANGED <<list, floor>>
       ELSE /\ list' = [kind |-> "success", query |-> f.args.query, rows |-> f.rows]
            /\ floor' = [o \in Objects |-> Later(floor[o], f.rows[o].version)]
    /\ UNCHANGED <<section, db, query, mode, form, dialog, activity>>

(* The request failed on the way there or back. *)
ListFails(f) ==
    /\ f.slot = "list"
    /\ flights' = flights \ {f}
    /\ list' = IF f.cancelled THEN list
               ELSE [kind |-> "error", query |-> query, rows |-> NoRows]
    /\ UNCHANGED <<section, db, query, mode, form, dialog, activity, floor>>

(***************************************************************************)
(* The forms                                                               *)
(***************************************************************************)
OpenCreate(op) ==
    /\ Browsing
    /\ [op |-> op, versioned |-> FALSE] \in This.forms /\ ToolbarOffers(op)
    /\ mode' = [kind |-> "create", op |-> op, object |-> Nobody, version |-> 0, page |-> 1]
    /\ form' = IdleForm
    /\ UNCHANGED <<section, db, query, flights, list, dialog, activity, floor>>

(* The form is mounted with formKey + 1: its fields take the row's values. *)
OpenEdit(o) ==
    /\ Browsing
    /\ Shown(o) /\ RowOffers("edit", o)
    /\ mode' = [kind |-> "edit", op |-> "edit", object |-> o,
                version |-> list.rows[o].version, page |-> 1]
    /\ form' = [IdleForm EXCEPT !.shows = list.rows[o].version]
    /\ UNCHANGED <<section, db, query, flights, list, dialog, activity, floor>>

(* onCancel of the form; its button is disabled while submitting. *)
CancelForm ==
    /\ mode.kind \in {"create", "edit"}
    /\ form.request = "none"
    /\ mode' = ListMode
    /\ form' = IdleForm
    /\ UNCHANGED <<section, db, query, flights, list, dialog, activity, floor>>

(* The submit handlers: an edit without a change sends nothing; otherwise  *)
(* the request carries mode's version.  A create names the object it makes *)
(* (its name or its address), or the server picks one.                     *)
SubmitUnchanged ==
    /\ mode.kind = "edit" /\ form.request = "none"
    /\ form' = [form EXCEPT !.error = "unchanged"]
    /\ UNCHANGED <<section, db, query, flights, list, mode, dialog, activity, floor>>

Submit(o) ==
    /\ mode.kind \in {"create", "edit"} /\ form.request = "none"
    /\ mode.kind = "edit" => o = mode.object
    /\ form' = [form EXCEPT !.request = "sent", !.op = mode.op, !.object = o,
                            !.version = mode.version, !.result = "none", !.error = "none"]
    /\ UNCHANGED <<section, db, query, flights, list, mode, dialog, activity, floor>>

(* refreshAfterConflict, offered by the form after a version conflict. *)
RefreshForm ==
    /\ mode.kind = "edit" /\ form.request = "none" /\ form.error = "conflict"
    /\ form' = [form EXCEPT !.request = "sent", !.op = "refresh", !.object = mode.object,
                            !.result = "none", !.error = "none"]
    /\ UNCHANGED <<section, db, query, flights, list, mode, dialog, activity, floor>>

(***************************************************************************)
(* The server                                                              *)
(***************************************************************************)
(* The write of a request, and what the server may answer to it. *)
Serves(request, result, commits) ==
    LET row == db[request.object]
        write == [op |-> request.op, versioned |-> Versioned(request.op), version |-> request.version]
    IN /\ Answerable(write, row, This.softDeletes, result, commits)
       /\ commits => row.version < MaxVersion
       /\ db' = IF commits THEN [db EXCEPT ![request.object] = Written(request.op, row)] ELSE db

ServerForm ==
    /\ form.request = "sent" /\ form.op # "refresh"
    /\ \E result \in Results, commits \in BOOLEAN :
          /\ Serves(form, result, commits)
          /\ form' = [form EXCEPT !.request = "answered", !.result = result,
                                  !.got = IF result = "ok" THEN db'[form.object].version ELSE 0]
    /\ UNCHANGED <<section, query, flights, list, mode, dialog, activity, floor>>

(* GET of one object: a deleted one is not found. *)
Found(row) == row.version > 0 /\ (This.softDeletes => row.live)
ServerRefresh ==
    /\ form.request = "sent" /\ form.op = "refresh"
    /\ \E result \in {"ok", "refused", "lost"} :
          /\ result = "ok" => Found(db[form.object])
          /\ result = "refused" => ~Found(db[form.object])
          /\ form' = [form EXCEPT !.request = "answered", !.result = result,
                                  !.got = IF result = "ok" THEN db[form.object].version ELSE 0]
    /\ UNCHANGED <<section, db, query, flights, list, mode, dialog, activity, floor>>

ServerDialog ==
    /\ dialog.request = "sent"
    /\ \E result \in Results, commits \in BOOLEAN :
          /\ Serves(dialog, result, commits)
          /\ dialog' = [dialog EXCEPT !.request = "answered", !.result = result,
                            !.got = IF result = "ok" THEN db'[dialog.object].version ELSE 0]
    /\ UNCHANGED <<section, query, flights, list, mode, form, activity, floor>>

(* Another user, or another tab: not up to the last version, so that the   *)
(* page always has a version left to write.                                *)
OtherWrite(o) ==
    /\ db[o].version < MaxVersion - 1
    /\ \E op \in {"create", "edit", "delete", "restore"} :
          /\ Applies(op, db[o], This.softDeletes)
          /\ db' = [db EXCEPT ![o] = Written(op, db[o])]
    /\ UNCHANGED <<section, query, flights, list, mode, form, dialog, activity, floor>>

(***************************************************************************)
(* The answers to the forms                                                *)
(***************************************************************************)
(* What is left of an error: whether it is one the client tells apart. *)
Told(result) == IF result \in This.told THEN result ELSE "message"

(* then: back to the list, which is loaded again; finally: not submitting. *)
FormOk ==
    /\ form.request = "answered" /\ form.result = "ok" /\ form.op # "refresh"
    /\ mode' = ListMode
    /\ form' = IdleForm
    /\ floor' = [floor EXCEPT ![form.object] = Later(@, form.got)]
    /\ Reload(query)
    /\ UNCHANGED <<section, db, query, dialog, activity>>

(* Mutant: formKey is not incremented. *)
FormRefreshedInPlace ==
    /\ form.request = "answered" /\ form.result = "ok" /\ form.op = "refresh"
    /\ mode' = [mode EXCEPT !.version = form.got]
    /\ form' = [IdleForm EXCEPT !.shows = form.shows]
    /\ UNCHANGED <<section, db, query, flights, list, dialog, activity, floor>>

(* then of the refresh: the fresh object, in a form mounted anew. *)
FormRefreshed ==
    /\ form.request = "answered" /\ form.result = "ok" /\ form.op = "refresh"
    /\ mode' = [mode EXCEPT !.version = form.got]
    /\ form' = [IdleForm EXCEPT !.shows = form.got]
    /\ UNCHANGED <<section, db, query, flights, list, dialog, activity, floor>>

(* catch: the error stays in the form, nothing is sent again. *)
FormFails ==
    /\ form.request = "answered" /\ form.result # "ok"
    /\ form' = [form EXCEPT !.request = "none", !.op = "none", !.object = Nobody,
                            !.version = 0, !.result = "none", !.error = Told(form.result)]
    /\ UNCHANGED <<section, db, query, flights, list, mode, dialog, activity, floor>>

(***************************************************************************)
(* The confirmation dialog                                                 *)
(***************************************************************************)
RequestAction(op, o) ==
    /\ Browsing
    /\ \E v \in BOOLEAN : [op |-> op, versioned |-> v] \in This.actions
    /\ Shown(o) /\ RowOffers(op, o)
    /\ dialog' = [IdleDialog EXCEPT !.op = op, !.object = o, !.version = list.rows[o].version]
    /\ UNCHANGED <<section, db, query, flights, list, mode, form, activity, floor>>

(* onOk: the once-only guard, then the confirm handler of the page. *)
Confirm ==
    /\ dialog.op # "none"
    /\ ~dialog.guard
    /\ dialog' = [dialog EXCEPT !.guard = TRUE, !.request = "sent", !.result = "none",
                                !.error = "none"]
    /\ UNCHANGED <<section, db, query, flights, list, mode, form, activity, floor>>

(* Mask, Escape and the cancel button are off while confirmLoading. *)
CancelDialog ==
    /\ dialog.op # "none"
    /\ dialog.request = "none"
    /\ dialog' = IdleDialog
    /\ UNCHANGED <<section, db, query, flights, list, mode, form, activity, floor>>

DialogOk ==
    /\ dialog.request = "answered" /\ dialog.result = "ok"
    /\ dialog' = IdleDialog
    /\ floor' = [floor EXCEPT ![dialog.object] = Later(@, dialog.got)]
    /\ Reload(query)
    /\ UNCHANGED <<section, db, query, mode, form, activity>>

(* The dialog stays open with the error; confirmLoading going back to      *)
(* false settles the guard.                                                *)
DialogFails ==
    /\ dialog.request = "answered" /\ dialog.result # "ok"
    /\ dialog' = [dialog EXCEPT !.request = "none", !.result = "none",
                                !.error = Told(dialog.result), !.guard = FALSE]
    /\ UNCHANGED <<section, db, query, flights, list, mode, form, activity, floor>>

(* Mutant: the dialog is not closed. *)
ReloadFromDialogOpen ==
    /\ dialog.op # "none" /\ dialog.request = "none"
    /\ dialog.error \in This.reloadsOn
    /\ Reload(query)
    /\ UNCHANGED <<section, db, query, mode, form, dialog, activity, floor>>

(* The refresh button under an error that says the row is out of date. *)
ReloadFromDialog ==
    /\ dialog.op # "none" /\ dialog.request = "none"
    /\ dialog.error \in This.reloadsOn
    /\ dialog' = IdleDialog
    /\ Reload(query)
    /\ UNCHANGED <<section, db, query, mode, form, activity, floor>>

(***************************************************************************)
(* The activity view                                                       *)
(***************************************************************************)
LoadActivity(o, p) ==
    /\ Room
    /\ flights' = Started("activity", [query |-> [filter |-> "activity", page |-> p], object |-> o])
    /\ activity' = NoActivity

OpenActivity(o) ==
    /\ Browsing
    /\ Shown(o) /\ RowOffers("activity", o)
    /\ mode' = [kind |-> "activity", op |-> "activity", object |-> o,
                version |-> list.rows[o].version, page |-> 1]
    /\ LoadActivity(o, 1)
    /\ UNCHANGED <<section, db, query, list, form, dialog, floor>>

(* Another page of the activity, or the retry after an error. *)
TurnActivity(p) ==
    /\ mode.kind = "activity"
    /\ \/ activity.kind = "success" /\ p # mode.page
       \/ activity.kind = "error" /\ p = mode.page
    /\ mode' = [mode EXCEPT !.page = p]
    /\ LoadActivity(mode.object, p)
    /\ UNCHANGED <<section, db, query, list, form, dialog, floor>>

(* Cleanup of the effect.  activityState stays behind in the code, unseen  *)
(* until the next opening sets it to loading.                              *)
LeaveActivity ==
    /\ mode.kind = "activity"
    /\ mode' = ListMode
    /\ flights' = Cancelled("activity")
    /\ activity' = NoActivity
    /\ UNCHANGED <<section, db, query, list, form, dialog, floor>>

(* The answer shows the entries of the object and page it was asked for. *)
ActivityAnswer(f) ==
    /\ f.slot = "activity" /\ f.read
    /\ flights' = flights \ {f}
    /\ activity' = IF f.cancelled THEN activity
                   ELSE [kind |-> "success", object |-> f.args.object, page |-> f.args.query.page]
    /\ UNCHANGED <<section, db, query, list, mode, form, dialog, floor>>

ActivityFails(f) ==
    /\ f.slot = "activity"
    /\ flights' = flights \ {f}
    /\ activity' = IF f.cancelled THEN activity ELSE [activity EXCEPT !.kind = "error"]
    /\ UNCHANGED <<section, db, query, list, mode, form, dialog, floor>>

(***************************************************************************)
(* The specification                                                       *)
(***************************************************************************)
QueryStep ==
    \/ \E f \in This.filters : ChangeFilter(f)
    \/ \E p \in Pages2 : GotoPage(p)

ListLoadStep ==
    \/ RetryList
    \/ \E f \in flights : ServerReads(f) \/ ListAnswer(f) \/ ListFails(f)

FormStep ==
    \/ \E op \in {"create", "manual", "auto"} : OpenCreate(op)
    \/ \E o \in Objects : OpenEdit(o) \/ Submit(o)
    \/ CancelForm \/ SubmitUnchanged \/ RefreshForm
    \/ ServerForm \/ ServerRefresh
    \/ FormOk \/ FormRefreshed \/ FormFails

DialogStep ==
    \/ \E op \in {"delete", "release", "restore", "revoke"}, o \in Objects : RequestAction(op, o)
    \/ Confirm \/ CancelDialog
    \/ ServerDialog \/ DialogOk \/ DialogFails \/ ReloadFromDialog

ActivityStep ==
    \/ \E o \in Objects : OpenActivity(o)
    \/ \E p \in Pages2 : TurnActivity(p)
    \/ LeaveActivity
    \/ \E f \in flights : ActivityAnswer(f) \/ ActivityFails(f)

ListNext ==
    \/ QueryStep \/ ListLoadStep \/ FormStep \/ DialogStep \/ ActivityStep
    \/ \E o \in Objects : OtherWrite(o)

ListSpec == ListInit /\ [][ListNext]_pageVars

(* The backend answers, or the browser gives the request up; the callback  *)
(* of a settled promise runs.  Nothing is assumed of the user.             *)
ListFairness ==
    /\ WF_pageVars(\E f \in flights : ServerReads(f))
    /\ WF_pageVars(\E f \in flights : ListAnswer(f) \/ ListFails(f))
    /\ WF_pageVars(\E f \in flights : ActivityAnswer(f) \/ ActivityFails(f))
    /\ WF_pageVars(ServerForm \/ ServerRefresh)
    /\ WF_pageVars(FormOk \/ FormRefreshed \/ FormFails)
    /\ WF_pageVars(ServerDialog)
    /\ WF_pageVars(DialogOk \/ DialogFails)

(***************************************************************************)
(* Properties                                                              *)
(***************************************************************************)
(* The types of the page's state and of its requests. *)
ListTypeOK ==
    /\ section \in Mounted
    /\ db \in Rows
    /\ query.filter \in This.filters /\ query.page \in Pages2
    /\ \A f \in flights : f.slot \in {"list", "activity"} /\ f.args.object \in Objects \union {Nobody}
    /\ list.kind \in {"loading", "success", "error"} /\ list.rows \in Rows
    /\ mode.kind \in {"list", "create", "edit", "activity"}
    /\ form.request \in {"none", "sent", "answered"}
    /\ dialog.request \in {"none", "sent", "answered"}
    /\ activity.kind \in {"loading", "success", "error"}
    /\ floor \in [Objects -> 0 .. MaxVersion]

(* What the list shows is never older than what the page was told before:  *)
(* by an earlier list, or by the answer to one of its own writes.  A late  *)
(* answer of an earlier run of the effect would break it, and so would a   *)
(* write that does not load the list again.                                *)
ListFresh ==
    list.kind = "success" => \A o \in Objects : list.rows[o].version >= floor[o]

(* The rows shown answer the query the page is set to, and the activity    *)
(* view shows the entries of its object and of its page, whatever order    *)
(* the answers to earlier filters, sort orders, pages and objects come in. *)
ShowsItsQuery ==
    /\ list.kind = "success" => list.query = query
    /\ mode.kind = "activity" /\ activity.kind = "success" =>
          activity.object = mode.object /\ activity.page = mode.page

(* The confirmation covers the row it was opened from, at the version it   *)
(* will send: no answer changes the list under an open dialog.  A request  *)
(* in flight keeps its dialog or form open on the object it is about: its  *)
(* answer cannot close or mark another one.                                *)
DialogOverItsRow ==
    /\ dialog.op # "none" =>
          /\ mode.kind = "list" /\ list.kind = "success"
          /\ list.rows[dialog.object].version = dialog.version
    /\ dialog.request # "none" => dialog.op # "none"
    /\ form.request # "none" =>
          /\ mode.kind \in {"create", "edit"}
          /\ mode.kind = "edit" => form.object = mode.object

(* A versioned write of this page lands only on the version whose values   *)
(* the user had before their eyes: the fields of the form, or the row      *)
(* under the dialog.  In particular the form is mounted anew when a        *)
(* version conflict made the page fetch the object again.                  *)
NoBlindOverwrite ==
    [][/\ form.request = "sent" /\ form.op = "edit" /\ db' # db /\ form'.request = "answered"
            => db[form.object].version = form.shows
       /\ dialog.request = "sent" /\ Versioned(dialog.op) /\ db' # db
            /\ dialog'.request = "answered"
            => db[dialog.object].version = list.rows[dialog.object].version]_pageVars

(* Unless the user keeps changing the query or saving, the list does not   *)
(* stay loading: what was answered or lost ends it, and not an answer of an     *)
(* earlier run of the effect that the page dropped.                        *)
ListSettles ==
    []<>(list.kind # "loading") \/ []<><<QueryStep \/ FormOk>>_pageVars

(* A form that was submitted, and a dialog that was confirmed, can be used *)
(* again or are gone, whatever became of the request.                      *)
RequestsSettle ==
    /\ form.request # "none" ~> form.request = "none"
    /\ dialog.guard ~> ~dialog.guard
=============================================================================
