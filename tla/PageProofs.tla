----------------------------- MODULE PageProofs -----------------------------
(* Proofs about the list pages: what a list shows is never older than what *)
(* the page knew and answers its query, a dialog stays over its row, and   *)
(* no write lands on a version the user has not seen.                      *)
EXTENDS ListPage, TLAPS

-----------------------------------------------------------------------------
NatRows == [Objects -> [version : Nat, live : BOOLEAN]]
Anyone == Objects \union {Nobody}
FlightOf(K) ==
    [slot : {"list", "activity"}, args : [query : K, object : Anyone],
     read : BOOLEAN, rows : NatRows, cancelled : BOOLEAN]
IsFlight(f) == \E K : f \in FlightOf(K)
ActivityOf(K) == [kind : {"loading", "success", "error"}, object : K, page : K]
Words ==
    {"none", "create", "manual", "auto", "edit", "refresh", "activity", "delete", "release", "restore",
     "revoke", "ok", "conflict", "refused", "lost", "message", "unchanged"}
ModeRecord ==
    [kind : {"list", "create", "edit", "activity"}, op : Words, object : Anyone,
     version : Nat, page : Pages2]
FormRecord ==
    [shows : Nat, request : {"none", "sent", "answered"}, op : Words, object : Anyone,
     version : Nat, result : Words, got : Nat, error : Words]
DialogRecord ==
    [op : Words, object : Anyone, version : Nat, request : {"none", "sent", "answered"},
     result : Words, got : Nat, error : Words, guard : BOOLEAN]

ListTyped ==
    /\ section \in DOMAIN Page
    /\ db \in NatRows /\ floor \in [Objects -> Nat]
    /\ \A f \in flights : IsFlight(f)
    /\ list.rows \in NatRows
    /\ mode \in ModeRecord /\ form \in FormRecord /\ dialog \in DialogRecord
    /\ \E K : activity \in ActivityOf(K)

Live(f, slot) == f.slot = slot /\ ~f.cancelled

\* The load that counts is the only one, for the query of now, and what it
\* read is between what the page knows and what the server has by now.
LoadsCurrent ==
    /\ \A f \in flights : Live(f, "list") => f.args.query = query /\ list.kind = "loading"
    /\ \A f, g \in flights : Live(f, "list") /\ Live(g, "list") => f = g
    /\ \A f \in flights : Live(f, "list") /\ f.read =>
          \A o \in Objects : floor[o] <= f.rows[o].version
    /\ \A f \in flights : f.slot = "list" /\ f.read =>
          \A o \in Objects : f.rows[o].version <= db[o].version
    /\ \A o \in Objects : floor[o] <= db[o].version
    /\ list.kind = "success" => list.query = query
    /\ ListFresh

\* The activity shown or on its way is the one of the mode.
ActivityCurrent ==
    /\ \A f \in flights : Live(f, "activity") =>
          mode.kind = "activity" /\ f.args.object = mode.object /\ f.args.query.page = mode.page
    /\ mode.kind = "activity" => mode.object \in Objects
    /\ mode.kind = "activity" /\ activity.kind = "success" =>
          activity.object = mode.object /\ activity.page = mode.page

DialogCurrent ==
    /\ dialog.op # "none" =>
          /\ mode.kind = "list" /\ list.kind = "success" /\ dialog.object \in Objects
          /\ list.rows[dialog.object].version = dialog.version
    /\ dialog.request # "none" => dialog.op # "none"
    /\ dialog.request = "answered" /\ dialog.result = "ok" =>
          dialog.got <= db[dialog.object].version

FormCurrent ==
    /\ mode.kind = "edit" =>
          /\ mode.op = "edit" /\ mode.object \in Objects /\ mode.version = form.shows
          /\ Versioned("edit")
    /\ mode.kind = "create" => mode.op \in {"create", "manual", "auto"}
    /\ form.request # "none" =>
          /\ mode.kind \in {"create", "edit"} /\ form.object \in Objects
          /\ mode.kind = "edit" => form.object = mode.object
          /\ form.op = "edit" => mode.kind = "edit" /\ form.version = mode.version
          /\ form.op = "refresh" => mode.kind = "edit"
    /\ form.request = "answered" /\ form.result = "ok" =>
          form.got <= db[form.object].version

ListIInv == ListTyped /\ LoadsCurrent /\ ActivityCurrent /\ DialogCurrent /\ FormCurrent

-----------------------------------------------------------------------------
\* A page whose rows can be edited sends the version with the edit.
LEMMA EditsAreVersioned ==
    ASSUME NEW s \in DOMAIN Page, \E b \in Page[s].rows : b.op = "edit"
    PROVE  \E r \in Page[s].forms \union Page[s].actions : r.op = "edit" /\ r.versioned
  <1> DEFINE Offers(p) == \E b \in p.rows : b.op = "edit"
             Sends(p) == Request("edit", TRUE) \in p.forms
  <1>1. Sends(Networks) /\ Sends(IpPools) /\ Sends(IpAddresses) /\ Sends(Services)
    BY DEF Networks, IpPools, IpAddresses, Services, NetworksForms, IpPoolsForms, IpAddressesForms,
           ServicesForms, NetworksCalls, IpPoolsCalls, IpAddressesCalls, ServicesCalls, Among, Calls, Request
  <1>2. Sends(Interfaces) /\ Sends(ServiceEndpoints) /\ Sends(Accounts)
    BY DEF Interfaces, ServiceEndpoints, Accounts, InterfacesForms, ServiceEndpointsForms, AccountsForms,
           InterfacesCalls, ServiceEndpointsCalls, AccountsCalls, Among, Calls, Request
  <1>3. ~Offers(ApiKeys) /\ ~Offers(Resources) /\ ~Offers(DeletedObjects)
    BY DEF ApiKeys, Resources, DeletedObjects, ApiKeysRows, ResourcesRows, DeletedObjectsRows, Button
  <1>4. ~Offers(Clusters) /\ ~Offers(Audit) /\ ~Offers(Dashboard) /\ ~Offers(ResourceServices)
        /\ ~Offers(HostVirtualMachines)
    BY DEF Clusters, Audit, Dashboard, ResourceServices, HostVirtualMachines, ReadOnly
  <1>5. Page[s] \in {Networks, IpPools, IpAddresses, Services, Interfaces, ServiceEndpoints, Accounts,
                     ApiKeys, Resources, DeletedObjects, Clusters, Audit, Dashboard, ResourceServices,
                     HostVirtualMachines}
    BY DEF Page
  <1>6. Offers(Page[s])
    OBVIOUS
  <1> HIDE DEF Offers, Sends
  <1>7. Sends(Page[s])
    BY <1>1, <1>2, <1>3, <1>4, <1>5, <1>6
  <1> QED BY <1>7 DEF Sends, Request

LEMMA CancelledKeeps ==
    ASSUME NEW slot \in {"list", "activity"}, \A f \in flights : IsFlight(f)
    PROVE  /\ \A f \in Cancelled(slot) : IsFlight(f)
           /\ \A f \in Cancelled(slot) : f.slot = slot => f.cancelled
           /\ \A f \in Cancelled(slot) : f.slot # slot => f \in flights
           /\ \A f \in Cancelled(slot) : f \in flights
                 \/ (\E g \in flights : f.slot = slot /\ g.slot = slot /\ f.read = g.read /\ f.rows = g.rows)
  <1> SUFFICES ASSUME NEW f \in Cancelled(slot)
               PROVE  /\ IsFlight(f) /\ (f.slot = slot => f.cancelled) /\ (f.slot # slot => f \in flights)
                      /\ f \in flights
                         \/ (\E g \in flights : f.slot = slot /\ g.slot = slot /\ f.read = g.read /\ f.rows = g.rows)
    OBVIOUS
  <1>1. PICK g \in flights : f = IF g.slot = slot THEN [g EXCEPT !.cancelled = TRUE] ELSE g
    BY DEF Cancelled
  <1>2. PICK K : g \in FlightOf(K)
    BY DEF IsFlight
  <1>3. f \in FlightOf(K)
    BY <1>1, <1>2 DEF FlightOf
  <1>4. g.slot = slot => f.slot = slot /\ f.cancelled /\ f.read = g.read /\ f.rows = g.rows
    BY <1>1, <1>2 DEF FlightOf
  <1> QED BY <1>1, <1>3, <1>4 DEF IsFlight

LEMMA NoRowsTyped == NoRows \in NatRows
  BY DEF NoRows, NoRow, NatRows

LEMMA StartedKeeps ==
    ASSUME NEW slot \in {"list", "activity"}, \A f \in flights : IsFlight(f),
           NEW q, NEW o \in Anyone
    PROVE  /\ \A f \in Started(slot, [query |-> q, object |-> o]) : IsFlight(f)
           /\ \A f \in Started(slot, [query |-> q, object |-> o]) : f.slot # slot => f \in flights
           /\ \A f \in Started(slot, [query |-> q, object |-> o]) : Live(f, slot) =>
                 f.args = [query |-> q, object |-> o] /\ ~f.read
           /\ \A f, g \in Started(slot, [query |-> q, object |-> o]) :
                 Live(f, slot) /\ Live(g, slot) => f = g
           /\ \A f \in Started(slot, [query |-> q, object |-> o]) : f.slot = "list" /\ f.read =>
                 \E g \in flights : g.slot = "list" /\ g.read /\ f.rows = g.rows
  <1> DEFINE args == [query |-> q, object |-> o]
             new == [slot |-> slot, args |-> args, read |-> FALSE, rows |-> NoRows, cancelled |-> FALSE]
  <1>1. new \in FlightOf({q})
    BY NoRowsTyped DEF FlightOf
  <1>2. new.slot = slot /\ new.args = args /\ new.read = FALSE
    OBVIOUS
  <1>3. Started(slot, args) = Cancelled(slot) \union {new}
    BY DEF Started
  <1> HIDE DEF new
  <1>4. IsFlight(new)
    BY <1>1 DEF IsFlight
  <1> QED BY <1>2, <1>3, <1>4, CancelledKeeps DEF Live

-----------------------------------------------------------------------------
\* What keeps the loads current.

LEMMA LoadsStay ==
    ASSUME ListIInv, UNCHANGED <<query, flights, list, floor>>, db' \in NatRows,
           \A o \in Objects : db[o].version <= db'[o].version
    PROVE  LoadsCurrent'
  <1>1. \A o \in Objects : db[o].version \in Nat /\ db'[o].version \in Nat /\ floor[o] \in Nat
    BY DEF ListIInv, ListTyped, NatRows
  <1>2. \A f \in flights, o \in Objects : f.rows[o].version \in Nat
    BY DEF ListIInv, ListTyped, IsFlight, FlightOf, NatRows
  <1> QED BY <1>1, <1>2 DEF ListIInv, LoadsCurrent, ListFresh, Live

LEMMA LoadsFewer ==
    ASSUME ListIInv, UNCHANGED <<query, db, list, floor>>,
           \A f \in flights' : f.slot = "list" => f \in flights
    PROVE  LoadsCurrent'
  BY DEF ListIInv, LoadsCurrent, ListFresh, Live

LEMMA LoadsReload ==
    ASSUME ListIInv, Reload(query'), UNCHANGED db, floor' \in [Objects -> Nat],
           \A o \in Objects : floor'[o] <= db[o].version
    PROVE  /\ LoadsCurrent'
           /\ (\A f \in flights' : IsFlight(f)) /\ list'.rows \in NatRows
           /\ \A f \in flights' : f.slot = "activity" => f \in flights
  <1>1. flights' = Started("list", [query |-> query', object |-> Nobody]) /\ list' = Loading(query')
    BY DEF Reload
  <1>2. list'.kind = "loading" /\ list'.rows = NoRows
    BY <1>1 DEF Loading
  <1>3. /\ \A f \in flights' : IsFlight(f)
        /\ \A f \in flights' : f.slot # "list" => f \in flights
        /\ \A f \in flights' : Live(f, "list") => f.args.query = query' /\ ~f.read
        /\ \A f, g \in flights' : Live(f, "list") /\ Live(g, "list") => f = g
        /\ \A f \in flights' : f.slot = "list" /\ f.read =>
              \E g \in flights : g.slot = "list" /\ g.read /\ f.rows = g.rows
    <2>1. \A f \in flights : IsFlight(f)
      BY DEF ListIInv, ListTyped
    <2>2. Nobody \in Anyone /\ "list" \in {"list", "activity"}
      BY DEF Anyone
    <2>3. \A f \in flights' : Live(f, "list") => f.args = [query |-> query', object |-> Nobody] /\ ~f.read
      BY <1>1, <2>1, <2>2, StartedKeeps
    <2>4. \A f \in flights' : Live(f, "list") => f.args.query = query'
      BY <2>3
    <2> QED BY <1>1, <2>1, <2>2, <2>3, <2>4, StartedKeeps
  <1>4. \A f \in flights' : f.slot = "list" /\ f.read => \A o \in Objects : f.rows[o].version <= db[o].version
    BY <1>3 DEF ListIInv, LoadsCurrent
  <1>5. LoadsCurrent'
    BY <1>2, <1>3, <1>4 DEF LoadsCurrent, ListFresh, Live
  <1> QED BY <1>2, <1>3, <1>5, NoRowsTyped

LEMMA ActivityStays ==
    ASSUME ActivityCurrent, UNCHANGED activity,
           \A f \in flights' : f.slot = "activity" => f \in flights,
           UNCHANGED mode \/ (mode.kind # "activity" /\ mode'.kind # "activity")
    PROVE  ActivityCurrent'
  BY DEF ActivityCurrent, Live

-----------------------------------------------------------------------------
\* The initial states.

LEMMA ListInitially == ListInit => ListIInv
  <1> SUFFICES ASSUME ListInit PROVE ListIInv
    OBVIOUS
  <1> DEFINE first == [slot |-> "list", args |-> [query |-> query, object |-> Nobody],
                       read |-> FALSE, rows |-> NoRows, cancelled |-> FALSE]
  <1>1. flights = {first} /\ list = Loading(query) /\ mode = ListMode /\ form = IdleForm
        /\ dialog = IdleDialog /\ activity = NoActivity /\ floor = [o \in Objects |-> 0]
    BY DEF ListInit
  <1>2. first \in FlightOf({query})
    BY NoRowsTyped DEF FlightOf, Anyone
  <1>3. first.slot = "list" /\ first.args.query = query /\ first.read = FALSE
    OBVIOUS
  <1> HIDE DEF first
  <1>4. /\ list.kind = "loading" /\ list.rows \in NatRows
        /\ mode.kind = "list" /\ form.request = "none" /\ dialog.op = "none" /\ dialog.request = "none"
    BY <1>1, NoRowsTyped DEF Loading, ListMode, IdleForm, IdleDialog
  <1>5. db \in NatRows /\ section \in DOMAIN Page
    <2>1. section \in DOMAIN Page
      BY ListPageAssumption DEF ListInit
    <2>2. {NoRow, [version |-> 1, live |-> TRUE], [version |-> 1, live |-> FALSE]}
             \subseteq [version : Nat, live : BOOLEAN]
      BY DEF NoRow
    <2>3. db \in NatRows
      BY <2>2 DEF ListInit, NatRows
    <2> QED BY <2>1, <2>3
  <1>6. /\ mode \in ModeRecord /\ form \in FormRecord /\ dialog \in DialogRecord
        /\ activity \in ActivityOf({1, Nobody})
    <2>1. ListMode \in ModeRecord
      BY DEF ListMode, ModeRecord, Words, Anyone, Pages2
    <2>2. IdleForm \in FormRecord
      BY DEF IdleForm, FormRecord, Words, Anyone
    <2>3. IdleDialog \in DialogRecord
      BY DEF IdleDialog, DialogRecord, Words, Anyone
    <2>4. NoActivity \in ActivityOf({1, Nobody})
      BY DEF NoActivity, ActivityOf
    <2> QED BY <1>1, <2>1, <2>2, <2>3, <2>4
  <1>7. ListTyped
    <2>1. \A f \in flights : IsFlight(f)
      BY <1>1, <1>2 DEF IsFlight
    <2>2. \E K : activity \in ActivityOf(K)
      BY <1>6
    <2>3. floor \in [Objects -> Nat]
      BY <1>1
    <2> QED BY <1>4, <1>5, <1>6, <2>1, <2>2, <2>3 DEF ListTyped
  <1>8. LoadsCurrent
    BY <1>1, <1>3, <1>4, <1>5 DEF LoadsCurrent, ListFresh, Live, NatRows
  <1>9. ActivityCurrent
    BY <1>1, <1>3, <1>4 DEF ActivityCurrent, Live
  <1>10. DialogCurrent /\ FormCurrent
    BY <1>4 DEF DialogCurrent, FormCurrent
  <1> QED BY <1>7, <1>8, <1>9, <1>10 DEF ListIInv

-----------------------------------------------------------------------------
\* The steps of the list.

LEMMA FormStays ==
    ASSUME FormCurrent, UNCHANGED <<form, mode, db, section>>
    PROVE  FormCurrent'
  BY DEF FormCurrent, Versioned, This

LEMMA DialogStays ==
    ASSUME DialogCurrent, UNCHANGED <<dialog, mode, list, db>>
    PROVE  DialogCurrent'
  BY DEF DialogCurrent

\* No request of a dialog that is not open.
LEMMA ClosedDialogStays ==
    ASSUME DialogCurrent, dialog.op = "none", UNCHANGED dialog
    PROVE  DialogCurrent'
  BY DEF DialogCurrent

LEMMA QueryReloads ==
    ASSUME ListIInv, Browsing, Reload(query'), UNCHANGED <<section, db, mode, form, dialog, activity, floor>>
    PROVE  ListIInv'
  <1>1. dialog.op = "none"
    BY DEF Browsing
  <1>2. floor' \in [Objects -> Nat] /\ \A o \in Objects : floor'[o] <= db[o].version
    BY DEF ListIInv, ListTyped, LoadsCurrent
  <1>3. /\ LoadsCurrent'
        /\ (\A f \in flights' : IsFlight(f)) /\ list'.rows \in NatRows
        /\ \A f \in flights' : f.slot = "activity" => f \in flights
    BY <1>2, LoadsReload
  <1>4. ListTyped'
    BY <1>3 DEF ListIInv, ListTyped
  <1> QED BY <1>1, <1>3, <1>4, ActivityStays, ClosedDialogStays, FormStays DEF ListIInv

LEMMA ReadsFlight ==
    ASSUME ListIInv, NEW f \in flights, ServerReads(f)
    PROVE  ListIInv'
  <1>1. PICK g : g = [f EXCEPT !.read = TRUE, !.rows = IF f.slot = "list" THEN db ELSE NoRows]
    OBVIOUS
  <1>2. PICK K : f \in FlightOf(K)
    BY DEF ListIInv, ListTyped, IsFlight
  <1>3. db \in NatRows /\ ~f.read
    BY DEF ServerReads, ListIInv, ListTyped
  <1>4. /\ g \in FlightOf(K) /\ g.slot = f.slot /\ g.args = f.args /\ g.cancelled = f.cancelled
        /\ f.slot = "list" => g.rows = db
    BY <1>1, <1>2, <1>3, NoRowsTyped DEF FlightOf
  <1>5. flights' = (flights \ {f}) \union {g}
        /\ UNCHANGED <<section, db, query, list, mode, form, dialog, activity, floor>>
    BY <1>1 DEF ServerReads
  <1>6. ListTyped'
    <2>1. \A h \in flights' : IsFlight(h)
      BY <1>4, <1>5 DEF ListIInv, ListTyped, IsFlight
    <2> QED BY <1>5, <2>1 DEF ListIInv, ListTyped
  <1>7. LoadsCurrent'
    <2>1. \A o \in Objects : db[o].version \in Nat
      BY <1>3 DEF NatRows
    <2>2. \A h \in flights' : Live(h, "list") => h.args.query = query /\ list.kind = "loading"
      BY <1>4, <1>5 DEF ListIInv, LoadsCurrent, Live
    <2>3. \A h, i \in flights' : Live(h, "list") /\ Live(i, "list") => h = i
      BY <1>4, <1>5 DEF ListIInv, LoadsCurrent, Live
    <2>4. \A h \in flights' : Live(h, "list") /\ h.read => \A o \in Objects : floor[o] <= h.rows[o].version
      BY <1>4, <1>5 DEF ListIInv, LoadsCurrent, Live
    <2>5. \A h \in flights' : h.slot = "list" /\ h.read => \A o \in Objects : h.rows[o].version <= db[o].version
      BY <1>4, <1>5, <2>1 DEF ListIInv, LoadsCurrent
    <2> QED BY <1>5, <2>2, <2>3, <2>4, <2>5 DEF ListIInv, LoadsCurrent, ListFresh
  <1>8. ActivityCurrent'
    BY <1>4, <1>5 DEF ListIInv, ActivityCurrent, Live
  <1> QED BY <1>5, <1>6, <1>7, <1>8, DialogStays, FormStays DEF ListIInv

LEMMA AnswersList ==
    ASSUME ListIInv, NEW f \in flights, ListAnswer(f)
    PROVE  ListIInv'
  <1>1. /\ f.slot = "list" /\ f.read /\ flights' = flights \ {f}
        /\ UNCHANGED <<section, db, query, mode, form, dialog, activity>>
    BY DEF ListAnswer
  <1>2. ActivityCurrent' /\ FormCurrent'
    BY <1>1, ActivityStays, FormStays DEF ListIInv
  <1>3. CASE f.cancelled
    <2>1. UNCHANGED <<list, floor>>
      BY <1>3 DEF ListAnswer
    <2>2. ListTyped'
      BY <1>1, <2>1 DEF ListIInv, ListTyped
    <2> QED BY <1>1, <1>2, <2>1, <2>2, LoadsFewer, DialogStays DEF ListIInv
  <1>4. CASE ~f.cancelled
    <2>1. /\ list' = [kind |-> "success", query |-> f.args.query, rows |-> f.rows]
          /\ floor' = [o \in Objects |-> Later(floor[o], f.rows[o].version)]
      BY <1>4 DEF ListAnswer
    <2>2. list'.kind = "success" /\ list'.query = f.args.query /\ list'.rows = f.rows
      BY <2>1
    <2>3. Live(f, "list")
      BY <1>1, <1>4 DEF Live
    <2>4. f.args.query = query /\ list.kind = "loading" /\ f.rows \in NatRows
      BY <2>3 DEF ListIInv, LoadsCurrent, ListTyped, IsFlight, FlightOf
    <2>5. \A o \in Objects : floor[o] \in Nat /\ f.rows[o].version \in Nat /\ floor[o] <= f.rows[o].version
                             /\ f.rows[o].version <= db[o].version
      BY <1>1, <2>3, <2>4 DEF ListIInv, LoadsCurrent, ListTyped, NatRows
    <2>6. \A o \in Objects : floor'[o] = f.rows[o].version
      BY <2>1, <2>5 DEF Later
    <2>7. floor' \in [Objects -> Nat]
      BY <2>1, <2>5 DEF Later
    <2>8. ListTyped'
      BY <1>1, <2>2, <2>4, <2>7 DEF ListIInv, ListTyped
    <2>9. \A g \in flights' : g \in flights /\ ~Live(g, "list")
      BY <1>1, <2>3 DEF ListIInv, LoadsCurrent
    <2>10. LoadsCurrent'
      <3>1. \A g \in flights' : g.slot = "list" /\ g.read => \A o \in Objects : g.rows[o].version <= db[o].version
        BY <2>9 DEF ListIInv, LoadsCurrent
      <3>2. ListFresh'
        BY <2>2, <2>5, <2>6 DEF ListFresh
      <3>3. \A o \in Objects : floor'[o] <= db[o].version
        BY <2>5, <2>6
      <3> QED BY <1>1, <2>2, <2>4, <2>9, <3>1, <3>2, <3>3 DEF LoadsCurrent
    <2>11. DialogCurrent'
      BY <1>1, <2>4, ClosedDialogStays DEF ListIInv, DialogCurrent
    <2> QED BY <1>2, <2>8, <2>10, <2>11 DEF ListIInv
  <1> QED BY <1>3, <1>4

LEMMA FailsList ==
    ASSUME ListIInv, NEW f \in flights, ListFails(f)
    PROVE  ListIInv'
  <1>1. /\ f.slot = "list" /\ flights' = flights \ {f}
        /\ UNCHANGED <<section, db, query, mode, form, dialog, activity, floor>>
    BY DEF ListFails
  <1>2. ActivityCurrent' /\ FormCurrent'
    BY <1>1, ActivityStays, FormStays DEF ListIInv
  <1>3. CASE f.cancelled
    <2>1. UNCHANGED list
      BY <1>3 DEF ListFails
    <2>2. ListTyped'
      BY <1>1, <2>1 DEF ListIInv, ListTyped
    <2> QED BY <1>1, <1>2, <2>1, <2>2, LoadsFewer, DialogStays DEF ListIInv
  <1>4. CASE ~f.cancelled
    <2>1. list' = [kind |-> "error", query |-> query, rows |-> NoRows]
      BY <1>4 DEF ListFails
    <2>2. list'.kind = "error" /\ list'.rows = NoRows
      BY <2>1
    <2>3. Live(f, "list")
      BY <1>1, <1>4 DEF Live
    <2>4. list.kind = "loading"
      BY <2>3 DEF ListIInv, LoadsCurrent
    <2>5. ListTyped'
      BY <1>1, <2>2, NoRowsTyped DEF ListIInv, ListTyped
    <2>6. \A g \in flights' : g \in flights /\ ~Live(g, "list")
      BY <1>1, <2>3 DEF ListIInv, LoadsCurrent
    <2>7. LoadsCurrent'
      BY <1>1, <2>2, <2>6 DEF ListIInv, LoadsCurrent, ListFresh
    <2>8. DialogCurrent'
      BY <1>1, <2>4, ClosedDialogStays DEF ListIInv, DialogCurrent
    <2> QED BY <1>2, <2>5, <2>7, <2>8 DEF ListIInv
  <1> QED BY <1>3, <1>4

-----------------------------------------------------------------------------
\* The steps of the forms and of the dialog that write nothing.

LEMMA FormMoves ==
    ASSUME ListIInv, UNCHANGED <<section, db, query, flights, list, dialog, activity, floor>>,
           mode' \in ModeRecord, form' \in FormRecord, FormCurrent',
           \/ UNCHANGED mode
           \/ mode.kind # "activity" /\ mode'.kind # "activity" /\ dialog.op = "none"
    PROVE  ListIInv'
  <1>1. ListTyped'
    BY DEF ListIInv, ListTyped
  <1>2. ActivityCurrent'
    BY ActivityStays DEF ListIInv
  <1>3. DialogCurrent'
    BY DialogStays, ClosedDialogStays DEF ListIInv
  <1> QED BY <1>1, <1>2, <1>3, LoadsFewer DEF ListIInv

LEMMA DialogMoves ==
    ASSUME ListIInv, UNCHANGED <<section, db, query, flights, list, mode, form, activity, floor>>,
           dialog' \in DialogRecord, DialogCurrent'
    PROVE  ListIInv'
  <1>1. ListTyped'
    BY DEF ListIInv, ListTyped
  <1> QED BY <1>1, ActivityStays, FormStays, LoadsFewer DEF ListIInv

LEMMA NoFormRequest == ListIInv /\ mode.kind \in {"list", "activity"} => form.request = "none"
  BY DEF ListIInv, FormCurrent

LEMMA NoDialogOverForm == ListIInv /\ mode.kind # "list" => dialog.op = "none"
  BY DEF ListIInv, DialogCurrent

LEMMA IdleTyped ==
    /\ ListMode \in ModeRecord /\ ListMode.kind = "list"
    /\ IdleForm \in FormRecord /\ IdleForm.request = "none"
    /\ IdleDialog \in DialogRecord /\ IdleDialog.op = "none" /\ IdleDialog.request = "none"
  <1>1. ListMode \in ModeRecord /\ ListMode.kind = "list"
    BY DEF ListMode, ModeRecord, Words, Anyone, Pages2
  <1>2. IdleForm \in FormRecord /\ IdleForm.request = "none"
    BY DEF IdleForm, FormRecord, Words, Anyone
  <1>3. IdleDialog \in DialogRecord /\ IdleDialog.op = "none" /\ IdleDialog.request = "none"
    BY DEF IdleDialog, DialogRecord, Words, Anyone
  <1> QED BY <1>1, <1>2, <1>3

LEMMA OpensCreate ==
    ASSUME ListIInv, NEW op \in {"create", "manual", "auto"}, OpenCreate(op)
    PROVE  ListIInv'
  <1>1. /\ mode.kind = "list" /\ dialog.op = "none"
        /\ mode' = [kind |-> "create", op |-> op, object |-> Nobody, version |-> 0, page |-> 1]
        /\ form' = IdleForm
        /\ UNCHANGED <<section, db, query, flights, list, dialog, activity, floor>>
    BY DEF OpenCreate, Browsing
  <1>2. mode' \in ModeRecord /\ mode'.kind = "create" /\ mode'.op = op
    BY <1>1 DEF ModeRecord, Words, Anyone, Pages2
  <1>3. FormCurrent'
    BY <1>1, <1>2, IdleTyped DEF FormCurrent
  <1> QED BY <1>1, <1>2, <1>3, IdleTyped, FormMoves

LEMMA OpensEdit ==
    ASSUME ListIInv, NEW o \in Objects, OpenEdit(o)
    PROVE  ListIInv'
  <1>1. /\ mode.kind = "list" /\ dialog.op = "none" /\ RowOffers("edit", o)
        /\ mode' = [kind |-> "edit", op |-> "edit", object |-> o, version |-> list.rows[o].version, page |-> 1]
        /\ form' = [IdleForm EXCEPT !.shows = list.rows[o].version]
        /\ UNCHANGED <<section, db, query, flights, list, dialog, activity, floor>>
    BY DEF OpenEdit, Browsing
  <1>2. list.rows[o].version \in Nat
    BY DEF ListIInv, ListTyped, NatRows
  <1>3. /\ mode' \in ModeRecord /\ mode'.kind = "edit" /\ mode'.op = "edit" /\ mode'.object = o
        /\ mode'.version = list.rows[o].version
    BY <1>1, <1>2 DEF ModeRecord, Words, Anyone, Pages2
  <1>4. form' \in FormRecord /\ form'.request = "none" /\ form'.shows = list.rows[o].version
    BY <1>1, <1>2, IdleTyped DEF FormRecord, Words
  <1>5. Versioned("edit")
    <2>1. section \in DOMAIN Page /\ \E b \in Page[section].rows : b.op = "edit"
      BY <1>1 DEF RowOffers, This, ListIInv, ListTyped
    <2> QED BY <2>1, EditsAreVersioned DEF Versioned, This
  <1>6. Versioned("edit")'
    BY <1>1, <1>5 DEF Versioned, This
  <1>7. FormCurrent'
    BY <1>3, <1>4, <1>6 DEF FormCurrent
  <1> QED BY <1>1, <1>3, <1>4, <1>7, FormMoves

LEMMA CancelsForm == ASSUME ListIInv, CancelForm PROVE ListIInv'
  <1>1. /\ mode.kind \in {"create", "edit"} /\ mode' = ListMode /\ form' = IdleForm
        /\ UNCHANGED <<section, db, query, flights, list, dialog, activity, floor>>
    BY DEF CancelForm
  <1>2. FormCurrent'
    BY <1>1, IdleTyped DEF FormCurrent
  <1> QED BY <1>1, <1>2, IdleTyped, NoDialogOverForm, FormMoves

LEMMA SubmitsUnchanged == ASSUME ListIInv, SubmitUnchanged PROVE ListIInv'
  <1>1. /\ form.request = "none" /\ form' = [form EXCEPT !.error = "unchanged"] /\ form \in FormRecord
        /\ UNCHANGED <<section, db, query, flights, list, mode, dialog, activity, floor>>
    BY DEF SubmitUnchanged, ListIInv, ListTyped
  <1>2. form' \in FormRecord /\ form'.request = "none" /\ form'.shows = form.shows
    BY <1>1 DEF FormRecord, Words
  <1>3. FormCurrent'
    BY <1>1, <1>2 DEF ListIInv, FormCurrent, Versioned, This
  <1>4. mode' \in ModeRecord
    BY <1>1 DEF ListIInv, ListTyped
  <1> QED BY <1>1, <1>2, <1>3, <1>4, FormMoves

LEMMA SubmitsForm == ASSUME ListIInv, NEW o \in Objects, Submit(o) PROVE ListIInv'
  <1>1. /\ mode.kind \in {"create", "edit"}
        /\ mode.kind = "edit" => o = mode.object
        /\ form' = [form EXCEPT !.request = "sent", !.op = mode.op, !.object = o,
                                !.version = mode.version, !.result = "none", !.error = "none"]
        /\ form \in FormRecord /\ mode \in ModeRecord
        /\ UNCHANGED <<section, db, query, flights, list, mode, dialog, activity, floor>>
    BY DEF Submit, ListIInv, ListTyped
  <1>2. mode.op \in Words /\ mode.version \in Nat /\ o \in Anyone
    BY <1>1 DEF ModeRecord, Words, Anyone
  <1>3. /\ form' \in FormRecord /\ form'.request = "sent" /\ form'.shows = form.shows
        /\ form'.op = mode.op /\ form'.object = o /\ form'.version = mode.version
    BY <1>1, <1>2 DEF FormRecord, Words
  <1>4. /\ mode.kind = "edit" => mode.op = "edit" /\ mode.version = form.shows /\ mode.object \in Objects /\ Versioned("edit")
        /\ mode.kind = "create" => mode.op \in {"create", "manual", "auto"}
    BY DEF ListIInv, FormCurrent
  <1>5. FormCurrent'
    BY <1>1, <1>3, <1>4 DEF FormCurrent, Versioned, This
  <1> QED BY <1>1, <1>3, <1>5, FormMoves

LEMMA RefreshesForm == ASSUME ListIInv, RefreshForm PROVE ListIInv'
  <1>1. /\ mode.kind = "edit"
        /\ form' = [form EXCEPT !.request = "sent", !.op = "refresh", !.object = mode.object,
                                !.result = "none", !.error = "none"]
        /\ form \in FormRecord /\ mode \in ModeRecord
        /\ UNCHANGED <<section, db, query, flights, list, mode, dialog, activity, floor>>
    BY DEF RefreshForm, ListIInv, ListTyped
  <1>2. mode.object \in Anyone
    BY <1>1 DEF ModeRecord, Words
  <1>3. /\ form' \in FormRecord /\ form'.request = "sent" /\ form'.shows = form.shows
        /\ form'.op = "refresh" /\ form'.object = mode.object
    BY <1>1, <1>2 DEF FormRecord, Words
  <1>4. FormCurrent'
    BY <1>1, <1>3 DEF ListIInv, FormCurrent, Versioned, This
  <1> QED BY <1>1, <1>3, <1>4, FormMoves

LEMMA RefreshesInForm == ASSUME ListIInv, FormRefreshed PROVE ListIInv'
  <1>1. /\ form.request = "answered" /\ form.op = "refresh"
        /\ mode' = [mode EXCEPT !.version = form.got]
        /\ form' = [IdleForm EXCEPT !.shows = form.got]
        /\ form \in FormRecord /\ mode \in ModeRecord
        /\ UNCHANGED <<section, db, query, flights, list, dialog, activity, floor>>
    BY DEF FormRefreshed, ListIInv, ListTyped
  <1>2. form.got \in Nat /\ mode.kind = "edit"
    BY <1>1 DEF FormRecord, Words, ListIInv, FormCurrent
  <1>3. mode' \in ModeRecord /\ mode'.kind = "edit" /\ mode'.op = mode.op /\ mode'.object = mode.object
        /\ mode'.version = form.got
    BY <1>1, <1>2 DEF ModeRecord, Words
  <1>4. form' \in FormRecord /\ form'.request = "none" /\ form'.shows = form.got
    BY <1>1, <1>2, IdleTyped DEF FormRecord, Words
  <1>5. FormCurrent'
    BY <1>1, <1>2, <1>3, <1>4 DEF ListIInv, FormCurrent, Versioned, This
  <1>6. dialog.op = "none"
    BY <1>2, NoDialogOverForm
  <1> QED BY <1>1, <1>2, <1>3, <1>4, <1>5, <1>6, FormMoves

LEMMA ToldIsText == \A result \in Words : Told(result) \in Words
  BY DEF Told, Words

LEMMA FailsForm == ASSUME ListIInv, FormFails PROVE ListIInv'
  <1>1. /\ form' = [form EXCEPT !.request = "none", !.op = "none", !.object = Nobody,
                                !.version = 0, !.result = "none", !.error = Told(form.result)]
        /\ form \in FormRecord /\ mode \in ModeRecord
        /\ UNCHANGED <<section, db, query, flights, list, mode, dialog, activity, floor>>
    BY DEF FormFails, ListIInv, ListTyped
  <1>2. Told(form.result) \in Words /\ Nobody \in Anyone
    BY <1>1, ToldIsText DEF FormRecord, Words, Anyone
  <1>3. form' \in FormRecord /\ form'.request = "none" /\ form'.shows = form.shows
    BY <1>1, <1>2 DEF FormRecord, Words
  <1>4. FormCurrent'
    BY <1>1, <1>3 DEF ListIInv, FormCurrent, Versioned, This
  <1> QED BY <1>1, <1>3, <1>4, FormMoves

LEMMA RequestsAction ==
    ASSUME ListIInv, NEW op \in {"delete", "release", "restore", "revoke"}, NEW o \in Objects,
           RequestAction(op, o)
    PROVE  ListIInv'
  <1>1. /\ mode.kind = "list" /\ list.kind = "success"
        /\ dialog' = [IdleDialog EXCEPT !.op = op, !.object = o, !.version = list.rows[o].version]
        /\ UNCHANGED <<section, db, query, flights, list, mode, form, activity, floor>>
    BY DEF RequestAction, Browsing, Shown
  <1>2. list.rows[o].version \in Nat /\ o \in Anyone
    BY DEF ListIInv, ListTyped, NatRows, Anyone
  <1>3. /\ dialog' \in DialogRecord /\ dialog'.object = o /\ dialog'.version = list.rows[o].version
        /\ dialog'.request = "none"
    BY <1>1, <1>2, IdleTyped DEF DialogRecord, Words
  <1>4. DialogCurrent'
    BY <1>1, <1>3 DEF DialogCurrent
  <1> QED BY <1>1, <1>3, <1>4, DialogMoves

LEMMA Confirms == ASSUME ListIInv, Confirm PROVE ListIInv'
  <1>1. /\ dialog.op # "none" /\ dialog \in DialogRecord
        /\ dialog' = [dialog EXCEPT !.guard = TRUE, !.request = "sent", !.result = "none", !.error = "none"]
        /\ UNCHANGED <<section, db, query, flights, list, mode, form, activity, floor>>
    BY DEF Confirm, ListIInv, ListTyped
  <1>2. /\ dialog' \in DialogRecord /\ dialog'.object = dialog.object /\ dialog'.version = dialog.version
        /\ dialog'.op = dialog.op /\ dialog'.request = "sent"
    BY <1>1 DEF DialogRecord, Words
  <1>3. DialogCurrent'
    BY <1>1, <1>2 DEF ListIInv, DialogCurrent
  <1> QED BY <1>1, <1>2, <1>3, DialogMoves

LEMMA FailsDialog == ASSUME ListIInv, DialogFails PROVE ListIInv'
  <1>1. /\ dialog.request = "answered" /\ dialog \in DialogRecord
        /\ dialog' = [dialog EXCEPT !.request = "none", !.result = "none",
                                    !.error = Told(dialog.result), !.guard = FALSE]
        /\ UNCHANGED <<section, db, query, flights, list, mode, form, activity, floor>>
    BY DEF DialogFails, ListIInv, ListTyped
  <1>2. Told(dialog.result) \in Words
    BY <1>1, ToldIsText DEF DialogRecord, Words
  <1>3. /\ dialog' \in DialogRecord /\ dialog'.object = dialog.object /\ dialog'.version = dialog.version
        /\ dialog'.op = dialog.op /\ dialog'.request = "none"
    BY <1>1, <1>2 DEF DialogRecord, Words
  <1>4. DialogCurrent'
    BY <1>1, <1>3 DEF ListIInv, DialogCurrent
  <1> QED BY <1>1, <1>3, <1>4, DialogMoves

LEMMA CancelsDialog == ASSUME ListIInv, CancelDialog PROVE ListIInv'
  BY IdleTyped, DialogMoves DEF CancelDialog, DialogCurrent

-----------------------------------------------------------------------------
\* The steps that write, and the ends of the requests.

LEMMA WrittenTyped ==
    ASSUME NEW op, NEW r \in [version : Nat, live : BOOLEAN]
    PROVE  Written(op, r) \in [version : Nat, live : BOOLEAN] /\ Written(op, r).version = r.version + 1
  <1> DEFINE alive == IF op \in {"delete", "release", "revoke"} THEN FALSE
                      ELSE IF Creates(op) \/ op = "restore" THEN TRUE ELSE r.live
  <1>1. Written(op, r) = [version |-> r.version + 1, live |-> alive]
    BY DEF Written
  <1>2. r.version + 1 \in Nat /\ r.live \in BOOLEAN
    OBVIOUS
  <1>3. alive \in BOOLEAN
    BY <1>2
  <1> HIDE DEF alive
  <1> QED BY <1>1, <1>2, <1>3

\* A write lets versions grow, and hits the version it names.
LEMMA ServesGrows ==
    ASSUME ListTyped, NEW request, request.object \in Objects, NEW result, NEW commits \in BOOLEAN,
           Serves(request, result, commits)
    PROVE  /\ db' \in NatRows
           /\ \A o \in Objects : db[o].version <= db'[o].version
           /\ db' # db /\ Versioned(request.op) => db[request.object].version = request.version
           /\ db' # db => commits
  <1> DEFINE row == db[request.object]
  <1>1. row \in [version : Nat, live : BOOLEAN] /\ row.version \in Nat /\ row.live \in BOOLEAN
        /\ \A o \in Objects : db[o].version \in Nat
    BY DEF ListTyped, NatRows
  <1>2. db' = IF commits THEN [db EXCEPT ![request.object] = Written(request.op, row)] ELSE db
    BY DEF Serves
  <1>3. Written(request.op, row) \in [version : Nat, live : BOOLEAN]
        /\ Written(request.op, row).version = row.version + 1
    BY <1>1, WrittenTyped
  <1>4. commits /\ Versioned(request.op) => row.version = request.version
    BY DEF Serves, Answerable
  <1>5. db' \in NatRows
    BY <1>2, <1>3 DEF ListTyped, NatRows
  <1>6. \A o \in Objects : db[o].version <= db'[o].version
    BY <1>1, <1>2, <1>3 DEF ListTyped, NatRows
  <1> QED BY <1>2, <1>4, <1>5, <1>6

LEMMA OthersGrow ==
    ASSUME ListTyped, NEW o \in Objects, OtherWrite(o)
    PROVE  db' \in NatRows /\ \A p \in Objects : db[p].version <= db'[p].version
  <1>1. PICK op : db' = [db EXCEPT ![o] = Written(op, db[o])]
    BY DEF OtherWrite
  <1>2. db[o] \in [version : Nat, live : BOOLEAN] /\ \A p \in Objects : db[p].version \in Nat
    BY DEF ListTyped, NatRows
  <1>3. Written(op, db[o]) \in [version : Nat, live : BOOLEAN] /\ Written(op, db[o]).version = db[o].version + 1
    BY <1>2, WrittenTyped
  <1>4. db' \in NatRows
    BY <1>1, <1>3 DEF ListTyped, NatRows
  <1> QED BY <1>1, <1>2, <1>3, <1>4 DEF ListTyped, NatRows

\* What the answers said stays true while versions grow.
LEMMA GrownStays ==
    ASSUME ListIInv, db' \in NatRows, \A o \in Objects : db[o].version <= db'[o].version
    PROVE  /\ UNCHANGED <<dialog, mode, list>> => DialogCurrent'
           /\ UNCHANGED <<form, mode, section>> => FormCurrent'
  <1>1. \A o \in Objects : db[o].version \in Nat /\ db'[o].version \in Nat
    BY DEF ListIInv, ListTyped, NatRows
  <1>2. form.got \in Nat /\ dialog.got \in Nat
    BY DEF ListIInv, ListTyped, FormRecord, DialogRecord
  <1>3. UNCHANGED <<dialog, mode, list>> => DialogCurrent'
    BY <1>1, <1>2 DEF ListIInv, DialogCurrent
  <1>4. UNCHANGED <<form, mode, section>> => FormCurrent'
    BY <1>1, <1>2 DEF ListIInv, FormCurrent, Versioned, This
  <1> QED BY <1>3, <1>4

LEMMA AnswersForm == ASSUME ListIInv, ServerForm PROVE ListIInv'
  <1>1. PICK result \in Results, commits \in BOOLEAN :
           /\ Serves(form, result, commits)
           /\ form' = [form EXCEPT !.request = "answered", !.result = result,
                                   !.got = IF result = "ok" THEN db'[form.object].version ELSE 0]
    BY DEF ServerForm
  <1>2. /\ form.request = "sent" /\ form.object \in Objects /\ form \in FormRecord
        /\ UNCHANGED <<section, query, flights, list, mode, dialog, activity, floor>>
    BY DEF ServerForm, ListIInv, FormCurrent, ListTyped
  <1>3. db' \in NatRows /\ \A o \in Objects : db[o].version <= db'[o].version
    BY <1>1, <1>2, ServesGrows DEF ListIInv
  <1>4. db'[form.object].version \in Nat
    BY <1>2, <1>3 DEF NatRows
  <1>5. result \in Words
    BY DEF Results, Words
  <1>6. /\ form' \in FormRecord /\ form'.request = "answered" /\ form'.op = form.op
        /\ form'.object = form.object /\ form'.version = form.version /\ form'.shows = form.shows
        /\ form'.result = result /\ form'.got = IF result = "ok" THEN db'[form.object].version ELSE 0
    BY <1>1, <1>2, <1>4, <1>5 DEF FormRecord
  <1>7. ListTyped'
    BY <1>2, <1>3, <1>6 DEF ListIInv, ListTyped
  <1>8. FormCurrent'
    BY <1>2, <1>4, <1>6 DEF ListIInv, FormCurrent, Versioned, This
  <1> QED BY <1>2, <1>3, <1>7, <1>8, LoadsStay, ActivityStays, GrownStays DEF ListIInv

LEMMA AnswersRefresh == ASSUME ListIInv, ServerRefresh PROVE ListIInv'
  <1>1. PICK result \in {"ok", "refused", "lost"} :
           form' = [form EXCEPT !.request = "answered", !.result = result,
                                !.got = IF result = "ok" THEN db[form.object].version ELSE 0]
    BY DEF ServerRefresh
  <1>2. /\ form.request = "sent" /\ form.object \in Objects /\ form \in FormRecord /\ mode \in ModeRecord
        /\ UNCHANGED <<section, db, query, flights, list, mode, dialog, activity, floor>>
    BY DEF ServerRefresh, ListIInv, FormCurrent, ListTyped
  <1>3. db[form.object].version \in Nat
    BY <1>2 DEF ListIInv, ListTyped, NatRows
  <1>4. /\ form' \in FormRecord /\ form'.request = "answered" /\ form'.op = form.op
        /\ form'.object = form.object /\ form'.version = form.version /\ form'.shows = form.shows
        /\ form'.result = result /\ form'.got = IF result = "ok" THEN db[form.object].version ELSE 0
    BY <1>1, <1>2, <1>3 DEF FormRecord, Words
  <1>5. FormCurrent'
    BY <1>2, <1>3, <1>4 DEF ListIInv, FormCurrent, Versioned, This
  <1> QED BY <1>2, <1>4, <1>5, FormMoves

LEMMA AnswersDialog == ASSUME ListIInv, ServerDialog PROVE ListIInv'
  <1>1. PICK result \in Results, commits \in BOOLEAN :
           /\ Serves(dialog, result, commits)
           /\ dialog' = [dialog EXCEPT !.request = "answered", !.result = result,
                                       !.got = IF result = "ok" THEN db'[dialog.object].version ELSE 0]
    BY DEF ServerDialog
  <1>2. /\ dialog.request = "sent" /\ dialog.object \in Objects /\ dialog \in DialogRecord
        /\ UNCHANGED <<section, query, flights, list, mode, form, activity, floor>>
    BY DEF ServerDialog, ListIInv, DialogCurrent, ListTyped
  <1>3. db' \in NatRows /\ \A o \in Objects : db[o].version <= db'[o].version
    BY <1>1, <1>2, ServesGrows DEF ListIInv
  <1>4. db'[dialog.object].version \in Nat
    BY <1>2, <1>3 DEF NatRows
  <1>5. result \in Words
    BY DEF Results, Words
  <1>6. /\ dialog' \in DialogRecord /\ dialog'.request = "answered" /\ dialog'.op = dialog.op
        /\ dialog'.object = dialog.object /\ dialog'.version = dialog.version
        /\ dialog'.result = result /\ dialog'.got = IF result = "ok" THEN db'[dialog.object].version ELSE 0
    BY <1>1, <1>2, <1>4, <1>5 DEF DialogRecord
  <1>7. ListTyped'
    BY <1>2, <1>3, <1>6 DEF ListIInv, ListTyped
  <1>8. DialogCurrent'
    BY <1>2, <1>4, <1>6 DEF ListIInv, DialogCurrent
  <1> QED BY <1>2, <1>3, <1>7, <1>8, LoadsStay, ActivityStays, GrownStays DEF ListIInv

LEMMA AnyoneWrites == ASSUME ListIInv, NEW o \in Objects, OtherWrite(o) PROVE ListIInv'
  <1>1. UNCHANGED <<section, query, flights, list, mode, form, dialog, activity, floor>>
    BY DEF OtherWrite
  <1>2. db' \in NatRows /\ \A p \in Objects : db[p].version <= db'[p].version
    BY OthersGrow DEF ListIInv
  <1>3. ListTyped'
    BY <1>1, <1>2 DEF ListIInv, ListTyped
  <1> QED BY <1>1, <1>2, <1>3, LoadsStay, ActivityStays, GrownStays DEF ListIInv

\* The page hears of a version the server has.
LEMMA FloorRises ==
    ASSUME ListIInv, NEW o \in Objects, NEW got \in Nat, got <= db[o].version,
           floor' = [floor EXCEPT ![o] = Later(@, got)]
    PROVE  floor' \in [Objects -> Nat] /\ \A p \in Objects : floor'[p] <= db[p].version
  <1>1. \A p \in Objects : floor[p] \in Nat /\ db[p].version \in Nat /\ floor[p] <= db[p].version
    BY DEF ListIInv, ListTyped, LoadsCurrent, NatRows
  <1>2. floor \in [Objects -> Nat] /\ floor' = [floor EXCEPT ![o] = IF floor[o] > got THEN floor[o] ELSE got]
    BY DEF ListIInv, ListTyped, Later
  <1> QED BY <1>1, <1>2

LEMMA EndsForm == ASSUME ListIInv, FormOk PROVE ListIInv'
  <1>1. /\ form.request = "answered" /\ form.result = "ok"
        /\ mode' = ListMode /\ form' = IdleForm
        /\ floor' = [floor EXCEPT ![form.object] = Later(@, form.got)]
        /\ Reload(query) /\ UNCHANGED <<section, db, query, dialog, activity>>
    BY DEF FormOk
  <1>2. /\ form.object \in Objects /\ mode.kind \in {"create", "edit"} /\ form.got \in Nat
        /\ form.got <= db[form.object].version
    BY <1>1 DEF ListIInv, FormCurrent, ListTyped, FormRecord
  <1>3. floor' \in [Objects -> Nat] /\ \A p \in Objects : floor'[p] <= db[p].version
    BY <1>1, <1>2, FloorRises
  <1>4. /\ LoadsCurrent'
        /\ (\A f \in flights' : IsFlight(f)) /\ list'.rows \in NatRows
        /\ \A f \in flights' : f.slot = "activity" => f \in flights
    BY <1>1, <1>3, LoadsReload
  <1>5. ListTyped'
    BY <1>1, <1>3, <1>4, IdleTyped DEF ListIInv, ListTyped
  <1>6. FormCurrent' /\ mode'.kind = "list"
    BY <1>1, IdleTyped DEF FormCurrent
  <1>7. dialog.op = "none"
    BY <1>2, NoDialogOverForm
  <1> QED BY <1>1, <1>2, <1>4, <1>5, <1>6, <1>7, ActivityStays, ClosedDialogStays DEF ListIInv

LEMMA EndsDialog == ASSUME ListIInv, DialogOk PROVE ListIInv'
  <1>1. /\ dialog.request = "answered" /\ dialog.result = "ok" /\ dialog' = IdleDialog
        /\ floor' = [floor EXCEPT ![dialog.object] = Later(@, dialog.got)]
        /\ Reload(query) /\ UNCHANGED <<section, db, query, mode, form, activity>>
    BY DEF DialogOk
  <1>2. dialog.object \in Objects /\ dialog.got \in Nat /\ dialog.got <= db[dialog.object].version
    BY <1>1 DEF ListIInv, DialogCurrent, ListTyped, DialogRecord
  <1>3. floor' \in [Objects -> Nat] /\ \A p \in Objects : floor'[p] <= db[p].version
    BY <1>1, <1>2, FloorRises
  <1>4. /\ LoadsCurrent'
        /\ (\A f \in flights' : IsFlight(f)) /\ list'.rows \in NatRows
        /\ \A f \in flights' : f.slot = "activity" => f \in flights
    BY <1>1, <1>3, LoadsReload
  <1>5. ListTyped'
    BY <1>1, <1>3, <1>4, IdleTyped DEF ListIInv, ListTyped
  <1>6. DialogCurrent'
    BY <1>1, IdleTyped DEF DialogCurrent
  <1> QED BY <1>1, <1>4, <1>5, <1>6, ActivityStays, FormStays DEF ListIInv

LEMMA ReloadsFromDialog == ASSUME ListIInv, ReloadFromDialog PROVE ListIInv'
  <1>1. /\ dialog' = IdleDialog /\ Reload(query)
        /\ UNCHANGED <<section, db, query, mode, form, activity, floor>>
    BY DEF ReloadFromDialog
  <1>2. floor' \in [Objects -> Nat] /\ \A o \in Objects : floor'[o] <= db[o].version
    BY <1>1 DEF ListIInv, ListTyped, LoadsCurrent
  <1>3. /\ LoadsCurrent'
        /\ (\A f \in flights' : IsFlight(f)) /\ list'.rows \in NatRows
        /\ \A f \in flights' : f.slot = "activity" => f \in flights
    BY <1>1, <1>2, LoadsReload
  <1>4. ListTyped'
    BY <1>1, <1>2, <1>3, IdleTyped DEF ListIInv, ListTyped
  <1>5. DialogCurrent'
    BY <1>1, IdleTyped DEF DialogCurrent
  <1> QED BY <1>1, <1>3, <1>4, <1>5, ActivityStays, FormStays DEF ListIInv

-----------------------------------------------------------------------------
\* The steps of the activity view.

LEMMA LoadsActivity ==
    ASSUME ListIInv, NEW o \in Objects, NEW p \in Pages2, LoadActivity(o, p),
           mode' \in ModeRecord, mode'.kind = "activity", mode'.object = o, mode'.page = p,
           UNCHANGED <<section, db, query, list, form, dialog, floor>>,
           form.request = "none", dialog.op = "none"
    PROVE  ListIInv'
  <1>1. /\ flights' = Started("activity", [query |-> [filter |-> "activity", page |-> p], object |-> o])
        /\ activity' = NoActivity
    BY DEF LoadActivity
  <1>2. activity' \in ActivityOf({1, Nobody}) /\ activity'.kind = "loading"
    BY <1>1 DEF NoActivity, ActivityOf
  <1>3. \A f \in flights : IsFlight(f)
    BY DEF ListIInv, ListTyped
  <1>4. o \in Anyone /\ "activity" \in {"list", "activity"}
    BY DEF Anyone
  <1>5. /\ \A f \in flights' : IsFlight(f)
        /\ \A f \in flights' : f.slot # "activity" => f \in flights
        /\ \A f \in flights' : Live(f, "activity") =>
              f.args = [query |-> [filter |-> "activity", page |-> p], object |-> o]
    <2>1. PICK q : q = [filter |-> "activity", page |-> p]
      OBVIOUS
    <2>2. flights' = Started("activity", [query |-> q, object |-> o])
      BY <1>1, <2>1
    <2>3. \A f \in flights' : Live(f, "activity") => f.args = [query |-> q, object |-> o]
      BY <1>3, <1>4, <2>2, StartedKeeps
    <2>4. (\A f \in flights' : IsFlight(f)) /\ (\A f \in flights' : f.slot # "activity" => f \in flights)
      BY <1>3, <1>4, <2>2, StartedKeeps
    <2> QED BY <2>1, <2>3, <2>4
  <1>6. \A f \in flights' : Live(f, "activity") => f.args.object = o /\ f.args.query.page = p
    BY <1>5
  <1>7. ListTyped'
    BY <1>2, <1>5 DEF ListIInv, ListTyped
  <1>8. LoadsCurrent'
    BY <1>5, LoadsFewer
  <1>9. ActivityCurrent'
    BY <1>2, <1>6 DEF ActivityCurrent
  <1>10. DialogCurrent'
    BY ClosedDialogStays DEF ListIInv
  <1>11. FormCurrent'
    BY DEF FormCurrent
  <1> QED BY <1>7, <1>8, <1>9, <1>10, <1>11 DEF ListIInv

LEMMA OpensActivity == ASSUME ListIInv, NEW o \in Objects, OpenActivity(o) PROVE ListIInv'
  <1>1. /\ mode.kind = "list" /\ dialog.op = "none" /\ LoadActivity(o, 1)
        /\ mode' = [kind |-> "activity", op |-> "activity", object |-> o,
                    version |-> list.rows[o].version, page |-> 1]
        /\ UNCHANGED <<section, db, query, list, form, dialog, floor>>
    BY DEF OpenActivity, Browsing
  <1>2. list.rows[o].version \in Nat
    BY DEF ListIInv, ListTyped, NatRows
  <1>3. mode' \in ModeRecord /\ mode'.kind = "activity" /\ mode'.object = o /\ mode'.page = 1
    BY <1>1, <1>2 DEF ModeRecord, Words, Anyone, Pages2
  <1>4. 1 \in Pages2
    BY DEF Pages2
  <1> QED BY <1>1, <1>3, <1>4, NoFormRequest, LoadsActivity

LEMMA TurnsActivity == ASSUME ListIInv, NEW p \in Pages2, TurnActivity(p) PROVE ListIInv'
  <1>1. /\ mode.kind = "activity" /\ LoadActivity(mode.object, p)
        /\ mode' = [mode EXCEPT !.page = p] /\ mode \in ModeRecord
        /\ UNCHANGED <<section, db, query, list, form, dialog, floor>>
    BY DEF TurnActivity, ListIInv, ListTyped
  <1>2. mode.object \in Objects
    BY <1>1 DEF ListIInv, ActivityCurrent
  <1>3. mode' \in ModeRecord /\ mode'.kind = "activity" /\ mode'.object = mode.object /\ mode'.page = p
    BY <1>1 DEF ModeRecord
  <1> QED BY <1>1, <1>2, <1>3, NoFormRequest, NoDialogOverForm, LoadsActivity

LEMMA LeavesActivity == ASSUME ListIInv, LeaveActivity PROVE ListIInv'
  <1>1. /\ mode.kind = "activity" /\ mode' = ListMode /\ flights' = Cancelled("activity")
        /\ activity' = NoActivity
        /\ UNCHANGED <<section, db, query, list, form, dialog, floor>>
    BY DEF LeaveActivity
  <1>2. mode' \in ModeRecord /\ mode'.kind = "list"
    BY <1>1, IdleTyped
  <1>3. activity' \in ActivityOf({1, Nobody})
    BY <1>1 DEF NoActivity, ActivityOf
  <1>4. \A f \in flights : IsFlight(f)
    BY DEF ListIInv, ListTyped
  <1>5. /\ \A f \in flights' : IsFlight(f)
        /\ \A f \in flights' : f.slot = "activity" => f.cancelled
        /\ \A f \in flights' : f.slot # "activity" => f \in flights
    BY <1>1, <1>4, CancelledKeeps
  <1>6. ListTyped'
    BY <1>1, <1>2, <1>3, <1>5 DEF ListIInv, ListTyped
  <1>7. ActivityCurrent'
    BY <1>2, <1>5 DEF ActivityCurrent, Live
  <1>8. form.request = "none" /\ dialog.op = "none"
    BY <1>1, NoFormRequest, NoDialogOverForm
  <1>9. FormCurrent'
    BY <1>1, <1>2, <1>8 DEF FormCurrent
  <1> QED BY <1>1, <1>5, <1>6, <1>7, <1>8, <1>9, LoadsFewer, ClosedDialogStays DEF ListIInv

LEMMA AnswersActivity ==
    ASSUME ListIInv, NEW f \in flights, ActivityAnswer(f) \/ ActivityFails(f)
    PROVE  ListIInv'
  <1>1. /\ f.slot = "activity" /\ flights' = flights \ {f}
        /\ UNCHANGED <<section, db, query, list, mode, form, dialog, floor>>
    BY DEF ActivityAnswer, ActivityFails
  <1>2. PICK K : activity \in ActivityOf(K)
    BY DEF ListIInv, ListTyped
  <1>3. \/ activity' = activity
        \/ activity' = [activity EXCEPT !.kind = "error"]
        \/ activity' = [kind |-> "success", object |-> f.args.object, page |-> f.args.query.page] /\ ~f.cancelled
    BY DEF ActivityAnswer, ActivityFails
  <1>4. /\ \E L : activity' \in ActivityOf(L)
        /\ mode.kind = "activity" /\ activity'.kind = "success" =>
              activity'.object = mode.object /\ activity'.page = mode.page
    <2>1. CASE activity' = activity
      BY <1>2, <2>1 DEF ListIInv, ActivityCurrent
    <2>2. CASE activity' = [activity EXCEPT !.kind = "error"]
      <3>1. activity' \in ActivityOf(K) /\ activity'.kind = "error"
        BY <1>2, <2>2 DEF ActivityOf
      <3> QED BY <3>1
    <2>3. CASE activity' = [kind |-> "success", object |-> f.args.object, page |-> f.args.query.page]
               /\ ~f.cancelled
      <3>1. activity' \in ActivityOf({f.args.object, f.args.query.page})
        BY <2>3 DEF ActivityOf
      <3>2. f.args.object = mode.object /\ f.args.query.page = mode.page
        BY <1>1, <2>3 DEF ListIInv, ActivityCurrent, Live
      <3> QED BY <2>3, <3>1, <3>2
    <2> QED BY <1>3, <2>1, <2>2, <2>3
  <1>5. ListTyped'
    BY <1>1, <1>4 DEF ListIInv, ListTyped
  <1>6. ActivityCurrent'
    BY <1>1, <1>4 DEF ListIInv, ActivityCurrent
  <1> QED BY <1>1, <1>5, <1>6, LoadsFewer, DialogStays, FormStays DEF ListIInv

-----------------------------------------------------------------------------
\* The theorems.

LEMMA StepsKeep == ListIInv /\ [ListNext]_pageVars => ListIInv'
  <1> SUFFICES ASSUME ListIInv, [ListNext]_pageVars PROVE ListIInv'
    OBVIOUS
  <1>1. CASE QueryStep
    <2>1. Browsing /\ Reload(query') /\ UNCHANGED <<section, db, mode, form, dialog, activity, floor>>
      BY <1>1 DEF QueryStep, ChangeFilter, GotoPage
    <2> QED BY <2>1, QueryReloads
  <1>2. CASE ListLoadStep
    <2>1. CASE RetryList
      <3>1. Browsing /\ Reload(query') /\ UNCHANGED <<section, db, mode, form, dialog, activity, floor>>
        BY <2>1 DEF RetryList, Reload
      <3> QED BY <3>1, QueryReloads
    <2> QED BY <1>2, <2>1, ReadsFlight, AnswersList, FailsList DEF ListLoadStep
  <1>3. CASE FormStep
    BY <1>3, OpensCreate, OpensEdit, SubmitsForm, CancelsForm, SubmitsUnchanged, RefreshesForm, AnswersForm,
       AnswersRefresh, EndsForm, RefreshesInForm, FailsForm DEF FormStep
  <1>4. CASE DialogStep
    BY <1>4, RequestsAction, Confirms, CancelsDialog, AnswersDialog, EndsDialog, FailsDialog,
       ReloadsFromDialog DEF DialogStep
  <1>5. CASE ActivityStep
    BY <1>5, OpensActivity, TurnsActivity, LeavesActivity, AnswersActivity DEF ActivityStep
  <1>6. CASE UNCHANGED pageVars
    <2>1. UNCHANGED <<section, db, query, flights, list, mode, form, dialog, activity, floor>>
      BY <1>6 DEF pageVars
    <2>2. mode' \in ModeRecord /\ form' \in FormRecord /\ FormCurrent'
      BY <2>1, FormStays DEF ListIInv, ListTyped
    <2> QED BY <2>1, <2>2, FormMoves
  <1> QED BY <1>1, <1>2, <1>3, <1>4, <1>5, <1>6, AnyoneWrites DEF ListNext

LEMMA AlwaysListIInv == ListSpec => []ListIInv
  <1> QED BY ListInitially, StepsKeep, PTL DEF ListSpec

(* Whatever the answers' order and whoever else writes, the list is never  *)
(* older than what the page was told before, for any number of objects.    *)
THEOREM ListsAlwaysFresh == ListSpec => []ListFresh
  <1>1. ListIInv => ListFresh
    BY DEF ListIInv, LoadsCurrent
  <1> QED BY <1>1, AlwaysListIInv, PTL

(* The list answers the query, and the activity view its object and page,  *)
(* on every page and for any number of requests in flight.                 *)
THEOREM PagesShowTheirQuery == ListSpec => []ShowsItsQuery
  <1>1. ListIInv => ShowsItsQuery
    BY DEF ListIInv, LoadsCurrent, ActivityCurrent, ShowsItsQuery
  <1> QED BY <1>1, AlwaysListIInv, PTL

(* A dialog stays over the row it was opened from, and a request keeps its *)
(* dialog or its form open, for any number of objects.                     *)
THEOREM DialogsStayOverTheirRow == ListSpec => []DialogOverItsRow
  <1>1. ListIInv => DialogOverItsRow
    BY DEF ListIInv, DialogCurrent, FormCurrent, DialogOverItsRow
  <1> QED BY <1>1, AlwaysListIInv, PTL

(* Only a server's step makes a request answered. *)
LEMMA AnsweredByServer ==
    ASSUME ListIInv, ListNext
    PROVE  /\ form.request = "sent" /\ form'.request = "answered" => ServerForm \/ ServerRefresh
           /\ dialog.request = "sent" /\ dialog'.request = "answered" => ServerDialog
  <1>1. form \in FormRecord /\ dialog \in DialogRecord
    BY DEF ListIInv, ListTyped
  <1>2. CASE QueryStep
    BY <1>2 DEF QueryStep, ChangeFilter, GotoPage
  <1>3. CASE ListLoadStep
    BY <1>3 DEF ListLoadStep, RetryList, ServerReads, ListAnswer, ListFails
  <1>4. CASE FormStep
    <2>1. UNCHANGED dialog
      BY <1>4 DEF FormStep, OpenCreate, OpenEdit, Submit, CancelForm, SubmitUnchanged, RefreshForm, ServerForm,
                  ServerRefresh, FormOk, FormRefreshed, FormFails
    <2>2. form.request = "sent" =>
             ServerForm \/ ServerRefresh \/ (\E o \in Objects : OpenEdit(o))
             \/ (\E op \in {"create", "manual", "auto"} : OpenCreate(op))
      BY <1>4 DEF FormStep, Submit, CancelForm, SubmitUnchanged, RefreshForm, FormOk, FormRefreshed, FormFails
    <2>3. ASSUME NEW o \in Objects, OpenEdit(o) PROVE form.request = "none"
      BY <2>3, NoFormRequest DEF OpenEdit, Browsing
    <2>4. ASSUME NEW op, OpenCreate(op) PROVE form.request = "none"
      BY <2>4, NoFormRequest DEF OpenCreate, Browsing
    <2> QED BY <2>1, <2>2, <2>3, <2>4
  <1>5. CASE DialogStep
    <2>1. UNCHANGED form
      BY <1>5 DEF DialogStep, RequestAction, Confirm, CancelDialog, ServerDialog, DialogOk, DialogFails,
                  ReloadFromDialog
    <2>2. dialog.request = "sent" =>
             ServerDialog \/ Confirm
             \/ (\E op \in {"delete", "release", "restore", "revoke"}, o \in Objects : RequestAction(op, o))
      BY <1>5 DEF DialogStep, CancelDialog, DialogOk, DialogFails, ReloadFromDialog
    <2>3. Confirm => dialog'.request # "answered"
      BY <1>1 DEF Confirm, DialogRecord
    <2>4. ASSUME NEW op, NEW o \in Objects, RequestAction(op, o) PROVE dialog.request = "none"
      BY <2>4 DEF RequestAction, Browsing, ListIInv, DialogCurrent
    <2> QED BY <2>1, <2>2, <2>3, <2>4
  <1>6. CASE ActivityStep
    BY <1>6 DEF ActivityStep, OpenActivity, TurnActivity, LeaveActivity, ActivityAnswer, ActivityFails
  <1>7. ASSUME NEW o \in Objects, OtherWrite(o) PROVE UNCHANGED <<form, dialog>>
    BY <1>7 DEF OtherWrite
  <1> QED BY <1>2, <1>3, <1>4, <1>5, <1>6, <1>7 DEF ListNext

(* A versioned write lands only on the version whose values the user saw,  *)
(* on every page: no page edits without the version it read.               *)
THEOREM NeverOverwritesBlindly == ListSpec => NoBlindOverwrite
  <1> DEFINE Seen ==
        /\ form.request = "sent" /\ form.op = "edit" /\ db' # db /\ form'.request = "answered"
             => db[form.object].version = form.shows
        /\ dialog.request = "sent" /\ Versioned(dialog.op) /\ db' # db
             /\ dialog'.request = "answered"
             => db[dialog.object].version = list.rows[dialog.object].version
  <1>1. ASSUME ListIInv, [ListNext]_pageVars PROVE [Seen]_pageVars
    <2> SUFFICES ASSUME ListNext PROVE Seen
      BY <1>1
    <2>1. ASSUME form.request = "sent", form.op = "edit", db' # db, form'.request = "answered"
          PROVE  db[form.object].version = form.shows
      <3>1. ServerForm
        BY <1>1, <2>1, AnsweredByServer DEF ServerRefresh
      <3>2. PICK result \in Results, commits \in BOOLEAN : Serves(form, result, commits)
        BY <3>1 DEF ServerForm
      <3>3. form.object \in Objects /\ Versioned(form.op) /\ form.version = form.shows
        BY <1>1, <2>1 DEF ListIInv, FormCurrent
      <3>4. db[form.object].version = form.version
        BY <1>1, <2>1, <3>2, <3>3, ServesGrows DEF ListIInv
      <3> QED BY <3>3, <3>4
    <2>2. ASSUME dialog.request = "sent", Versioned(dialog.op), db' # db, dialog'.request = "answered"
          PROVE  db[dialog.object].version = list.rows[dialog.object].version
      <3>1. ServerDialog
        BY <1>1, <2>2, AnsweredByServer
      <3>2. PICK result \in Results, commits \in BOOLEAN : Serves(dialog, result, commits)
        BY <3>1 DEF ServerDialog
      <3>3. dialog.object \in Objects /\ dialog.version = list.rows[dialog.object].version
        BY <1>1, <2>2 DEF ListIInv, DialogCurrent
      <3>4. db[dialog.object].version = dialog.version
        BY <1>1, <2>2, <3>2, <3>3, ServesGrows DEF ListIInv
      <3> QED BY <3>3, <3>4
    <2> QED BY <2>1, <2>2
  <1>2. ListIInv /\ [ListNext]_pageVars => [Seen]_pageVars
    BY <1>1
  <1>3. ListSpec => [][Seen]_pageVars
    BY <1>2, AlwaysListIInv, PTL DEF ListSpec
  <1> QED BY <1>3 DEF NoBlindOverwrite

-----------------------------------------------------------------------------
\* The bounds of the versions, and the filters of the page.
ListShaped ==
    /\ section \in Mounted
    /\ db \in Rows /\ list.rows \in Rows
    /\ query \in [filter : This.filters, page : Pages2]
    /\ list.kind \in {"loading", "success", "error"}

\* A page opens on one of its own filters.
LEMMA InitialFilters ==
    ASSUME NEW s \in DOMAIN Page
    PROVE  Page[s].initial \subseteq Page[s].filters
  <1> DEFINE Opens(p) == p.initial \subseteq p.filters
  <1>1. Opens(Networks) /\ Opens(IpPools) /\ Opens(IpAddresses) /\ Opens(Services)
    BY DEF Networks, IpPools, IpAddresses, Services, NetworksFilters, IpPoolsFilters, IpAddressesFilters,
           ServicesFilters, NetworksList, IpPoolsList, IpAddressesList, ServicesList, DeletedModes
  <1>2. Opens(Interfaces) /\ Opens(ServiceEndpoints) /\ Opens(Accounts) /\ Opens(ApiKeys)
    BY DEF Interfaces, ServiceEndpoints, Accounts, ApiKeys, InterfacesFilters, ServiceEndpointsFilters,
           AccountsFilters, ApiKeysFilters, InterfacesList, ServiceEndpointsList, AccountsList,
           ApiKeysList, DeletedModes, PlainFilters
  <1>3. Opens(Resources) /\ Opens(DeletedObjects)
    BY DEF Resources, DeletedObjects, ResourcesFilters, DeletedObjectsFilters, ResourcesList,
           DeletedObjectsList, DeletedModes
  <1>4. Opens(Clusters) /\ Opens(Audit) /\ Opens(Dashboard) /\ Opens(ResourceServices)
        /\ Opens(HostVirtualMachines)
    BY DEF Clusters, Audit, Dashboard, ResourceServices, HostVirtualMachines, ReadOnly, DeletedModes,
           PlainFilters, ServicesList, ResourcesList
  <1>5. Page[s] \in {Networks, IpPools, IpAddresses, Services, Interfaces, ServiceEndpoints, Accounts,
                     ApiKeys, Resources, DeletedObjects, Clusters, Audit, Dashboard, ResourceServices,
                     HostVirtualMachines}
    BY DEF Page
  <1> HIDE DEF Opens
  <1>6. Opens(Page[s])
    BY <1>1, <1>2, <1>3, <1>4, <1>5
  <1> QED BY <1>6 DEF Opens

LEMMA NoRowsBounded == NoRows \in Rows
  BY ListPageAssumption DEF NoRows, NoRow, Rows, Row

LEMMA LoadingShaped ==
    ASSUME NEW q PROVE Loading(q).kind = "loading" /\ Loading(q).rows \in Rows
  BY NoRowsBounded DEF Loading

\* A row is written only below the bound.
LEMMA WrittenBounded ==
    ASSUME db \in Rows, NEW o \in Objects, NEW op, db[o].version < MaxVersion
    PROVE  [db EXCEPT ![o] = Written(op, db[o])] \in Rows
  <1>1. db[o].version \in 0 .. MaxVersion /\ db[o].live \in BOOLEAN /\ MaxVersion \in Nat
    BY ListPageAssumption DEF Rows, Row
  <1>2. db[o].version + 1 \in 0 .. MaxVersion
    BY <1>1
  <1>3. Written(op, db[o]) \in Row
    BY <1>1, <1>2 DEF Written, Row
  <1> QED BY <1>3 DEF Rows

LEMMA ServesBounded ==
    ASSUME db \in Rows, NEW request, request.object \in Objects, NEW result, NEW commits \in BOOLEAN,
           Serves(request, result, commits)
    PROVE  db' \in Rows
  <1>1. CASE commits
    BY <1>1, WrittenBounded DEF Serves
  <1>2. CASE ~commits
    BY <1>2 DEF Serves
  <1> QED BY <1>1, <1>2

\* What a flight read is at most what the server has by now.
LEMMA FlightBounded ==
    ASSUME ListIInv, db \in Rows, NEW f \in flights, f.slot = "list", f.read
    PROVE  f.rows \in Rows
  <1>1. f.rows \in NatRows /\ \A o \in Objects : f.rows[o].version <= db[o].version
    BY DEF ListIInv, ListTyped, IsFlight, FlightOf, LoadsCurrent
  <1>2. \A o \in Objects : db[o].version \in 0 .. MaxVersion
    BY DEF Rows, Row
  <1>3. ASSUME NEW o \in Objects PROVE f.rows[o] \in Row
    <2>1. f.rows[o] \in [version : Nat, live : BOOLEAN] /\ MaxVersion \in Nat
      BY <1>1, ListPageAssumption DEF NatRows
    <2>2. f.rows[o].version \in 0 .. MaxVersion
      BY <1>1, <1>2, <2>1
    <2> QED BY <2>1, <2>2 DEF Row
  <1> QED BY <1>1, <1>3 DEF NatRows, Rows

LEMMA ListStaysShaped == ListIInv /\ ListShaped /\ [ListNext]_pageVars => ListShaped'
  <1> SUFFICES ASSUME ListIInv, ListShaped, [ListNext]_pageVars PROVE ListShaped'
    OBVIOUS
  <1>1. ASSUME UNCHANGED <<section, query, list>>, db' \in Rows PROVE ListShaped'
    BY <1>1 DEF ListShaped, This
  <1>2. ASSUME Reload(query'), UNCHANGED <<section, db>>, query' \in [filter : This.filters, page : Pages2]
        PROVE  ListShaped'
    BY <1>2, LoadingShaped DEF ListShaped, This, Reload
  <1>3. ASSUME NEW f \in This.filters, ChangeFilter(f) PROVE ListShaped'
    <2>1. query' \in [filter : This.filters, page : Pages2]
      BY <1>3 DEF ChangeFilter, Pages2
    <2> QED BY <1>2, <1>3, <2>1 DEF ChangeFilter
  <1>4. ASSUME NEW p \in Pages2, GotoPage(p) PROVE ListShaped'
    <2>1. query' \in [filter : This.filters, page : Pages2]
      BY <1>4 DEF GotoPage, ListShaped
    <2> QED BY <1>2, <1>4, <2>1 DEF GotoPage
  <1>5. CASE ListLoadStep
    <2>1. CASE RetryList
      BY <1>2, <2>1 DEF RetryList, ListShaped
    <2>2. ASSUME NEW f \in flights, ServerReads(f) PROVE ListShaped'
      BY <1>1, <2>2 DEF ServerReads, ListShaped
    <2>3. ASSUME NEW f \in flights, ListAnswer(f) PROVE ListShaped'
      <3>1. f.rows \in Rows
        BY <2>3, FlightBounded DEF ListAnswer, ListShaped
      <3> QED BY <2>3, <3>1 DEF ListAnswer, ListShaped, This
    <2>4. ASSUME NEW f \in flights, ListFails(f) PROVE ListShaped'
      BY <2>4, NoRowsBounded DEF ListFails, ListShaped, This
    <2> QED BY <1>5, <2>1, <2>2, <2>3, <2>4 DEF ListLoadStep
  <1>6. CASE FormStep
    <2>1. CASE ServerForm
      <3>1. form.object \in Objects
        BY <2>1 DEF ServerForm, ListIInv, FormCurrent
      <3>2. db' \in Rows
        BY <2>1, <3>1, ServesBounded DEF ServerForm, ListShaped
      <3> QED BY <1>1, <2>1, <3>2 DEF ServerForm
    <2>2. CASE FormOk
      BY <1>2, <2>2 DEF FormOk, ListShaped
    <2>3. CASE ~ServerForm /\ ~FormOk
      <3>1. UNCHANGED <<section, query, list, db>>
        BY <1>6, <2>3 DEF FormStep, OpenCreate, OpenEdit, Submit, CancelForm, SubmitUnchanged, RefreshForm,
                          ServerRefresh, FormRefreshed, FormFails
      <3> QED BY <1>1, <3>1 DEF ListShaped
    <2> QED BY <2>1, <2>2, <2>3
  <1>7. CASE DialogStep
    <2>1. CASE ServerDialog
      <3>1. dialog.object \in Objects
        BY <2>1 DEF ServerDialog, ListIInv, DialogCurrent
      <3>2. db' \in Rows
        BY <2>1, <3>1, ServesBounded DEF ServerDialog, ListShaped
      <3> QED BY <1>1, <2>1, <3>2 DEF ServerDialog
    <2>2. CASE DialogOk \/ ReloadFromDialog
      BY <1>2, <2>2 DEF DialogOk, ReloadFromDialog, ListShaped
    <2>3. CASE ~ServerDialog /\ ~DialogOk /\ ~ReloadFromDialog
      <3>1. UNCHANGED <<section, query, list, db>>
        BY <1>7, <2>3 DEF DialogStep, RequestAction, Confirm, CancelDialog, DialogFails
      <3> QED BY <1>1, <3>1 DEF ListShaped
    <2> QED BY <2>1, <2>2, <2>3
  <1>8. CASE ActivityStep
    <2>1. UNCHANGED <<section, query, list, db>>
      BY <1>8 DEF ActivityStep, OpenActivity, TurnActivity, LeaveActivity, ActivityAnswer, ActivityFails
    <2> QED BY <1>1, <2>1 DEF ListShaped
  <1>9. ASSUME NEW o \in Objects, OtherWrite(o) PROVE ListShaped'
    <2>1. db[o].version < MaxVersion
      <3>1. db[o].version \in 0 .. MaxVersion /\ MaxVersion \in Nat
        BY ListPageAssumption DEF ListShaped, Rows, Row
      <3> QED BY <1>9, <3>1 DEF OtherWrite
    <2>2. db' \in Rows
      <3>1. PICK op : db' = [db EXCEPT ![o] = Written(op, db[o])]
        BY <1>9 DEF OtherWrite
      <3> QED BY <2>1, <3>1, WrittenBounded DEF ListShaped
    <2> QED BY <1>1, <1>9, <2>2 DEF OtherWrite
  <1>10. CASE UNCHANGED pageVars
    BY <1>1, <1>10 DEF pageVars, ListShaped
  <1> QED BY <1>3, <1>4, <1>5, <1>6, <1>7, <1>8, <1>9, <1>10 DEF ListNext, QueryStep

(* No row is written or shown past the last version, and the page asks     *)
(* only by filters of its own.                                             *)
THEOREM ListTyping == ListSpec => []ListTypeOK
  <1>1. ListInit => ListShaped
    <2> SUFFICES ASSUME ListInit PROVE ListShaped
      OBVIOUS
    <2>1. section \in Mounted /\ query \in [filter : This.filters, page : Pages2]
      <3>1. section \in DOMAIN Page
        BY ListPageAssumption DEF ListInit
      <3>2. This.initial \subseteq This.filters
        BY <3>1, InitialFilters DEF This
      <3> QED BY <3>2 DEF ListInit, Pages2
    <2>2. {NoRow, [version |-> 1, live |-> TRUE], [version |-> 1, live |-> FALSE]} \subseteq Row
      BY ListPageAssumption DEF NoRow, Row
    <2>3. db \in Rows
      BY <2>2 DEF ListInit, Rows
    <2> QED BY <2>1, <2>3, LoadingShaped DEF ListInit, ListShaped
  <1>2. ListIInv /\ ListShaped => ListTypeOK
    <2> SUFFICES ASSUME ListIInv, ListShaped PROVE ListTypeOK
      OBVIOUS
    <2>1. floor \in [Objects -> Nat] /\ \A o \in Objects : floor[o] <= db[o].version
      BY DEF ListIInv, ListTyped, LoadsCurrent
    <2>2. \A o \in Objects : db[o].version \in 0 .. MaxVersion /\ MaxVersion \in Nat
      BY ListPageAssumption DEF ListShaped, Rows, Row
    <2>3. ASSUME NEW o \in Objects PROVE floor[o] \in 0 .. MaxVersion
      BY <2>1, <2>2
    <2>4. floor \in [Objects -> 0 .. MaxVersion]
      BY <2>1, <2>3
    <2>5. \A f \in flights : f.slot \in {"list", "activity"} /\ f.args.object \in Objects \union {Nobody}
      BY DEF ListIInv, ListTyped, IsFlight, FlightOf, Anyone
    <2>6. /\ mode.kind \in {"list", "create", "edit", "activity"} /\ form.request \in {"none", "sent", "answered"}
          /\ dialog.request \in {"none", "sent", "answered"} /\ activity.kind \in {"loading", "success", "error"}
      BY DEF ListIInv, ListTyped, ModeRecord, FormRecord, DialogRecord, ActivityOf
    <2> QED BY <2>4, <2>5, <2>6 DEF ListShaped, ListTypeOK
  <1> QED BY <1>1, <1>2, ListInitially, StepsKeep, ListStaysShaped, PTL DEF ListSpec
=============================================================================
