---------------------------- MODULE DetailProofs ----------------------------
(* Proofs about the detail and create pages, about the binding of          *)
(* addresses from the interface side and about a Resource's addresses:     *)
(* what is shown is never older than what the page was told, edits land    *)
(* on the version shown, a binding takes no address from anyone, and no    *)
(* interface is silently left out.                                         *)
EXTENDS DetailPage, Bindings, HostAddresses, FiniteSetTheorems, TLAPS

-----------------------------------------------------------------------------
NatRow == [version : Nat, live : BOOLEAN]
LoadRecord == [flag : BOOLEAN, read : BOOLEAN, row : NatRow, cancelled : BOOLEAN]
ViewRecord == [kind : {"loading", "success", "missing", "error"}, row : NatRow]
Outcomes == Results \union {"none", "unchanged"}
EditRecord ==
    [open : BOOLEAN, shows : Nat, request : {"none", "sent", "answered"}, version : Nat,
     result : Outcomes, error : Outcomes, got : NatRow]
ConfirmRecord ==
    [op : {"none", "delete", "restore"}, request : {"none", "sent", "answered"}, version : Nat,
     result : Outcomes, error : Outcomes, got : NatRow]

DetailTyped ==
    /\ row \in NatRow /\ told \in Nat
    /\ place \in {"list", "detail", "create", "away"} /\ deletedFlag \in BOOLEAN
    /\ loads \subseteq LoadRecord
    /\ view \in ViewRecord /\ edit \in EditRecord /\ confirm \in ConfirmRecord

\* The page was told of a version at most the server's, and that one it may
\* see.
Heard ==
    place = "detail" =>
        /\ row.version > 0 /\ told <= row.version
        /\ row.version = told => deletedFlag \/ row.live

\* A row the page read: between what it was told of and what there is now.
Snapshot(r) ==
    /\ r.version > 0 /\ told <= r.version /\ r.version <= row.version
    /\ r.version = row.version => r.live = row.live
    /\ r.version = told => deletedFlag \/ r.live

LoadsAreForThisView ==
    /\ \A l \in loads : ~l.cancelled =>
          /\ place = "detail" /\ l.flag = deletedFlag /\ view.kind = "loading"
          /\ l.read => Snapshot(l.row)
    /\ \A l, m \in loads : ~l.cancelled /\ ~m.cancelled => l = m

\* What a write left behind, until the page hears of it.
WasLeft(r, there) ==
    /\ told <= r.version /\ r.version <= row.version /\ r.live = there
    /\ r.version = row.version => r.live = row.live

EditOfTheView ==
    /\ edit.open => place = "detail" /\ confirm.op = "none"
    /\ edit.open /\ view.kind = "success" => edit.shows = view.row.version
    /\ edit.request # "none" => edit.open /\ view.kind = "success" /\ edit.version = edit.shows
    /\ edit.request = "answered" /\ edit.result = "ok" => WasLeft(edit.got, TRUE)

DialogOfTheView ==
    /\ confirm.op # "none" => place = "detail" /\ view.kind = "success"
    /\ confirm.request # "none" => confirm.op # "none" /\ confirm.version = view.row.version
    /\ confirm.request = "answered" /\ confirm.result = "ok" =>
          WasLeft(confirm.got, confirm.op = "restore")

CreatedLive == creation = "ok" => row.version > 0 /\ (row.version = 1 => row.live)

DetailIInv ==
    /\ DetailTyped /\ Heard /\ LoadsAreForThisView /\ EditOfTheView /\ DialogOfTheView
    /\ CreatedLive /\ DetailFresh
    /\ place # "detail" => view.kind = "loading"

-----------------------------------------------------------------------------
LEMMA DetailConstants ==
    /\ NoRow \in NatRow
    /\ Blank \in ViewRecord /\ Blank.kind = "loading"
    /\ NoEdit \in EditRecord /\ NoEdit.open = FALSE /\ NoEdit.request = "none"
    /\ NoConfirm \in ConfirmRecord /\ NoConfirm.op = "none" /\ NoConfirm.request = "none"
  <1>1. NoRow \in NatRow
    BY DEF NoRow, NatRow
  <1>2. Blank \in ViewRecord /\ Blank.kind = "loading"
    BY <1>1 DEF Blank, ViewRecord
  <1>3. NoEdit \in EditRecord /\ NoEdit.open = FALSE /\ NoEdit.request = "none"
    BY <1>1 DEF NoEdit, EditRecord, Outcomes
  <1>4. NoConfirm \in ConfirmRecord /\ NoConfirm.op = "none" /\ NoConfirm.request = "none"
    BY <1>1 DEF NoConfirm, ConfirmRecord, Outcomes
  <1> QED BY <1>1, <1>2, <1>3, <1>4

LEMMA DetailInitially == DetailInit => DetailIInv
  <1> SUFFICES ASSUME DetailInit PROVE DetailIInv
    OBVIOUS
  <1>1. /\ place = "list" /\ deletedFlag = FALSE /\ loads = {} /\ view = Blank /\ edit = NoEdit
        /\ confirm = NoConfirm /\ creation = "none" /\ told = 0
    BY DEF DetailInit
  <1>2. row \in NatRow
    <2>1. [version |-> 1, live |-> TRUE] \in NatRow /\ [version |-> 1, live |-> FALSE] \in NatRow
      BY DEF NatRow
    <2> QED BY <2>1, DetailConstants DEF DetailInit
  <1>3. DetailTyped
    BY <1>1, <1>2, DetailConstants DEF DetailTyped
  <1>4. EditOfTheView /\ DialogOfTheView
    BY <1>1, DetailConstants DEF EditOfTheView, DialogOfTheView
  <1> QED BY <1>1, <1>3, <1>4, DetailConstants DEF DetailIInv, Heard, LoadsAreForThisView, CreatedLive, DetailFresh

\* A write of the row, by anyone: what was read or told stays in order.
LEMMA RowGrows ==
    ASSUME DetailIInv, row' \in NatRow, UNCHANGED row \/ row'.version > row.version,
           UNCHANGED <<place, deletedFlag, loads, view, told>>
    PROVE  /\ Heard' /\ LoadsAreForThisView' /\ DetailFresh'
           /\ UNCHANGED creation => CreatedLive'
           /\ \A r \in NatRow, there \in BOOLEAN : WasLeft(r, there) => WasLeft(r, there)'
  <1>1. row.version \in Nat /\ row'.version \in Nat /\ told \in Nat /\ \A l \in loads : l.row.version \in Nat
    BY DEF DetailIInv, DetailTyped, NatRow, LoadRecord
  <1>2. \A r \in NatRow : r.version \in Nat
    BY DEF NatRow
  <1>3. \A r \in NatRow : Snapshot(r) => Snapshot(r)'
    BY <1>1, <1>2 DEF Snapshot
  <1>4. \A l \in loads : l.row \in NatRow
    BY DEF DetailIInv, DetailTyped, LoadRecord
  <1>5. LoadsAreForThisView'
    BY <1>3, <1>4 DEF DetailIInv, LoadsAreForThisView
  <1>6. Heard' /\ (UNCHANGED creation => CreatedLive')
    BY <1>1 DEF DetailIInv, Heard, CreatedLive
  <1>7. DetailFresh'
    BY DEF DetailIInv, DetailFresh
  <1>8. \A r \in NatRow, there \in BOOLEAN : WasLeft(r, there) => WasLeft(r, there)'
    BY <1>1, <1>2 DEF WasLeft
  <1> QED BY <1>5, <1>6, <1>7, <1>8

\* The edit, the dialog and the create page while the row does not change.
LEMMA PageMoves ==
    ASSUME DetailIInv, UNCHANGED <<row, place, deletedFlag, loads, view, told>>,
           edit' \in EditRecord, confirm' \in ConfirmRecord,
           EditOfTheView', DialogOfTheView', CreatedLive'
    PROVE  DetailIInv'
  <1>1. DetailTyped'
    BY DEF DetailIInv, DetailTyped
  <1>2. LoadsAreForThisView'
    BY DEF DetailIInv, LoadsAreForThisView, Snapshot
  <1> QED BY <1>1, <1>2 DEF DetailIInv, Heard, DetailFresh

LEMMA EditStays ==
    ASSUME DetailIInv, UNCHANGED <<edit, row, place, view, told>>, edit.open => confirm'.op = "none"
    PROVE  EditOfTheView'
  BY DEF DetailIInv, EditOfTheView, WasLeft

LEMMA ConfirmStays ==
    ASSUME DetailIInv, UNCHANGED <<confirm, row, place, view, told>>
    PROVE  DialogOfTheView'
  BY DEF DetailIInv, DialogOfTheView, WasLeft

-----------------------------------------------------------------------------
\* Loading.

\* The page is mounted, or its load effect runs again.
LEMMA LoadStarts ==
    ASSUME DetailIInv, NEW flag \in BOOLEAN, Load(flag), row' = row, place' = "detail", told' \in Nat,
           row.version > 0, told' <= row.version, row.version = told' => flag \/ row.live,
           edit' \in EditRecord, edit'.request = "none", confirm' \in ConfirmRecord,
           confirm'.op = "none", confirm'.request = "none", creation' \in {creation, "none"}
    PROVE  DetailIInv'
  <1> DEFINE new == [flag |-> flag, read |-> FALSE, row |-> NoRow, cancelled |-> FALSE]
  <1>1. /\ deletedFlag' = flag /\ view' = Blank
        /\ loads' = {[l EXCEPT !.cancelled = TRUE] : l \in loads} \union {new}
    BY DEF Load
  <1>2. new \in LoadRecord /\ new.flag = flag /\ new.read = FALSE
    BY DetailConstants DEF LoadRecord
  <1>3. \A l \in loads : [l EXCEPT !.cancelled = TRUE] \in LoadRecord /\ [l EXCEPT !.cancelled = TRUE].cancelled
    BY DEF DetailIInv, DetailTyped, LoadRecord
  <1> HIDE DEF new
  <1>4. loads' \subseteq LoadRecord /\ \A l \in loads' : l.cancelled \/ l = new
    BY <1>1, <1>2, <1>3
  <1>5. DetailTyped'
    BY <1>1, <1>4, DetailConstants DEF DetailIInv, DetailTyped
  <1>6. LoadsAreForThisView'
    BY <1>1, <1>2, <1>4, DetailConstants DEF LoadsAreForThisView
  <1>7. Heard' /\ CreatedLive' /\ DetailFresh'
    BY <1>1, DetailConstants DEF DetailIInv, Heard, CreatedLive, DetailFresh
  <1>8. EditOfTheView' /\ DialogOfTheView'
    BY <1>1, DetailConstants DEF EditOfTheView, DialogOfTheView
  <1> QED BY <1>5, <1>6, <1>7, <1>8 DEF DetailIInv

\* The page is left.
LEMMA Unmounts ==
    ASSUME DetailIInv, NEW to \in {"list", "away"}, Unmount(to), UNCHANGED <<row, creation>>
    PROVE  DetailIInv'
  <1>1. /\ place' = to /\ view' = Blank /\ edit' = NoEdit /\ confirm' = NoConfirm /\ told' = 0
        /\ deletedFlag' = deletedFlag /\ loads' = {[l EXCEPT !.cancelled = TRUE] : l \in loads}
    BY DEF Unmount
  <1>2. \A l \in loads : [l EXCEPT !.cancelled = TRUE] \in LoadRecord /\ [l EXCEPT !.cancelled = TRUE].cancelled
    BY DEF DetailIInv, DetailTyped, LoadRecord
  <1>3. loads' \subseteq LoadRecord /\ \A l \in loads' : l.cancelled
    BY <1>1, <1>2
  <1>4. DetailTyped'
    BY <1>1, <1>3, DetailConstants DEF DetailIInv, DetailTyped
  <1>5. EditOfTheView' /\ DialogOfTheView'
    BY <1>1, DetailConstants DEF EditOfTheView, DialogOfTheView
  <1> QED BY <1>1, <1>3, <1>4, <1>5, DetailConstants
          DEF DetailIInv, Heard, LoadsAreForThisView, CreatedLive, DetailFresh

LEMMA ReadsDetail == ASSUME DetailIInv, NEW l \in loads, ServerLoads(l) PROVE DetailIInv'
  <1>1. PICK m : m = [l EXCEPT !.read = TRUE, !.row = row]
    OBVIOUS
  <1>2. /\ ~l.read /\ loads' = (loads \ {l}) \union {m}
        /\ UNCHANGED <<row, place, deletedFlag, view, edit, confirm, creation, told>>
    BY <1>1 DEF ServerLoads
  <1>3. l \in LoadRecord /\ row \in NatRow
    BY DEF DetailIInv, DetailTyped
  <1>4. m \in LoadRecord /\ m.flag = l.flag /\ m.cancelled = l.cancelled /\ m.row = row
    BY <1>1, <1>3 DEF LoadRecord
  <1>5. DetailTyped'
    BY <1>2, <1>4 DEF DetailIInv, DetailTyped
  <1>6. \A r : Snapshot(r)' <=> Snapshot(r)
    BY <1>2 DEF Snapshot
  <1>7. ~l.cancelled => Snapshot(row)
    BY <1>3 DEF DetailIInv, LoadsAreForThisView, Heard, Snapshot, NatRow
  <1>8. LoadsAreForThisView'
    BY <1>2, <1>4, <1>6, <1>7 DEF DetailIInv, LoadsAreForThisView
  <1> QED BY <1>2, <1>5, <1>8, EditStays, ConfirmStays DEF DetailIInv, Heard, CreatedLive, DetailFresh,
              EditOfTheView

LEMMA AnswersLoad == ASSUME DetailIInv, NEW l \in loads, LoadAnswer(l) PROVE DetailIInv'
  <1>1. /\ l.read /\ loads' = loads \ {l} /\ l \in LoadRecord
        /\ UNCHANGED <<row, place, deletedFlag, confirm, creation>>
    BY DEF LoadAnswer, DetailIInv, DetailTyped
  <1>2. CASE l.cancelled
    <2>1. UNCHANGED <<view, edit, told>>
      BY <1>2 DEF LoadAnswer
    <2>2. DetailTyped'
      BY <1>1, <2>1 DEF DetailIInv, DetailTyped
    <2>3. LoadsAreForThisView'
      BY <1>1, <2>1 DEF DetailIInv, LoadsAreForThisView, Snapshot
    <2> QED BY <1>1, <2>1, <2>2, <2>3, EditStays, ConfirmStays DEF DetailIInv, Heard, CreatedLive, DetailFresh,
                EditOfTheView
  <1>3. CASE ~l.cancelled
    <2>1. /\ place = "detail" /\ l.flag = deletedFlag /\ view.kind = "loading" /\ Snapshot(l.row)
          /\ \A m \in loads' : m.cancelled
      BY <1>1, <1>3 DEF DetailIInv, LoadsAreForThisView
    <2>2. l.row \in NatRow /\ l.row.version \in Nat /\ told \in Nat /\ row.version \in Nat
      BY <1>1 DEF LoadRecord, NatRow, DetailIInv, DetailTyped
    <2>3. edit.request = "none" /\ confirm.op = "none" /\ confirm.request = "none" /\ edit \in EditRecord
      BY <2>1 DEF DetailIInv, EditOfTheView, DialogOfTheView, DetailTyped
    <2>4. LoadsAreForThisView' /\ DialogOfTheView' /\ CreatedLive'
      BY <1>1, <2>1, <2>3 DEF LoadsAreForThisView, DialogOfTheView, CreatedLive, DetailIInv
    <2>5. CASE Visible(l)
      <3>1. /\ view' = [kind |-> "success", row |-> l.row]
            /\ edit' = IF edit.open THEN [edit EXCEPT !.shows = l.row.version] ELSE edit
            /\ told' = Later(told, l.row.version)
        BY <1>3, <2>5 DEF LoadAnswer
      <3>2. view' \in ViewRecord /\ view'.kind = "success" /\ view'.row = l.row
        BY <2>2, <3>1 DEF ViewRecord
      <3>3. told' = l.row.version
        BY <2>1, <2>2, <3>1 DEF Later, Snapshot
      <3>4. /\ edit' \in EditRecord /\ edit'.request = "none" /\ edit'.open = edit.open
            /\ edit.open => edit'.shows = l.row.version
        BY <2>2, <2>3, <3>1 DEF EditRecord
      <3>5. DetailTyped'
        BY <1>1, <2>2, <3>2, <3>3, <3>4 DEF DetailIInv, DetailTyped
      <3>6. Heard'
        BY <1>1, <2>1, <2>2, <2>5, <3>3 DEF DetailIInv, Heard, Snapshot, Visible
      <3>7. EditOfTheView'
        BY <1>1, <2>1, <2>3, <3>2, <3>4 DEF EditOfTheView
      <3>8. DetailFresh'
        BY <2>2, <3>2, <3>3 DEF DetailFresh
      <3> QED BY <1>1, <2>1, <2>4, <3>5, <3>6, <3>7, <3>8 DEF DetailIInv
    <2>6. CASE ~Visible(l)
      <3>1. view' = [kind |-> "missing", row |-> l.row] /\ UNCHANGED <<edit, told>>
        BY <1>3, <2>6 DEF LoadAnswer
      <3>2. view' \in ViewRecord /\ view'.kind = "missing" /\ view'.row = l.row
        BY <2>2, <3>1 DEF ViewRecord
      <3>3. DetailTyped'
        BY <1>1, <3>1, <3>2 DEF DetailIInv, DetailTyped
      <3>4. DetailFresh'
        BY <2>1, <2>2, <2>6, <3>1, <3>2 DEF DetailFresh, Snapshot, Visible
      <3>5. EditOfTheView'
        BY <1>1, <2>1, <2>3, <3>1, <3>2 DEF DetailIInv, EditOfTheView
      <3>6. Heard'
        BY <1>1, <3>1 DEF DetailIInv, Heard
      <3> QED BY <1>1, <2>1, <2>4, <3>3, <3>4, <3>5, <3>6 DEF DetailIInv
    <2> QED BY <2>5, <2>6
  <1> QED BY <1>2, <1>3

LEMMA FailsLoad == ASSUME DetailIInv, NEW l \in loads, LoadFails(l) PROVE DetailIInv'
  <1>1. /\ loads' = loads \ {l} /\ view' = IF l.cancelled THEN view ELSE [kind |-> "error", row |-> NoRow]
        /\ UNCHANGED <<row, place, deletedFlag, edit, confirm, creation, told>>
    BY DEF LoadFails
  <1>2. CASE l.cancelled
    <2>1. DetailTyped'
      BY <1>1, <1>2 DEF DetailIInv, DetailTyped
    <2>2. LoadsAreForThisView'
      BY <1>1, <1>2 DEF DetailIInv, LoadsAreForThisView, Snapshot
    <2> QED BY <1>1, <1>2, <2>1, <2>2, EditStays, ConfirmStays DEF DetailIInv, Heard, CreatedLive, DetailFresh,
                EditOfTheView
  <1>3. CASE ~l.cancelled
    <2>1. /\ place = "detail" /\ view.kind = "loading" /\ \A m \in loads' : m.cancelled
      BY <1>1, <1>3 DEF DetailIInv, LoadsAreForThisView
    <2>2. view' \in ViewRecord /\ view'.kind = "error"
      BY <1>1, <1>3, DetailConstants DEF ViewRecord
    <2>3. DetailTyped'
      BY <1>1, <2>2 DEF DetailIInv, DetailTyped
    <2>4. LoadsAreForThisView' /\ EditOfTheView' /\ DialogOfTheView'
      BY <1>1, <2>1, <2>2 DEF DetailIInv, LoadsAreForThisView, EditOfTheView, DialogOfTheView
    <2> QED BY <1>1, <2>1, <2>2, <2>3, <2>4 DEF DetailIInv, Heard, CreatedLive, DetailFresh
  <1> QED BY <1>2, <1>3

-----------------------------------------------------------------------------
\* Opening and leaving, editing, deleting and restoring.

\* Nothing of the page is open elsewhere.
LEMMA NothingOpenAway ==
    ASSUME DetailIInv, place # "detail"
    PROVE  edit.open = FALSE /\ edit.request = "none" /\ confirm.op = "none" /\ confirm.request = "none"
           /\ \A l \in loads : l.cancelled
  <1>1. edit \in EditRecord /\ confirm \in ConfirmRecord
    BY DEF DetailIInv, DetailTyped
  <1> QED BY <1>1 DEF DetailIInv, EditOfTheView, DialogOfTheView, LoadsAreForThisView, EditRecord, ConfirmRecord

LEMMA OpensDetail == ASSUME DetailIInv, NEW flag \in BOOLEAN, OpenDetail(flag) PROVE DetailIInv'
  <1>1. /\ row.version > 0 /\ Load(flag) /\ place' = "detail" /\ edit' = NoEdit /\ confirm' = NoConfirm
        /\ told' = 0 /\ UNCHANGED <<row, creation>>
    BY DEF OpenDetail, Mount
  <1>2. row.version \in Nat
    BY DEF DetailIInv, DetailTyped, NatRow
  <1> QED BY <1>1, <1>2, DetailConstants, LoadStarts

LEMMA Leaves == ASSUME DetailIInv, NEW to \in {"list", "away"}, Leave(to) PROVE DetailIInv'
  BY Unmounts DEF Leave

LEMMA Goes == ASSUME DetailIInv, NEW to \in {"list", "away", "create"}, GoTo(to) PROVE DetailIInv'
  <1>1. /\ place # "detail" /\ place' = to
        /\ UNCHANGED <<row, deletedFlag, loads, view, edit, confirm, creation, told>>
    BY DEF GoTo
  <1>2. DetailTyped'
    BY <1>1 DEF DetailIInv, DetailTyped
  <1> QED BY <1>1, <1>2, NothingOpenAway DEF DetailIInv, Heard, LoadsAreForThisView, EditOfTheView, DialogOfTheView,
             CreatedLive, DetailFresh

LEMMA RetriesLoad == ASSUME DetailIInv, RetryLoad PROVE DetailIInv'
  <1>1. /\ place = "detail" /\ view.kind \in {"error", "missing"} /\ Load(deletedFlag)
        /\ UNCHANGED <<row, place, edit, confirm, creation, told>>
    BY DEF RetryLoad
  <1>2. /\ edit \in EditRecord /\ confirm \in ConfirmRecord /\ told \in Nat /\ deletedFlag \in BOOLEAN
        /\ loads \subseteq LoadRecord
    BY DEF DetailIInv, DetailTyped
  <1>3. edit.request = "none" /\ confirm.op = "none" /\ confirm.request = "none"
    BY <1>1 DEF DetailIInv, EditOfTheView, DialogOfTheView
  <1>4. row.version > 0 /\ told <= row.version /\ (row.version = told => deletedFlag \/ row.live)
    BY <1>1 DEF DetailIInv, Heard
  <1> QED BY <1>1, <1>2, <1>3, <1>4, LoadStarts

LEMMA StartsEdit == ASSUME DetailIInv, StartEdit PROVE DetailIInv'
  <1>1. /\ place = "detail" /\ view.kind = "success" /\ confirm.op = "none"
        /\ edit' = [NoEdit EXCEPT !.open = TRUE, !.shows = view.row.version]
        /\ UNCHANGED <<row, place, deletedFlag, loads, view, confirm, creation, told>>
    BY DEF StartEdit, Viewing
  <1>2. view.row.version \in Nat /\ confirm \in ConfirmRecord
    BY DEF DetailIInv, DetailTyped, ViewRecord, NatRow
  <1>3. edit' \in EditRecord /\ edit'.request = "none" /\ edit'.shows = view.row.version
    BY <1>1, <1>2, DetailConstants DEF EditRecord
  <1>4. EditOfTheView'
    BY <1>1, <1>3 DEF EditOfTheView
  <1>5. CreatedLive'
    BY <1>1 DEF DetailIInv, CreatedLive
  <1> QED BY <1>1, <1>2, <1>3, <1>4, <1>5, ConfirmStays, PageMoves

LEMMA CancelsEdit == ASSUME DetailIInv, CancelEdit PROVE DetailIInv'
  <1>1. edit' = NoEdit /\ UNCHANGED <<row, place, deletedFlag, loads, view, confirm, creation, told>>
    BY DEF CancelEdit
  <1>2. confirm \in ConfirmRecord
    BY DEF DetailIInv, DetailTyped
  <1>3. EditOfTheView'
    BY <1>1, DetailConstants DEF EditOfTheView
  <1>4. CreatedLive'
    BY <1>1 DEF DetailIInv, CreatedLive
  <1> QED BY <1>1, <1>2, <1>3, <1>4, DetailConstants, ConfirmStays, PageMoves

LEMMA SubmitsEdit == ASSUME DetailIInv, SubmitEdit PROVE DetailIInv'
  <1>1. /\ view.kind = "success" /\ edit.open /\ edit.request = "none"
        /\ \/ edit' = [edit EXCEPT !.error = "unchanged"]
           \/ edit' = [edit EXCEPT !.request = "sent", !.version = view.row.version,
                                   !.result = "none", !.error = "none"]
        /\ UNCHANGED <<row, place, deletedFlag, loads, view, confirm, creation, told>>
    BY DEF SubmitEdit, Editing
  <1>2. view.row.version \in Nat /\ confirm \in ConfirmRecord /\ edit \in EditRecord
    BY DEF DetailIInv, DetailTyped, ViewRecord, NatRow
  <1>3. /\ edit' \in EditRecord /\ edit'.open = edit.open /\ edit'.shows = edit.shows
        /\ edit'.request # "answered"
        /\ edit'.request # "none" => edit'.version = view.row.version
    <2>1. CASE edit' = [edit EXCEPT !.error = "unchanged"]
      BY <1>1, <1>2, <2>1 DEF EditRecord, Outcomes
    <2>2. CASE edit' = [edit EXCEPT !.request = "sent", !.version = view.row.version,
                                    !.result = "none", !.error = "none"]
      BY <1>1, <1>2, <2>2 DEF EditRecord, Outcomes
    <2> QED BY <1>1, <2>1, <2>2
  <1>4. EditOfTheView'
    BY <1>1, <1>3 DEF DetailIInv, EditOfTheView
  <1>5. CreatedLive'
    BY <1>1 DEF DetailIInv, CreatedLive
  <1> QED BY <1>1, <1>2, <1>3, <1>4, <1>5, ConfirmStays, PageMoves

LEMMA RefreshesEdit == ASSUME DetailIInv, RefreshEdit PROVE DetailIInv'
  <1>1. /\ place = "detail" /\ edit.open /\ edit.request = "none"
        /\ edit' = [edit EXCEPT !.error = "none"] /\ Load(deletedFlag)
        /\ UNCHANGED <<row, place, confirm, creation, told>>
    BY DEF RefreshEdit, Editing
  <1>2. edit \in EditRecord /\ confirm \in ConfirmRecord /\ told \in Nat /\ deletedFlag \in BOOLEAN
    BY DEF DetailIInv, DetailTyped
  <1>3. edit' \in EditRecord /\ edit'.request = "none"
    BY <1>1, <1>2 DEF EditRecord, Outcomes
  <1>4. confirm.op = "none" /\ confirm.request = "none"
    BY <1>1 DEF DetailIInv, EditOfTheView, DialogOfTheView
  <1>5. row.version > 0 /\ told <= row.version /\ (row.version = told => deletedFlag \/ row.live)
    BY <1>1 DEF DetailIInv, Heard
  <1> QED BY <1>1, <1>2, <1>3, <1>4, <1>5, LoadStarts

\* A view that shows something is not waited for.
LEMMA NothingLoads == DetailIInv /\ view.kind = "success" => \A l \in loads : l.cancelled
  BY DEF DetailIInv, LoadsAreForThisView

\* The page takes over what a write answered.
LEMMA AnswerShows ==
    ASSUME DetailIInv, place = "detail", view.kind = "success", NEW r \in NatRow, WasLeft(r, TRUE),
           view' = [kind |-> "success", row |-> r], told' = Later(told, r.version),
           UNCHANGED <<row, place, deletedFlag, loads, creation>>,
           edit' \in EditRecord, edit'.open = FALSE, edit'.request = "none",
           confirm' \in ConfirmRecord, confirm'.op = "none", confirm'.request = "none"
    PROVE  DetailIInv'
  <1>1. r.version \in Nat /\ told \in Nat /\ row.version \in Nat
    BY DEF DetailIInv, DetailTyped, NatRow
  <1>2. told' = r.version /\ told' \in Nat
    BY <1>1 DEF Later, WasLeft
  <1>3. view' \in ViewRecord /\ view'.kind = "success" /\ view'.row = r
    BY DEF ViewRecord
  <1>4. DetailTyped'
    BY <1>2, <1>3 DEF DetailIInv, DetailTyped
  <1>5. Heard'
    BY <1>1, <1>2 DEF DetailIInv, Heard, WasLeft
  <1>6. LoadsAreForThisView'
    BY NothingLoads DEF LoadsAreForThisView
  <1>7. EditOfTheView' /\ DialogOfTheView'
    BY DEF EditOfTheView, DialogOfTheView
  <1>8. DetailFresh' /\ CreatedLive'
    BY <1>1, <1>2, <1>3 DEF DetailFresh, CreatedLive, DetailIInv
  <1> QED BY <1>3, <1>4, <1>5, <1>6, <1>7, <1>8 DEF DetailIInv

LEMMA EndsEdit == ASSUME DetailIInv, EditOk PROVE DetailIInv'
  <1>1. /\ edit.request = "answered" /\ edit.result = "ok"
        /\ view' = [kind |-> "success", row |-> edit.got] /\ told' = Later(told, edit.got.version)
        /\ edit' = NoEdit /\ UNCHANGED <<row, place, deletedFlag, loads, confirm, creation>>
    BY DEF EditOk
  <1>2. /\ place = "detail" /\ view.kind = "success" /\ confirm.op = "none" /\ confirm.request = "none"
        /\ WasLeft(edit.got, TRUE)
    BY <1>1 DEF DetailIInv, EditOfTheView, DialogOfTheView
  <1>3. edit.got \in NatRow /\ confirm \in ConfirmRecord
    BY DEF DetailIInv, DetailTyped, EditRecord
  <1> QED BY <1>1, <1>2, <1>3, DetailConstants, AnswerShows

LEMMA FailsEdit == ASSUME DetailIInv, EditFails PROVE DetailIInv'
  <1>1. /\ edit.request = "answered"
        /\ edit' = [edit EXCEPT !.request = "none", !.result = "none", !.error = edit.result]
        /\ UNCHANGED <<row, place, deletedFlag, loads, view, confirm, creation, told>>
    BY DEF EditFails
  <1>2. edit \in EditRecord /\ confirm \in ConfirmRecord
    BY DEF DetailIInv, DetailTyped
  <1>3. edit' \in EditRecord /\ edit'.open = edit.open /\ edit'.shows = edit.shows /\ edit'.request = "none"
    BY <1>1, <1>2 DEF EditRecord, Outcomes
  <1>4. EditOfTheView' /\ CreatedLive'
    BY <1>1, <1>3 DEF DetailIInv, EditOfTheView, CreatedLive
  <1> QED BY <1>1, <1>2, <1>3, <1>4, ConfirmStays, PageMoves

\* The dialog moves and nothing else does.
LEMMA OnlyDialog ==
    ASSUME DetailIInv, confirm' \in ConfirmRecord, DialogOfTheView', edit.open => confirm'.op = "none",
           UNCHANGED <<row, place, deletedFlag, loads, view, edit, creation, told>>
    PROVE  DetailIInv'
  <1>1. edit \in EditRecord /\ CreatedLive'
    BY DEF DetailIInv, DetailTyped, CreatedLive
  <1> QED BY <1>1, EditStays, PageMoves

LEMMA RequestsAct == ASSUME DetailIInv, NEW op \in {"delete", "restore"}, RequestAct(op) PROVE DetailIInv'
  <1>1. /\ place = "detail" /\ view.kind = "success" /\ ~edit.open
        /\ confirm' = [NoConfirm EXCEPT !.op = op]
        /\ UNCHANGED <<row, place, deletedFlag, loads, view, edit, creation, told>>
    BY DEF RequestAct, Viewing
  <1>2. confirm' \in ConfirmRecord /\ confirm'.request = "none"
    BY <1>1, DetailConstants DEF ConfirmRecord
  <1>3. DialogOfTheView'
    BY <1>1, <1>2 DEF DialogOfTheView
  <1> QED BY <1>1, <1>2, <1>3, OnlyDialog

LEMMA ConfirmsAct == ASSUME DetailIInv, ConfirmAct PROVE DetailIInv'
  <1>1. /\ confirm.op # "none"
        /\ confirm' = [confirm EXCEPT !.request = "sent", !.version = view.row.version,
                                      !.result = "none", !.error = "none"]
        /\ UNCHANGED <<row, place, deletedFlag, loads, view, edit, creation, told>>
    BY DEF ConfirmAct
  <1>2. confirm \in ConfirmRecord /\ view.row.version \in Nat
    BY DEF DetailIInv, DetailTyped, ViewRecord, NatRow
  <1>3. confirm' \in ConfirmRecord /\ confirm'.op = confirm.op /\ confirm'.request = "sent"
        /\ confirm'.version = view.row.version
    BY <1>1, <1>2 DEF ConfirmRecord, Outcomes
  <1>4. DialogOfTheView' /\ (edit.open => confirm'.op = "none")
    BY <1>1, <1>3 DEF DetailIInv, DialogOfTheView, EditOfTheView
  <1> QED BY <1>1, <1>3, <1>4, OnlyDialog

LEMMA CancelsAct == ASSUME DetailIInv, CancelAct PROVE DetailIInv'
  <1>1. confirm' = NoConfirm /\ UNCHANGED <<row, place, deletedFlag, loads, view, edit, creation, told>>
    BY DEF CancelAct
  <1>2. DialogOfTheView'
    BY <1>1, DetailConstants DEF DialogOfTheView
  <1> QED BY <1>1, <1>2, DetailConstants, OnlyDialog

LEMMA FailsAct == ASSUME DetailIInv, ActFails PROVE DetailIInv'
  <1>1. /\ confirm' = [confirm EXCEPT !.request = "none", !.result = "none", !.error = confirm.result]
        /\ UNCHANGED <<row, place, deletedFlag, loads, view, edit, creation, told>>
    BY DEF ActFails
  <1>2. confirm \in ConfirmRecord
    BY DEF DetailIInv, DetailTyped
  <1>3. confirm' \in ConfirmRecord /\ confirm'.op = confirm.op /\ confirm'.request = "none"
    BY <1>1, <1>2 DEF ConfirmRecord, Outcomes
  <1>4. DialogOfTheView' /\ (edit.open => confirm'.op = "none")
    BY <1>1, <1>3 DEF DetailIInv, DialogOfTheView, EditOfTheView
  <1> QED BY <1>1, <1>3, <1>4, OnlyDialog

\* An answered dialog is over a page that shows its object.
LEMMA AnsweredDialog ==
    ASSUME DetailIInv, confirm.request # "none"
    PROVE  /\ place = "detail" /\ view.kind = "success" /\ confirm.op # "none"
           /\ ~edit.open /\ edit.request = "none" /\ edit \in EditRecord /\ confirm.got \in NatRow
           /\ row.version > 0 /\ told <= row.version /\ told \in Nat /\ row.version \in Nat
  BY DEF DetailIInv, DialogOfTheView, EditOfTheView, DetailTyped, EditRecord, ConfirmRecord, Heard, NatRow

LEMMA RefreshesFromDialog == ASSUME DetailIInv, RefreshFromDialog PROVE DetailIInv'
  <1>1. /\ confirm.op # "none" /\ confirm' = NoConfirm /\ Load(deletedFlag)
        /\ UNCHANGED <<row, place, edit, creation, told>>
    BY DEF RefreshFromDialog
  <1>2. /\ place = "detail" /\ edit.request = "none" /\ edit \in EditRecord /\ told \in Nat
        /\ deletedFlag \in BOOLEAN
    BY <1>1 DEF DetailIInv, DialogOfTheView, EditOfTheView, DetailTyped
  <1>3. row.version > 0 /\ told <= row.version /\ (row.version = told => deletedFlag \/ row.live)
    BY <1>2 DEF DetailIInv, Heard
  <1> QED BY <1>1, <1>2, <1>3, DetailConstants, LoadStarts

LEMMA EndsDelete == ASSUME DetailIInv, DeleteOk PROVE DetailIInv'
  <1>1. /\ confirm.request = "answered" /\ confirm.result = "ok" /\ confirm.op = "delete"
        /\ UNCHANGED <<row, creation>>
    BY DEF DeleteOk
  <1>2. WasLeft(confirm.got, FALSE)
    BY <1>1 DEF DetailIInv, DialogOfTheView
  <1>3. CASE May("VIEW_DELETED")
    <2>1. /\ Load(TRUE) /\ confirm' = NoConfirm /\ told' = Later(told, confirm.got.version)
          /\ UNCHANGED <<place, edit>>
      BY <1>3 DEF DeleteOk
    <2>2. confirm.got.version \in Nat
      BY <1>1, AnsweredDialog DEF NatRow
    <2>3. told' \in Nat /\ told' <= row.version
      BY <1>1, <1>2, <2>1, <2>2, AnsweredDialog DEF Later, WasLeft
    <2> QED BY <1>1, <2>1, <2>3, AnsweredDialog, DetailConstants, LoadStarts
  <1>4. CASE ~May("VIEW_DELETED")
    BY <1>1, <1>4, Unmounts DEF DeleteOk
  <1> QED BY <1>3, <1>4

LEMMA EndsRestore == ASSUME DetailIInv, RestoreOk PROVE DetailIInv'
  <1>1. /\ confirm.request = "answered" /\ confirm.result = "ok" /\ confirm.op = "restore"
        /\ confirm' = NoConfirm /\ told' = Later(told, confirm.got.version)
        /\ UNCHANGED <<row, place, edit, creation>>
    BY DEF RestoreOk
  <1>2. WasLeft(confirm.got, TRUE)
    BY <1>1 DEF DetailIInv, DialogOfTheView
  <1>3. confirm.got \in NatRow /\ confirm.got.version \in Nat
    BY <1>1, AnsweredDialog DEF NatRow
  <1>4. told' = confirm.got.version
    BY <1>1, <1>2, <1>3, AnsweredDialog DEF Later, WasLeft
  <1>5. CASE deletedFlag
    <2>1. Load(FALSE)
      BY <1>5 DEF RestoreOk
    <2>2. told' \in Nat /\ told' <= row.version /\ (row.version = told' => row.live)
      BY <1>2, <1>3, <1>4 DEF WasLeft
    <2> QED BY <1>1, <2>1, <2>2, AnsweredDialog, DetailConstants, LoadStarts
  <1>6. CASE ~deletedFlag
    <2>1. view' = [kind |-> "success", row |-> confirm.got] /\ UNCHANGED <<deletedFlag, loads>>
      BY <1>6 DEF RestoreOk
    <2>2. edit.open = FALSE
      BY <1>1, AnsweredDialog DEF EditRecord
    <2> QED BY <1>1, <1>2, <1>3, <2>1, <2>2, AnsweredDialog, DetailConstants, AnswerShows
  <1> QED BY <1>5, <1>6

-----------------------------------------------------------------------------
\* The writes.

LEMMA WrittenIsRow ==
    ASSUME NEW op, NEW r \in NatRow
    PROVE  Written(op, r) \in NatRow /\ Written(op, r).version = r.version + 1
  <1> DEFINE alive == IF op \in {"delete", "release", "revoke"} THEN FALSE
                      ELSE IF Creates(op) \/ op = "restore" THEN TRUE ELSE r.live
  <1>1. Written(op, r) = [version |-> r.version + 1, live |-> alive]
    BY DEF Written
  <1>2. r.version + 1 \in Nat /\ r.live \in BOOLEAN
    BY DEF NatRow
  <1>3. alive \in BOOLEAN
    BY <1>2
  <1> HIDE DEF alive
  <1> QED BY <1>1, <1>2, <1>3 DEF NatRow

LEMMA WrittenLive ==
    ASSUME NEW op \in {"create", "edit", "delete", "restore"}, NEW r \in NatRow, op = "edit" => r.live
    PROVE  Written(op, r).live <=> op # "delete"
  BY DEF Written, Creates

\* What an accepted or refused write of the page may do to the row.
LEMMA PageWrites ==
    ASSUME DetailIInv, NEW op \in {"edit", "delete", "restore"}, NEW version, NEW result, NEW commits \in BOOLEAN,
           Answerable([op |-> op, versioned |-> TRUE, version |-> version], row, TRUE, result, commits),
           NEW r, r = (IF commits THEN Written(op, row) ELSE row), row' = r,
           UNCHANGED told, told <= row.version
    PROVE  /\ r \in NatRow /\ (UNCHANGED row \/ row'.version > row.version)
           /\ result = "ok" => WasLeft(r, op # "delete")'
  <1>1. row \in NatRow /\ row.version \in Nat /\ told \in Nat
    BY DEF DetailIInv, DetailTyped, NatRow
  <1>2. /\ result = "ok" => commits
        /\ commits /\ op = "edit" => row.live
    BY DEF Answerable, Applies, Creates
  <1>3. CASE commits
    <2>1. r = Written(op, row)
      BY <1>3
    <2>2. r \in NatRow /\ r.version = row.version + 1
      BY <1>1, <2>1, WrittenIsRow
    <2>3. r.live <=> op # "delete"
      BY <1>1, <1>2, <1>3, <2>1, WrittenLive
    <2>4. r.live = (op # "delete")
      BY <2>2, <2>3 DEF NatRow
    <2>5. WasLeft(r, op # "delete")'
      BY <1>1, <2>2, <2>4 DEF WasLeft
    <2> QED BY <1>1, <2>2, <2>5
  <1>4. CASE ~commits
    BY <1>1, <1>2, <1>4
  <1> QED BY <1>3, <1>4

LEMMA AnswersEdit == ASSUME DetailIInv, ServerEdits PROVE DetailIInv'
  <1>1. PICK result \in Results, commits \in BOOLEAN :
           /\ Answerable([op |-> "edit", versioned |-> TRUE, version |-> edit.version], row, TRUE, result, commits)
           /\ row' = IF commits THEN Written("edit", row) ELSE row
           /\ edit' = [edit EXCEPT !.request = "answered", !.result = result, !.got = row']
    BY DEF ServerEdits
  <1>2. /\ edit.request = "sent" /\ UNCHANGED <<place, deletedFlag, loads, view, confirm, creation, told>>
        /\ edit \in EditRecord /\ confirm \in ConfirmRecord
    BY DEF ServerEdits, DetailIInv, DetailTyped
  <1>3. /\ edit.open /\ place = "detail" /\ confirm.op = "none" /\ confirm.request = "none"
        /\ view.kind = "success" /\ edit.version = edit.shows /\ edit.shows = view.row.version
    BY <1>2 DEF DetailIInv, EditOfTheView, DialogOfTheView
  <1>4. told <= row.version
    BY <1>3 DEF DetailIInv, Heard
  <1>5. PICK r : r = (IF commits THEN Written("edit", row) ELSE row) /\ row' = r
    BY <1>1
  <1>6. /\ r \in NatRow /\ (UNCHANGED row \/ row'.version > row.version)
        /\ result = "ok" => WasLeft(r, "edit" # "delete")'
    BY <1>1, <1>2, <1>4, <1>5, PageWrites
  <1>7. result = "ok" => WasLeft(r, TRUE)'
    <2>1. ("edit" # "delete") = TRUE
      OBVIOUS
    <2> QED BY <1>6, <2>1
  <1>8. /\ edit' \in EditRecord /\ edit'.open = edit.open /\ edit'.shows = edit.shows
        /\ edit'.request = "answered" /\ edit'.version = edit.version /\ edit'.result = result /\ edit'.got = r
    BY <1>1, <1>2, <1>5, <1>6 DEF EditRecord, Outcomes
  <1>9. DetailTyped'
    BY <1>2, <1>5, <1>6, <1>8 DEF DetailIInv, DetailTyped
  <1>10. EditOfTheView'
    BY <1>2, <1>3, <1>7, <1>8 DEF EditOfTheView
  <1>11. DialogOfTheView'
    BY <1>2, <1>3 DEF DialogOfTheView
  <1> QED BY <1>2, <1>5, <1>6, <1>9, <1>10, <1>11, RowGrows DEF DetailIInv

LEMMA AnswersAct == ASSUME DetailIInv, ServerActs PROVE DetailIInv'
  <1>1. PICK result \in Results, commits \in BOOLEAN :
           /\ Answerable([op |-> confirm.op, versioned |-> TRUE, version |-> confirm.version],
                         row, TRUE, result, commits)
           /\ row' = IF commits THEN Written(confirm.op, row) ELSE row
           /\ confirm' = [confirm EXCEPT !.request = "answered", !.result = result, !.got = row']
    BY DEF ServerActs
  <1>2. /\ confirm.request = "sent" /\ UNCHANGED <<place, deletedFlag, loads, view, edit, creation, told>>
        /\ edit \in EditRecord /\ confirm \in ConfirmRecord
    BY DEF ServerActs, DetailIInv, DetailTyped
  <1>3. /\ confirm.op # "none" /\ place = "detail" /\ ~edit.open /\ edit.request = "none"
        /\ view.kind = "success" /\ confirm.version = view.row.version /\ told <= row.version
    BY <1>2, AnsweredDialog DEF DetailIInv, DialogOfTheView
  <1>4. PICK op, r :
           op \in {"delete", "restore"} /\ confirm.op = op /\ r = (IF commits THEN Written(op, row) ELSE row) /\ row' = r
    BY <1>1, <1>2, <1>3 DEF ConfirmRecord
  <1>5. /\ r \in NatRow /\ (UNCHANGED row \/ row'.version > row.version)
        /\ result = "ok" => WasLeft(r, op # "delete")'
    BY <1>1, <1>2, <1>3, <1>4, PageWrites
  <1>6. result = "ok" => WasLeft(r, op = "restore")'
    <2>1. (op # "delete") = (op = "restore")
      BY <1>4
    <2> QED BY <1>5, <2>1
  <1>7. /\ confirm' \in ConfirmRecord /\ confirm'.op = op /\ confirm'.request = "answered"
        /\ confirm'.version = confirm.version /\ confirm'.result = result /\ confirm'.got = r
    BY <1>1, <1>2, <1>4, <1>5 DEF ConfirmRecord, Outcomes
  <1>8. DetailTyped'
    BY <1>2, <1>4, <1>5, <1>7 DEF DetailIInv, DetailTyped
  <1>9. EditOfTheView'
    BY <1>2, <1>3 DEF EditOfTheView
  <1>10. WasLeft(confirm.got, confirm.op = "restore")' <=> WasLeft(r, op = "restore")'
    BY <1>7 DEF WasLeft
  <1>11. DialogOfTheView'
    BY <1>2, <1>3, <1>4, <1>6, <1>7, <1>10 DEF DialogOfTheView
  <1> QED BY <1>2, <1>4, <1>5, <1>8, <1>9, <1>11, RowGrows DEF DetailIInv

\* What the page waits for stays true while others write.
LEMMA WaitingStays ==
    ASSUME DetailIInv, row' \in NatRow, UNCHANGED row \/ row'.version > row.version,
           UNCHANGED <<place, deletedFlag, loads, view, edit, confirm, told>>
    PROVE  DetailTyped' /\ EditOfTheView' /\ DialogOfTheView'
  <1>1. edit.got \in NatRow /\ confirm.got \in NatRow
    BY DEF DetailIInv, DetailTyped, EditRecord, ConfirmRecord
  <1>2. \A r \in NatRow, there \in BOOLEAN : WasLeft(r, there) => WasLeft(r, there)'
    BY RowGrows
  <1>3. (confirm.op = "restore") \in BOOLEAN /\ TRUE \in BOOLEAN
    OBVIOUS
  <1>4. DetailTyped'
    BY DEF DetailIInv, DetailTyped
  <1>5. EditOfTheView'
    BY <1>1, <1>2, <1>3 DEF DetailIInv, EditOfTheView
  <1>6. WasLeft(confirm.got, confirm.op = "restore") => WasLeft(confirm.got, confirm.op = "restore")'
    BY <1>1, <1>2, <1>3
  <1>7. DialogOfTheView'
    BY <1>6 DEF DetailIInv, DialogOfTheView
  <1> QED BY <1>4, <1>5, <1>7

LEMMA AnswersCreate == ASSUME DetailIInv, ServerCreates PROVE DetailIInv'
  <1>1. PICK result \in Results, commits \in BOOLEAN :
           /\ Answerable([op |-> "create", versioned |-> FALSE, version |-> 0], row, TRUE, result, commits)
           /\ row' = IF commits THEN Written("create", row) ELSE row
           /\ creation' = IF result = "ok" THEN "ok" ELSE "failed"
           /\ UNCHANGED <<place, deletedFlag, loads, view, edit, confirm, told>>
    BY DEF ServerCreates
  <1>2. row \in NatRow /\ row.version \in Nat
    BY DEF DetailIInv, DetailTyped, NatRow
  <1>3. result = "ok" => commits
    BY <1>1 DEF Answerable
  <1>4. row' \in NatRow /\ (UNCHANGED row \/ row'.version > row.version)
        /\ (commits => row'.version = row.version + 1 /\ row'.live)
    <2>1. /\ Written("create", row) \in NatRow /\ Written("create", row).version = row.version + 1
          /\ Written("create", row).live
      BY <1>2, WrittenIsRow, WrittenLive
    <2> QED BY <1>1, <1>2, <2>1
  <1>5. CreatedLive'
    BY <1>1, <1>2, <1>3, <1>4 DEF CreatedLive
  <1> QED BY <1>1, <1>4, <1>5, RowGrows, WaitingStays DEF DetailIInv

LEMMA SomeoneWritesIt == ASSUME DetailIInv, SomeoneWrites PROVE DetailIInv'
  <1>1. PICK op : row' = Written(op, row)
    BY DEF SomeoneWrites
  <1>2. UNCHANGED <<place, deletedFlag, loads, view, edit, confirm, creation, told>>
    BY DEF SomeoneWrites
  <1>3. row \in NatRow /\ row.version \in Nat
    BY DEF DetailIInv, DetailTyped, NatRow
  <1>4. row' \in NatRow /\ row'.version > row.version
    <2>1. Written(op, row) \in NatRow /\ Written(op, row).version = row.version + 1
      BY <1>3, WrittenIsRow
    <2> QED BY <1>1, <1>3, <2>1
  <1> QED BY <1>2, <1>4, RowGrows, WaitingStays DEF DetailIInv

LEMMA CreatePageMoves ==
    ASSUME DetailIInv, UNCHANGED <<row, place, deletedFlag, loads, view, edit, confirm, told>>, creation' # "ok"
    PROVE  DetailIInv'
  <1>1. edit \in EditRecord /\ confirm \in ConfirmRecord /\ EditOfTheView'
    BY EditStays DEF DetailIInv, DetailTyped, EditOfTheView
  <1> QED BY <1>1, ConfirmStays, PageMoves DEF CreatedLive

LEMMA EndsCreate == ASSUME DetailIInv, CreateOk PROVE DetailIInv'
  <1>1. creation = "ok" /\ creation' = "none" /\ UNCHANGED row
    BY DEF CreateOk
  <1>2. CASE place = "detail"
    BY <1>1, <1>2, CreatePageMoves DEF CreateOk
  <1>3. CASE place # "detail"
    <2>1. place' = "detail" /\ Load(FALSE) /\ edit' = NoEdit /\ confirm' = NoConfirm /\ told' = 1
      BY <1>3 DEF CreateOk, Mount
    <2>2. row.version > 0 /\ (row.version = 1 => row.live) /\ row.version \in Nat
      BY <1>1 DEF DetailIInv, CreatedLive, DetailTyped, NatRow
    <2>3. told' \in Nat /\ told' <= row.version /\ (row.version = told' => FALSE \/ row.live) /\ FALSE \in BOOLEAN
      BY <2>1, <2>2
    <2>4. /\ edit' \in EditRecord /\ edit'.request = "none"
          /\ confirm' \in ConfirmRecord /\ confirm'.op = "none" /\ confirm'.request = "none"
      BY <2>1, DetailConstants
    <2>5. creation' \in {creation, "none"} /\ row' = row
      BY <1>1
    <2> QED BY <2>1, <2>2, <2>3, <2>4, <2>5, LoadStarts
  <1> QED BY <1>2, <1>3

-----------------------------------------------------------------------------
\* The theorems about the detail page.

LEMMA DetailStepsKeep == DetailIInv /\ [DetailNext]_detailVars => DetailIInv'
  <1> SUFFICES ASSUME DetailIInv, [DetailNext]_detailVars PROVE DetailIInv'
    OBVIOUS
  <1>1. CASE NavigationStep
    BY <1>1, OpensDetail, Leaves, Goes DEF NavigationStep
  <1>2. CASE LoadStep
    BY <1>2, ReadsDetail, AnswersLoad, FailsLoad, RetriesLoad DEF LoadStep
  <1>3. CASE EditStep
    BY <1>3, StartsEdit, CancelsEdit, SubmitsEdit, RefreshesEdit, AnswersEdit, EndsEdit, FailsEdit DEF EditStep
  <1>4. CASE ActStep
    BY <1>4, RequestsAct, ConfirmsAct, CancelsAct, RefreshesFromDialog, AnswersAct, EndsDelete, EndsRestore,
       FailsAct DEF ActStep
  <1>5. CASE CreateStep
    <2>1. CASE SubmitCreate \/ CreateFails
      BY <2>1, CreatePageMoves DEF SubmitCreate, CreateFails
    <2> QED BY <1>5, <2>1, AnswersCreate, EndsCreate DEF CreateStep
  <1>6. CASE UNCHANGED detailVars
    <2>1. UNCHANGED <<row, place, deletedFlag, loads, view, edit, confirm, creation, told>>
      BY <1>6 DEF detailVars
    <2>2. edit \in EditRecord /\ confirm \in ConfirmRecord /\ EditOfTheView' /\ CreatedLive'
      BY <2>1, EditStays DEF DetailIInv, DetailTyped, EditOfTheView, CreatedLive
    <2> QED BY <2>1, <2>2, ConfirmStays, PageMoves
  <1> QED BY <1>1, <1>2, <1>3, <1>4, <1>5, <1>6, SomeoneWritesIt DEF DetailNext

LEMMA AlwaysDetailIInv == DetailSpec => []DetailIInv
  BY DetailInitially, DetailStepsKeep, PTL DEF DetailSpec

(* The detail shown is never older than what the page was told, and "not   *)
(* found" is never what the user's own write left, however often the page  *)
(* was opened and left and however late the answers come.                  *)
THEOREM DetailsAlwaysFresh == DetailSpec => []DetailFresh
  <1>1. DetailIInv => DetailFresh
    BY DEF DetailIInv
  <1> QED BY <1>1, AlwaysDetailIInv, PTL

\* A request of the page is answered by the server alone.
LEMMA AnsweredByTheServer ==
    ASSUME DetailIInv, DetailNext
    PROVE  /\ edit.request = "sent" /\ edit'.request = "answered" => ServerEdits
           /\ confirm.request = "sent" /\ confirm'.request = "answered" => ServerActs
  <1>1. edit \in EditRecord /\ confirm \in ConfirmRecord
    BY DEF DetailIInv, DetailTyped
  <1>2. CASE NavigationStep
    BY <1>2, DetailConstants DEF NavigationStep, OpenDetail, Mount, Leave, Unmount, GoTo
  <1>3. CASE LoadStep
    <2>1. CASE RetryLoad
      BY <2>1 DEF RetryLoad
    <2>2. ASSUME NEW l \in loads, ServerLoads(l) \/ LoadFails(l) PROVE UNCHANGED <<edit, confirm>>
      BY <2>2 DEF ServerLoads, LoadFails
    <2>3. ASSUME NEW l \in loads, LoadAnswer(l) PROVE edit'.request = edit.request /\ UNCHANGED confirm
      BY <1>1, <2>3 DEF LoadAnswer, EditRecord
    <2> QED BY <1>3, <2>1, <2>2, <2>3 DEF LoadStep
  <1>4. CASE EditStep
    <2>1. UNCHANGED confirm
      BY <1>4 DEF EditStep, StartEdit, CancelEdit, SubmitEdit, RefreshEdit, ServerEdits, EditOk, EditFails
    <2>2. StartEdit => edit'.request = "none"
      BY DetailConstants DEF StartEdit, EditRecord
    <2>3. edit.request = "sent" => ServerEdits \/ StartEdit
      BY <1>4 DEF EditStep, CancelEdit, SubmitEdit, RefreshEdit, EditOk, EditFails
    <2> QED BY <2>1, <2>2, <2>3
  <1>5. CASE ActStep
    <2>1. edit' = edit \/ edit'.request = "none"
      BY <1>5, DetailConstants DEF ActStep, RequestAct, ConfirmAct, CancelAct, RefreshFromDialog, ServerActs,
         DeleteOk, RestoreOk, ActFails, Unmount
    <2>2. confirm.request = "sent" => ServerActs \/ \E op \in {"delete", "restore"} : RequestAct(op)
      BY <1>5 DEF ActStep, ConfirmAct, CancelAct, RefreshFromDialog, DeleteOk, RestoreOk, ActFails
    <2>3. ASSUME NEW op \in {"delete", "restore"}, RequestAct(op) PROVE confirm'.request = "none"
      BY <2>3, DetailConstants DEF RequestAct, ConfirmRecord
    <2> QED BY <2>1, <2>2, <2>3
  <1>6. CASE CreateStep
    BY <1>6, DetailConstants DEF CreateStep, SubmitCreate, ServerCreates, CreateOk, CreateFails, Mount
  <1>7. CASE SomeoneWrites
    BY <1>7 DEF SomeoneWrites
  <1> QED BY <1>2, <1>3, <1>4, <1>5, <1>6, <1>7 DEF DetailNext

(* An edit lands only on the version in the form, a deletion or a          *)
(* restoration only on the version under the dialog.                       *)
THEOREM AlwaysEditsWhatItShows == DetailSpec => EditsWhatItShows
  <1> DEFINE Seen ==
        /\ edit.request = "sent" /\ edit'.request = "answered" /\ row' # row
             => row.version = edit.shows
        /\ confirm.request = "sent" /\ confirm'.request = "answered" /\ row' # row
             => view.kind = "success" /\ row.version = view.row.version
  <1>1. ASSUME DetailIInv, [DetailNext]_detailVars PROVE [Seen]_detailVars
    <2> SUFFICES ASSUME DetailNext PROVE Seen
      BY <1>1
    <2>1. ASSUME edit.request = "sent", edit'.request = "answered", row' # row PROVE row.version = edit.shows
      <3>1. ServerEdits
        BY <1>1, <2>1, AnsweredByTheServer
      <3>2. edit.version = edit.shows
        BY <1>1, <2>1 DEF DetailIInv, EditOfTheView
      <3>3. PICK result \in Results, commits \in BOOLEAN :
              /\ Answerable([op |-> "edit", versioned |-> TRUE, version |-> edit.version], row, TRUE, result, commits)
              /\ row' = IF commits THEN Written("edit", row) ELSE row
        BY <3>1 DEF ServerEdits
      <3> QED BY <2>1, <3>2, <3>3 DEF Answerable
    <2>2. ASSUME confirm.request = "sent", confirm'.request = "answered", row' # row
          PROVE  view.kind = "success" /\ row.version = view.row.version
      <3>1. ServerActs
        BY <1>1, <2>2, AnsweredByTheServer
      <3>2. view.kind = "success" /\ confirm.version = view.row.version
        BY <1>1, <2>2 DEF DetailIInv, DialogOfTheView
      <3>3. PICK result \in Results, commits \in BOOLEAN :
              /\ Answerable([op |-> confirm.op, versioned |-> TRUE, version |-> confirm.version],
                            row, TRUE, result, commits)
              /\ row' = IF commits THEN Written(confirm.op, row) ELSE row
        BY <3>1 DEF ServerActs
      <3> QED BY <2>2, <3>2, <3>3 DEF Answerable
    <2> QED BY <2>1, <2>2
  <1>2. DetailIInv /\ [DetailNext]_detailVars => [Seen]_detailVars
    BY <1>1
  <1>3. DetailSpec => [][Seen]_detailVars
    BY <1>2, AlwaysDetailIInv, PTL DEF DetailSpec
  <1> QED BY <1>3 DEF EditsWhatItShows

-----------------------------------------------------------------------------
\* The bounds of the versions.  Every step keeps them by itself.

LoadState == [flag : BOOLEAN, read : BOOLEAN, row : RowState, cancelled : BOOLEAN]
ViewState == [kind : {"loading", "success", "missing", "error"}, row : RowState]
EditState ==
    [open : BOOLEAN, shows : 0 .. LastVersion, version : 0 .. LastVersion,
     request : {"none", "sent", "answered"}, result : Results \union {"none"},
     error : Results \union {"none", "unchanged"}, got : RowState]
ConfirmState ==
    [op : {"none", "delete", "restore"}, version : 0 .. LastVersion,
     request : {"none", "sent", "answered"}, result : Results \union {"none"},
     error : Results \union {"none"}, got : RowState]

DetailShaped ==
    /\ row \in RowState /\ place \in {"list", "detail", "create", "away"} /\ deletedFlag \in BOOLEAN
    /\ loads \subseteq LoadState /\ view \in ViewState /\ edit \in EditState /\ confirm \in ConfirmState
    /\ creation \in {"none", "sent", "ok", "failed"} /\ told \in 0 .. LastVersion

LEMMA RowStates ==
    /\ NoRow \in RowState /\ 0 \in 0 .. LastVersion /\ 1 \in 0 .. LastVersion
    /\ \A r \in RowState : r.version \in 0 .. LastVersion /\ r.live \in BOOLEAN
    /\ \A there \in BOOLEAN : [version |-> 1, live |-> there] \in RowState
  <1>1. LastVersion \in Nat \ {0}
    BY DetailPageAssumption
  <1>2. 0 \in 0 .. LastVersion /\ 1 \in 0 .. LastVersion
    BY <1>1
  <1> QED BY <1>2 DEF NoRow, RowState

LEMMA PageStates == Blank \in ViewState /\ NoEdit \in EditState /\ NoConfirm \in ConfirmState
  <1>1. Blank \in ViewState
    BY RowStates DEF Blank, ViewState
  <1>2. NoEdit \in EditState
    BY RowStates DEF NoEdit, EditState
  <1>3. NoConfirm \in ConfirmState
    BY RowStates DEF NoConfirm, ConfirmState
  <1> QED BY <1>1, <1>2, <1>3

LEMMA LaterBounded == \A a, b \in 0 .. LastVersion : Later(a, b) \in 0 .. LastVersion
  BY DEF Later

LEMMA LoadShaped ==
    ASSUME DetailShaped, NEW flag \in BOOLEAN, Load(flag)
    PROVE  deletedFlag' \in BOOLEAN /\ view' \in ViewState /\ loads' \subseteq LoadState
  <1>1. \A l \in loads : [l EXCEPT !.cancelled = TRUE] \in LoadState
    BY DEF DetailShaped, LoadState
  <1>2. [flag |-> flag, read |-> FALSE, row |-> NoRow, cancelled |-> FALSE] \in LoadState
    BY RowStates DEF LoadState
  <1>3. loads' \subseteq LoadState
    BY <1>1, <1>2 DEF Load
  <1> QED BY <1>3, PageStates DEF Load

LEMMA UnmountShaped ==
    ASSUME DetailShaped, NEW to \in {"list", "away"}, Unmount(to), UNCHANGED <<row, creation>>
    PROVE  DetailShaped'
  <1>1. \A l \in loads : [l EXCEPT !.cancelled = TRUE] \in LoadState
    BY DEF DetailShaped, LoadState
  <1>2. loads' \subseteq LoadState
    BY <1>1 DEF Unmount
  <1>3. /\ place' = to /\ view' = Blank /\ edit' = NoEdit /\ confirm' = NoConfirm /\ told' = 0
        /\ UNCHANGED deletedFlag
    BY DEF Unmount
  <1> QED BY <1>2, <1>3, RowStates, PageStates DEF DetailShaped

LEMMA MountShaped ==
    ASSUME DetailShaped, NEW flag \in BOOLEAN, NEW version \in 0 .. LastVersion, Mount(flag, version),
           UNCHANGED row, creation' \in {creation, "none"}
    PROVE  DetailShaped'
  BY LoadShaped, PageStates DEF Mount, DetailShaped

\* The row is written below the bound only.
LEMMA RowWrittenBounded ==
    ASSUME row \in RowState, NEW op, row.version < LastVersion
    PROVE  Written(op, row) \in RowState
  <1>1. row.version \in 0 .. LastVersion /\ row.live \in BOOLEAN /\ LastVersion \in Nat
    BY RowStates, DetailPageAssumption
  <1>2. row.version + 1 \in 0 .. LastVersion
    BY <1>1
  <1> QED BY <1>1, <1>2 DEF Written, RowState

LEMMA OpenShaped ==
    ASSUME DetailShaped, NavigationStep \/ LoadStep
    PROVE  DetailShaped'
  <1>1. ASSUME NEW flag \in BOOLEAN, OpenDetail(flag) PROVE DetailShaped'
    BY <1>1, MountShaped, RowStates DEF OpenDetail
  <1>2. ASSUME NEW to \in {"list", "away"}, Leave(to) PROVE DetailShaped'
    BY <1>2, UnmountShaped DEF Leave
  <1>3. ASSUME NEW to \in {"list", "away", "create"}, GoTo(to) PROVE DetailShaped'
    BY <1>3 DEF GoTo, DetailShaped
  <1>4. ASSUME NEW l \in loads, ServerLoads(l) PROVE DetailShaped'
    <2>1. [l EXCEPT !.read = TRUE, !.row = row] \in LoadState
      BY DEF DetailShaped, LoadState
    <2> QED BY <1>4, <2>1 DEF ServerLoads, DetailShaped
  <1>5. ASSUME NEW l \in loads, LoadAnswer(l) PROVE DetailShaped'
    <2>1. l.row \in RowState /\ l.row.version \in 0 .. LastVersion
      BY RowStates DEF DetailShaped, LoadState
    <2>2. [kind |-> "success", row |-> l.row] \in ViewState /\ [kind |-> "missing", row |-> l.row] \in ViewState
      BY <2>1 DEF ViewState
    <2>3. [edit EXCEPT !.shows = l.row.version] \in EditState
      BY <2>1 DEF DetailShaped, EditState
    <2>4. Later(told, l.row.version) \in 0 .. LastVersion
      BY <2>1, LaterBounded DEF DetailShaped
    <2>5. view' \in ViewState /\ edit' \in EditState /\ told' \in 0 .. LastVersion
      BY <1>5, <2>2, <2>3, <2>4 DEF LoadAnswer, DetailShaped
    <2> QED BY <1>5, <2>5 DEF LoadAnswer, DetailShaped
  <1>6. ASSUME NEW l \in loads, LoadFails(l) PROVE DetailShaped'
    <2>1. [kind |-> "error", row |-> NoRow] \in ViewState
      BY RowStates DEF ViewState
    <2> QED BY <1>6, <2>1 DEF LoadFails, DetailShaped
  <1>7. CASE RetryLoad
    BY <1>7, LoadShaped DEF RetryLoad, DetailShaped
  <1> QED BY <1>1, <1>2, <1>3, <1>4, <1>5, <1>6, <1>7 DEF NavigationStep, LoadStep

LEMMA EditShaped ==
    ASSUME DetailShaped, EditStep
    PROVE  DetailShaped'
  <1>1. view.row \in RowState /\ view.row.version \in 0 .. LastVersion
    BY RowStates DEF DetailShaped, ViewState
  <1>2. ASSUME UNCHANGED <<row, place, deletedFlag, loads, view, confirm, creation, told>>, edit' \in EditState
        PROVE  DetailShaped'
    BY <1>2 DEF DetailShaped
  <1>3. CASE StartEdit
    <2>1. [NoEdit EXCEPT !.open = TRUE, !.shows = view.row.version] \in EditState
      BY <1>1, PageStates DEF EditState
    <2> QED BY <1>2, <1>3, <2>1 DEF StartEdit
  <1>4. CASE CancelEdit
    BY <1>2, <1>4, PageStates DEF CancelEdit
  <1>5. CASE SubmitEdit
    <2>1. [edit EXCEPT !.error = "unchanged"] \in EditState
      BY DEF DetailShaped, EditState
    <2>2. [edit EXCEPT !.request = "sent", !.version = view.row.version, !.result = "none", !.error = "none"]
             \in EditState
      BY <1>1 DEF DetailShaped, EditState
    <2> QED BY <1>2, <1>5, <2>1, <2>2 DEF SubmitEdit
  <1>6. CASE RefreshEdit
    <2>1. [edit EXCEPT !.error = "none"] \in EditState
      BY DEF DetailShaped, EditState
    <2> QED BY <1>6, <2>1, LoadShaped DEF RefreshEdit, DetailShaped
  <1>7. CASE ServerEdits
    <2>1. PICK result \in Results, commits \in BOOLEAN :
             /\ row' = IF commits THEN Written("edit", row) ELSE row
             /\ edit' = [edit EXCEPT !.request = "answered", !.result = result, !.got = row']
      BY <1>7 DEF ServerEdits
    <2>2. row' \in RowState
      <3>1. CASE row' = row
        BY <3>1 DEF DetailShaped
      <3>2. CASE row' # row
        BY <1>7, <2>1, <3>2, RowWrittenBounded DEF ServerEdits, Bounded, DetailShaped
      <3> QED BY <3>1, <3>2
    <2>3. edit' \in EditState
      BY <2>1, <2>2 DEF DetailShaped, EditState
    <2> QED BY <1>7, <2>2, <2>3 DEF ServerEdits, DetailShaped
  <1>8. CASE EditOk
    <2>1. edit.got \in RowState /\ edit.got.version \in 0 .. LastVersion
      BY RowStates DEF DetailShaped, EditState
    <2>2. [kind |-> "success", row |-> edit.got] \in ViewState
      BY <2>1 DEF ViewState
    <2>3. told' \in 0 .. LastVersion
      BY <1>8, <2>1, LaterBounded DEF EditOk, DetailShaped
    <2> QED BY <1>8, <2>2, <2>3, PageStates DEF EditOk, DetailShaped
  <1>9. CASE EditFails
    <2>1. edit' \in EditState
      BY <1>9 DEF EditFails, DetailShaped, EditState
    <2> QED BY <1>2, <1>9, <2>1 DEF EditFails
  <1> QED BY <1>3, <1>4, <1>5, <1>6, <1>7, <1>8, <1>9 DEF EditStep

LEMMA ActShaped ==
    ASSUME DetailShaped, ActStep
    PROVE  DetailShaped'
  <1>1. view.row \in RowState /\ view.row.version \in 0 .. LastVersion
    BY RowStates DEF DetailShaped, ViewState
  <1>2. ASSUME UNCHANGED <<row, place, deletedFlag, loads, view, edit, creation, told>>, confirm' \in ConfirmState
        PROVE  DetailShaped'
    BY <1>2 DEF DetailShaped
  <1>3. ASSUME NEW op \in {"delete", "restore"}, RequestAct(op) PROVE DetailShaped'
    <2>1. [NoConfirm EXCEPT !.op = op] \in ConfirmState
      BY PageStates DEF ConfirmState
    <2> QED BY <1>2, <1>3, <2>1 DEF RequestAct
  <1>4. CASE ConfirmAct
    <2>1. confirm' \in ConfirmState
      BY <1>1, <1>4 DEF ConfirmAct, DetailShaped, ConfirmState
    <2> QED BY <1>2, <1>4, <2>1 DEF ConfirmAct
  <1>5. CASE CancelAct
    BY <1>2, <1>5, PageStates DEF CancelAct
  <1>6. CASE RefreshFromDialog
    BY <1>6, LoadShaped, PageStates DEF RefreshFromDialog, DetailShaped
  <1>7. CASE ServerActs
    <2>1. PICK result \in Results, commits \in BOOLEAN :
             /\ row' = IF commits THEN Written(confirm.op, row) ELSE row
             /\ confirm' = [confirm EXCEPT !.request = "answered", !.result = result, !.got = row']
      BY <1>7 DEF ServerActs
    <2>2. row' \in RowState
      <3>1. CASE row' = row
        BY <3>1 DEF DetailShaped
      <3>2. CASE row' # row
        BY <1>7, <2>1, <3>2, RowWrittenBounded DEF ServerActs, Bounded, DetailShaped
      <3> QED BY <3>1, <3>2
    <2>3. confirm' \in ConfirmState
      BY <2>1, <2>2 DEF DetailShaped, ConfirmState
    <2> QED BY <1>7, <2>2, <2>3 DEF ServerActs, DetailShaped
  <1>8. confirm.got \in RowState /\ Later(told, confirm.got.version) \in 0 .. LastVersion
    <2>1. confirm.got \in RowState /\ told \in 0 .. LastVersion
      BY DEF DetailShaped, ConfirmState
    <2> QED BY <2>1, RowStates, LaterBounded
  <1>9. CASE DeleteOk
    <2>1. CASE May("VIEW_DELETED")
      BY <1>8, <1>9, <2>1, LoadShaped, PageStates DEF DeleteOk, DetailShaped
    <2>2. CASE ~May("VIEW_DELETED")
      BY <1>9, <2>2, UnmountShaped DEF DeleteOk
    <2> QED BY <2>1, <2>2
  <1>10. CASE RestoreOk
    <2>1. [kind |-> "success", row |-> confirm.got] \in ViewState
      BY <1>8 DEF ViewState
    <2>2. deletedFlag' \in BOOLEAN /\ view' \in ViewState /\ loads' \subseteq LoadState
      BY <1>10, <2>1, LoadShaped DEF RestoreOk, DetailShaped
    <2> QED BY <1>8, <1>10, <2>2, PageStates DEF RestoreOk, DetailShaped
  <1>11. CASE ActFails
    <2>1. confirm' \in ConfirmState
      BY <1>11 DEF ActFails, DetailShaped, ConfirmState
    <2> QED BY <1>2, <1>11, <2>1 DEF ActFails
  <1> QED BY <1>3, <1>4, <1>5, <1>6, <1>7, <1>9, <1>10, <1>11 DEF ActStep

LEMMA CreateShaped ==
    ASSUME DetailShaped, CreateStep \/ SomeoneWrites
    PROVE  DetailShaped'
  <1>1. CASE SubmitCreate \/ CreateFails
    BY <1>1 DEF SubmitCreate, CreateFails, DetailShaped
  <1>2. CASE ServerCreates
    <2>1. PICK result \in Results \ {"conflict"}, commits \in BOOLEAN :
             /\ Answerable([op |-> "create", versioned |-> FALSE, version |-> 0], row, TRUE, result, commits)
             /\ row' = IF commits THEN Written("create", row) ELSE row
             /\ creation' = IF result = "ok" THEN "ok" ELSE "failed"
      BY <1>2 DEF ServerCreates
    <2>2. commits => row.version < LastVersion
      BY <2>1, DetailPageAssumption DEF Answerable, Applies, Creates
    <2>3. row' \in RowState
      BY <2>1, <2>2, RowWrittenBounded DEF DetailShaped
    <2> QED BY <1>2, <2>1, <2>3 DEF ServerCreates, DetailShaped
  <1>3. CASE CreateOk
    <2>1. CASE place = "detail"
      BY <1>3, <2>1 DEF CreateOk, DetailShaped
    <2>2. CASE place # "detail"
      BY <1>3, <2>2, MountShaped, RowStates DEF CreateOk
    <2> QED BY <2>1, <2>2
  <1>4. CASE SomeoneWrites
    <2>1. PICK op : row' = Written(op, row)
      BY <1>4 DEF SomeoneWrites
    <2>2. row.version < LastVersion
      <3>1. row.version \in Nat /\ LastVersion \in Nat
        BY RowStates, DetailPageAssumption DEF DetailShaped
      <3> QED BY <1>4, <3>1 DEF SomeoneWrites
    <2>3. row' \in RowState
      BY <2>1, <2>2, RowWrittenBounded DEF DetailShaped
    <2> QED BY <1>4, <2>3 DEF SomeoneWrites, DetailShaped
  <1> QED BY <1>1, <1>2, <1>3, <1>4 DEF CreateStep

(* No step takes the object, or what the pages hold of it, past the last   *)
(* version, and what the pages show is of its types.                       *)
THEOREM DetailTyping == DetailSpec => []DetailTypeOK
  <1>1. DetailInit => DetailShaped
    <2> SUFFICES ASSUME DetailInit PROVE DetailShaped
      OBVIOUS
    <2>1. row \in RowState
      BY RowStates DEF DetailInit
    <2> QED BY <2>1, RowStates, PageStates DEF DetailInit, DetailShaped
  <1>2. DetailShaped /\ [DetailNext]_detailVars => DetailShaped'
    <2>1. DetailShaped /\ UNCHANGED detailVars => DetailShaped'
      BY DEF DetailShaped, detailVars
    <2> QED BY <2>1, OpenShaped, EditShaped, ActShaped, CreateShaped DEF DetailNext
  <1>3. DetailShaped => DetailTypeOK
    BY DEF DetailShaped, DetailTypeOK, LoadState, ViewState, EditState, ConfirmState
  <1> QED BY <1>1, <1>2, <1>3, PTL DEF DetailSpec

-----------------------------------------------------------------------------
(* Binding addresses.                                                      *)

Holder == Ifaces \union {Elsewhere, Unbound}
AnyVersions == [Addresses -> Nat]
AddressRecord == [version : Nat \ {0}, live : BOOLEAN, iface : Holder]
ReadOf(K) ==
    [kind : {"bound", "candidates"}, iface : K, q : K, done : BOOLEAN, found : AnyVersions, cancelled : BOOLEAN]
IsRead(r) == \E K : r \in ReadOf(K)

BindTyped ==
    /\ ips \in [Addresses -> AddressRecord]
    /\ target \in Ifaces \union {Unbound}
    /\ selection \in AnyVersions /\ batch \in AnyVersions /\ candidates.versions \in AnyVersions
    /\ \A r \in reads : IsRead(r)
    /\ outcomes \in [Addresses -> {"none", "ok", "failed"}]
    /\ patch \in [state : {"none", "sent", "answered"}, ok : BOOLEAN]

\* At version v, if it is one, the address was free to be bound.
WasFree(a, v) ==
    /\ v <= ips[a].version
    /\ v > 0 /\ v = ips[a].version => ips[a].live /\ ips[a].iface = Unbound

\* The address was bound at the version after the one submitted.
WasBound(a) ==
    /\ batch[a] < ips[a].version
    /\ ips[a].version = batch[a] + 1 => ips[a].live /\ ips[a].iface = target

BindIInv ==
    /\ BindTyped
    /\ \A a \in Addresses : WasFree(a, selection[a]) /\ WasFree(a, candidates.versions[a])
    /\ \A r \in reads, a \in Addresses : r.kind = "candidates" => WasFree(a, r.found[a])
    /\ Submitting => target # Unbound /\ selection = batch
    /\ \A a \in Addresses : outcomes[a] # "none" => target # Unbound
    /\ \A a \in Addresses : outcomes[a] = "ok" => WasBound(a)
    /\ Submitting /\ patch.state = "answered" /\ patch.ok /\ Head(queue) \in Addresses => WasBound(Head(queue))

\* The members of a set of numbers have the places 1, 2, ... in their order,
\* one each.
LEMMA Places ==
    ASSUME NEW n \in Nat, NEW S, S \subseteq 1 .. n
    PROVE  /\ IsFiniteSet(S) /\ Cardinality(S) \in Nat
           /\ \A i \in S : Cardinality({j \in S : j <= i}) \in 1 .. Cardinality(S)
           /\ \A i, k \in S : Cardinality({j \in S : j <= i}) = Cardinality({j \in S : j <= k}) => i = k
           /\ \A r \in 1 .. Cardinality(S) : \E i \in S : Cardinality({j \in S : j <= i}) = r
  <1>1. IsFiniteSet(S) /\ Cardinality(S) \in Nat /\ \A i \in S : i \in Nat
    <2>1. IsFiniteSet(1 .. n)
      BY FS_Interval
    <2>2. IsFiniteSet(S)
      BY <2>1, FS_Subset
    <2>3. Cardinality(S) \in Nat
      BY <2>2, FS_CardinalityType
    <2>4. \A i \in S : i \in Nat
      OBVIOUS
    <2> QED BY <2>2, <2>3, <2>4
  <1> DEFINE Upto(i) == {j \in S : j <= i}
             Place(i) == Cardinality(Upto(i))
  <1>2. ASSUME NEW i \in S
        PROVE  IsFiniteSet(Upto(i)) /\ Place(i) \in Nat /\ Place(i) <= Cardinality(S)
    BY <1>1, FS_Subset, FS_CardinalityType
  <1>3. ASSUME NEW i \in S PROVE Place(i) # 0
    <2>1. i \in Upto(i)
      BY <1>1
    <2> QED BY <1>2, <2>1, FS_EmptySet
  <1>4. ASSUME NEW i \in S, NEW k \in S, i < k PROVE Place(i) # Place(k)
    <2>1. Upto(i) \subseteq Upto(k) /\ k \in Upto(k) /\ k \notin Upto(i)
      <3>1. i \in Nat /\ k \in Nat /\ i < k
        BY <1>1, <1>4
      <3>2. \A m \in S : m \in Nat /\ (m <= i => m <= k)
        BY <1>1, <3>1
      <3>3. k <= k /\ ~(k <= i)
        BY <3>1
      <3> QED BY <3>2, <3>3
    <2>2. Place(k) = Place(i) => Upto(k) = Upto(i)
      BY <1>2, <2>1, FS_Subset
    <2> QED BY <2>1, <2>2
  <1> HIDE DEF Place
  <1>5. /\ \A i \in S : Place(i) \in 1 .. Cardinality(S)
        /\ \A i, k \in S : Place(i) = Place(k) => i = k
    <2>1. ASSUME NEW i \in S PROVE Place(i) \in 1 .. Cardinality(S)
      <3>1. Place(i) \in Nat /\ Place(i) <= Cardinality(S) /\ Place(i) # 0
        BY <1>2, <1>3
      <3> QED BY <1>1, <3>1
    <2>2. ASSUME NEW i \in S, NEW k \in S, Place(i) = Place(k) PROVE i = k
      <3>1. ~(i < k) /\ ~(k < i)
        BY <1>4, <2>2
      <3> QED BY <1>1, <3>1
    <2> QED BY <2>1, <2>2
  <1>6. \A r \in 1 .. Cardinality(S) : \E i \in S : Place(i) = r
    <2> DEFINE N == Cardinality(S)
               f == [i \in S |-> Place(i)]
    <2>1. N \in Nat /\ IsFiniteSet(1 .. N) /\ Cardinality(1 .. N) = N
      BY <1>1, FS_Interval
    <2>2. f \in Injection(S, 1 .. N)
      BY <1>5 DEF Injection, IsInjective
    <2>3. f \in Surjection(S, 1 .. N)
      <3> HIDE DEF f
      <3> QED BY <1>1, <2>1, <2>2, FS_Injection
    <2> QED BY <2>3 DEF Surjection
  <1> QED BY <1>1, <1>5, <1>6 DEF Place

LEMMA NoVersionsFree ==
    ASSUME BindTyped
    PROVE  /\ NoVersions \in AnyVersions
           /\ \A a \in Addresses : NoVersions[a] = 0 /\ WasFree(a, NoVersions[a])
  <1>1. NoVersions \in AnyVersions /\ \A a \in Addresses : NoVersions[a] = 0
    BY DEF NoVersions, AnyVersions
  <1>2. \A a \in Addresses : ips[a].version \in Nat
    BY DEF BindTyped, AddressRecord
  <1> QED BY <1>1, <1>2 DEF WasFree

LEMMA LeftStays ==
    ASSUME \A r \in reads : IsRead(r)
    PROVE  \A r \in LeftCandidates(reads) :
              IsRead(r) /\ \E s \in reads : r.kind = s.kind /\ r.found = s.found
  <1> SUFFICES ASSUME NEW r \in LeftCandidates(reads)
               PROVE  IsRead(r) /\ \E s \in reads : r.kind = s.kind /\ r.found = s.found
    OBVIOUS
  <1>1. PICK s \in reads : r = IF s.kind = "candidates" THEN [s EXCEPT !.cancelled = TRUE] ELSE s
    BY DEF LeftCandidates
  <1>2. PICK K : s \in ReadOf(K)
    BY DEF IsRead
  <1>3. r \in ReadOf(K) /\ r.kind = s.kind /\ r.found = s.found
    BY <1>1, <1>2 DEF ReadOf
  <1> QED BY <1>3 DEF IsRead

LEMMA NewRead ==
    ASSUME BindTyped, NEW kind \in {"bound", "candidates"}, NEW i, NEW q
    PROVE  IsRead(Read(kind, i, q)) /\ Read(kind, i, q).found = NoVersions
  <1>1. Read(kind, i, q) \in ReadOf({i, q})
    BY NoVersionsFree DEF Read, ReadOf
  <1> QED BY <1>1 DEF IsRead, Read

LEMMA CacheFields == \A kind, versions : Cache(kind, versions).versions = versions /\ Cache(kind, versions).kind = kind
  BY DEF Cache

\* While an address is not written, everything said of it stays; so do the
\* results while the dialog submits.
LEMMA BindMoves ==
    ASSUME BindIInv, UNCHANGED <<ips, queue, patch>>,
           target' \in Ifaces \union {Unbound}, selection' \in AnyVersions, batch' \in AnyVersions,
           candidates'.versions \in AnyVersions,
           \A a \in Addresses : WasFree(a, selection'[a]) /\ WasFree(a, candidates'.versions[a]),
           \A r \in reads' : IsRead(r),
           \A r \in reads', a \in Addresses : r.kind = "candidates" => WasFree(a, r.found[a]),
           outcomes' \in [Addresses -> {"none", "ok", "failed"}],
           Submitting => UNCHANGED <<target, selection, batch>>,
           UNCHANGED <<target, batch, outcomes>> \/ \A a \in Addresses : outcomes'[a] = "none"
    PROVE  BindIInv'
  <1>1. BindTyped'
    BY DEF BindIInv, BindTyped
  <1>2. \A a \in Addresses : WasFree(a, selection[a])' /\ WasFree(a, candidates.versions[a])'
    BY DEF WasFree
  <1>3. \A r \in reads', a \in Addresses : r.kind = "candidates" => WasFree(a, r.found[a])'
    BY DEF WasFree
  <1>4. Submitting' <=> Submitting
    BY DEF Submitting
  <1>5. UNCHANGED <<target, batch>> => \A a \in Addresses : WasBound(a) => WasBound(a)'
    BY DEF WasBound
  <1>6. \A a \in Addresses : (outcomes[a] # "none" => target # Unbound)' /\ (outcomes[a] = "ok" => WasBound(a))'
    BY <1>5 DEF BindIInv
  <1>7. Submitting => target' # Unbound /\ selection' = batch'
    BY DEF BindIInv
  <1>8. (Submitting /\ patch.state = "answered" /\ patch.ok /\ Head(queue) \in Addresses => WasBound(Head(queue)))'
    BY <1>4, <1>5 DEF BindIInv
  <1> QED BY <1>1, <1>2, <1>3, <1>4, <1>6, <1>7, <1>8 DEF BindIInv

\* The dialog does not move; loads come and go.
LEMMA ReadsMove ==
    ASSUME BindIInv, UNCHANGED <<ips, queue, patch, selection, batch, outcomes>>,
           target' \in Ifaces \union {Unbound}, target' = target \/ target = Unbound,
           candidates' = candidates \/ (\E kind : candidates' = Cache(kind, NoVersions)),
           \A r \in reads' : IsRead(r) /\ (r.found = NoVersions \/ \E s \in reads : r.kind = s.kind /\ r.found = s.found)
    PROVE  BindIInv'
  <1>1. NoVersions \in AnyVersions /\ \A a \in Addresses : WasFree(a, NoVersions[a])
    BY NoVersionsFree DEF BindIInv
  <1>2. candidates'.versions \in AnyVersions /\ \A a \in Addresses : WasFree(a, candidates'.versions[a])
    BY <1>1, CacheFields DEF BindIInv, BindTyped
  <1>3. \A r \in reads', a \in Addresses : r.kind = "candidates" => WasFree(a, r.found[a])
    BY <1>1 DEF BindIInv
  <1>4. target' = target \/ \A a \in Addresses : outcomes'[a] = "none"
    BY DEF BindIInv
  <1>5. Submitting => target' = target
    BY DEF BindIInv
  <1> QED BY <1>2, <1>3, <1>4, <1>5, BindMoves DEF BindIInv, BindTyped

LEMMA BindInitially == BindInit => BindIInv
  <1> SUFFICES ASSUME BindInit PROVE BindIInv
    OBVIOUS
  <1>1. /\ candidates = Cache("loading", NoVersions) /\ selection = NoVersions /\ queue = <<>>
        /\ batch = NoVersions /\ patch = NoPatch /\ outcomes = [a \in Addresses |-> "none"] /\ reads = {} /\ target = Unbound
    BY DEF BindInit
  <1>2. {b \in Bindable : b.version = 1 /\ b.live /\ b.iface = Unbound} \subseteq AddressRecord
    BY DEF Bindable, AddressRecord, Holder
  <1>3. ips \in [Addresses -> AddressRecord]
    BY <1>2 DEF BindInit
  <1>4. NoVersions \in AnyVersions
    BY DEF NoVersions, AnyVersions
  <1>5. BindTyped
    BY <1>1, <1>3, <1>4, CacheFields DEF BindTyped, NoPatch
  <1> QED BY <1>1, <1>5, NoVersionsFree, CacheFields DEF BindIInv, Submitting

LEMMA Toggles == ASSUME BindIInv, NEW i \in Ifaces, ToggleBoundIps(i) PROVE BindIInv'
  <1>1. /\ reads' = reads \/ reads' = reads \union {Read("bound", i, "")}
        /\ UNCHANGED <<ips, queue, patch, selection, batch, outcomes, target, candidates>>
    BY DEF ToggleBoundIps, LoadBoundIps
  <1>2. Read("bound", i, "").found = NoVersions /\ IsRead(Read("bound", i, ""))
    BY NewRead DEF BindIInv
  <1>3. \A r \in reads' : IsRead(r) /\ (r.found = NoVersions \/ \E s \in reads : r.kind = s.kind /\ r.found = s.found)
    BY <1>1, <1>2 DEF BindIInv, BindTyped
  <1>4. target' \in Ifaces \union {Unbound}
    BY <1>1 DEF BindIInv, BindTyped
  <1> QED BY <1>1, <1>3, <1>4, ReadsMove

LEMMA RefreshesBound == ASSUME BindIInv, RefreshBoundIps PROVE BindIInv'
  <1>1. /\ reads' = reads \union {Read("bound", boundView, "")}
        /\ UNCHANGED <<ips, queue, patch, selection, batch, outcomes, target, candidates>>
    BY DEF RefreshBoundIps, LoadBoundIps
  <1>2. Read("bound", boundView, "").found = NoVersions /\ IsRead(Read("bound", boundView, ""))
    BY NewRead DEF BindIInv
  <1>3. \A r \in reads' : IsRead(r) /\ (r.found = NoVersions \/ \E s \in reads : r.kind = s.kind /\ r.found = s.found)
    BY <1>1, <1>2 DEF BindIInv, BindTyped
  <1>4. target' \in Ifaces \union {Unbound}
    BY <1>1 DEF BindIInv, BindTyped
  <1> QED BY <1>1, <1>3, <1>4, ReadsMove

LEMMA LoadsCandidates ==
    ASSUME BindIInv, NEW q, LoadCandidates(q)
    PROVE  /\ candidates' = Cache("loading", NoVersions)
           /\ \A r \in reads' : IsRead(r) /\ (r.found = NoVersions \/ \E s \in reads : r.kind = s.kind /\ r.found = s.found)
  <1>1. /\ candidates' = Cache("loading", NoVersions)
        /\ reads' = LeftCandidates(reads) \union {Read("candidates", Unbound, q)}
    BY DEF LoadCandidates
  <1>2. IsRead(Read("candidates", Unbound, q)) /\ Read("candidates", Unbound, q).found = NoVersions
    BY NewRead DEF BindIInv
  <1> QED BY <1>1, <1>2, LeftStays DEF BindIInv, BindTyped

LEMMA OpensBinding == ASSUME BindIInv, NEW i \in Ifaces, OpenBinding(i) PROVE BindIInv'
  <1>1. /\ target = Unbound /\ target' = i /\ LoadCandidates("")
        /\ UNCHANGED <<ips, queue, patch, selection, batch, outcomes>>
    BY DEF OpenBinding
  <1> QED BY <1>1, LoadsCandidates, ReadsMove

LEMMA SearchesCandidates == ASSUME BindIInv, NEW q \in Queries, SearchCandidates(q) PROVE BindIInv'
  <1>1. LoadCandidates(q) /\ UNCHANGED <<ips, queue, patch, selection, batch, outcomes, target>>
    BY DEF SearchCandidates
  <1> QED BY <1>1, LoadsCandidates, ReadsMove DEF BindIInv, BindTyped

LEMMA ClosesBinding == ASSUME BindIInv, CloseBinding PROVE BindIInv'
  <1>1. /\ ~Submitting /\ target' = Unbound /\ reads' = LeftCandidates(reads)
        /\ candidates' = Cache("loading", NoVersions) /\ selection' = NoVersions /\ batch' = NoVersions
        /\ outcomes' = [a \in Addresses |-> "none"]
        /\ UNCHANGED <<ips, queue, patch>>
    BY DEF CloseBinding
  <1>2. /\ \A r \in reads' : IsRead(r)
        /\ \A r \in reads', a \in Addresses : r.kind = "candidates" => WasFree(a, r.found[a])
    BY <1>1, LeftStays DEF BindIInv, BindTyped
  <1>3. /\ NoVersions \in AnyVersions /\ candidates'.versions = NoVersions
        /\ \A a \in Addresses : WasFree(a, NoVersions[a])
    BY <1>1, NoVersionsFree, CacheFields DEF BindIInv
  <1> QED BY <1>1, <1>2, <1>3, BindMoves

LEMMA SelectsCandidate == ASSUME BindIInv, NEW a \in Addresses, ToggleCandidate(a) PROVE BindIInv'
  <1>1. /\ ~Submitting
        /\ selection' = [selection EXCEPT ![a] = IF selection[a] > 0 THEN 0 ELSE candidates.versions[a]]
        /\ UNCHANGED <<ips, queue, patch, target, candidates, reads, batch, outcomes>>
    BY DEF ToggleCandidate
  <1>2. selection \in AnyVersions /\ candidates.versions \in AnyVersions /\ candidates.versions[a] \in Nat
        /\ \A b \in Addresses : WasFree(b, 0)
    BY NoVersionsFree DEF BindIInv, BindTyped, AnyVersions
  <1>3. selection' \in AnyVersions
    BY <1>1, <1>2 DEF AnyVersions
  <1>4. \A b \in Addresses : selection'[b] \in {selection[b], 0, candidates.versions[b]}
    BY <1>1, <1>2 DEF AnyVersions
  <1>5. \A b \in Addresses : WasFree(b, selection'[b])
    BY <1>2, <1>4 DEF BindIInv
  <1> QED BY <1>1, <1>3, <1>5, BindMoves DEF BindIInv, BindTyped

LEMMA SubmitsBindings == ASSUME BindIInv, SubmitBindings PROVE BindIInv'
  <1>1. /\ target # Unbound /\ outcomes' = [a \in Addresses |-> "none"] /\ patch' = [state |-> "sent", ok |-> FALSE]
        /\ batch' = selection /\ UNCHANGED <<ips, target, candidates, selection, reads>>
    BY DEF SubmitBindings
  <1>2. patch' \in [state : {"none", "sent", "answered"}, ok : BOOLEAN] /\ patch'.state = "sent"
        /\ outcomes' \in [Addresses -> {"none", "ok", "failed"}] /\ \A a \in Addresses : outcomes'[a] = "none"
    BY <1>1
  <1>3. BindTyped'
    BY <1>1, <1>2 DEF BindIInv, BindTyped
  <1> QED BY <1>1, <1>2, <1>3 DEF BindIInv, WasFree

\* An address is written: what was said of older versions stays true.
LEMMA AddressWritten ==
    ASSUME BindIInv, NEW a \in Addresses, NEW row_ \in AddressRecord, ips' = [ips EXCEPT ![a] = row_],
           row_.version > ips[a].version, UNCHANGED <<target, selection, batch, candidates, reads>>
    PROVE  /\ ips' \in [Addresses -> AddressRecord]
           /\ \A b \in Addresses : WasFree(b, selection[b])' /\ WasFree(b, candidates.versions[b])'
           /\ \A r \in reads', b \in Addresses : r.kind = "candidates" => WasFree(b, r.found[b])'
           /\ \A b \in Addresses : WasBound(b) => WasBound(b)'
  <1>1. /\ ips \in [Addresses -> AddressRecord] /\ row_.version \in Nat
        /\ \A b \in Addresses : ips[b].version \in Nat /\ selection[b] \in Nat /\ batch[b] \in Nat
                                /\ candidates.versions[b] \in Nat
        /\ \A r \in reads, b \in Addresses : r.found[b] \in Nat
    BY DEF BindIInv, BindTyped, AddressRecord, AnyVersions, IsRead, ReadOf
  <1>2. /\ ips' \in [Addresses -> AddressRecord]
        /\ \A b \in Addresses : ips'[b] = IF b = a THEN row_ ELSE ips[b]
    BY <1>1
  <1>3. ASSUME NEW b \in Addresses, NEW v \in Nat, WasFree(b, v) PROVE WasFree(b, v)'
    BY <1>1, <1>2, <1>3 DEF WasFree
  <1>4. \A b \in Addresses : WasFree(b, selection[b])' /\ WasFree(b, candidates.versions[b])'
    BY <1>1, <1>3 DEF BindIInv
  <1>5. \A r \in reads', b \in Addresses : r.kind = "candidates" => WasFree(b, r.found[b])'
    BY <1>1, <1>3 DEF BindIInv
  <1>6. ASSUME NEW b \in Addresses, WasBound(b) PROVE WasBound(b)'
    BY <1>1, <1>2, <1>6 DEF WasBound
  <1> QED BY <1>2, <1>4, <1>5, <1>6

LEMMA RecordMoved ==
    ASSUME NEW R \in AddressRecord, NEW i \in Holder, NEW r, r = [R EXCEPT !.iface = i, !.version = R.version + 1]
    PROVE  r \in AddressRecord /\ r.version = R.version + 1 /\ r.version > R.version /\ r.iface = i /\ (r.live <=> R.live)
  <1>1. R.version \in Nat /\ R.live \in BOOLEAN /\ R.version + 1 \in Nat \ {0}
    BY DEF AddressRecord
  <1>2. r \in AddressRecord /\ r.version = R.version + 1 /\ r.iface = i
    BY <1>1 DEF AddressRecord
  <1>3. r.live = R.live
    BY DEF AddressRecord
  <1> QED BY <1>1, <1>2, <1>3

LEMMA RecordReleased ==
    ASSUME NEW R \in AddressRecord, NEW r, r = [R EXCEPT !.live = FALSE, !.version = R.version + 1]
    PROVE  r \in AddressRecord /\ r.version > R.version
  <1>1. R.version \in Nat /\ R.version + 1 \in Nat \ {0} /\ R.iface \in Holder
    BY DEF AddressRecord
  <1>2. r \in AddressRecord /\ r.version = R.version + 1
    BY <1>1 DEF AddressRecord
  <1> QED BY <1>1, <1>2

\* The server binds one address: the head of the queue, at its version.
LEMMA Bound ==
    ASSUME BindIInv, ServerBinds
    PROVE  \E ok, commits \in BOOLEAN :
              /\ ok => commits
              /\ patch' = [state |-> "answered", ok |-> ok]
              /\ ~commits => ips' = ips
              /\ commits => LET a == Head(queue)
                            IN  /\ ips[a].live /\ ips[a].version = selection[a]
                                /\ ips' = [ips EXCEPT ![a] = [ips[a] EXCEPT !.iface = target, !.version = ips[a].version + 1]]
  BY DEF ServerBinds

LEMMA BindsOne == ASSUME BindIInv, ServerBinds PROVE BindIInv'
  <1>1. PICK ok \in BOOLEAN, commits \in BOOLEAN :
              /\ ok => commits
              /\ patch' = [state |-> "answered", ok |-> ok]
              /\ ~commits => ips' = ips
              /\ commits =>
                    /\ ips[Head(queue)].version = selection[Head(queue)]
                    /\ ips' = [ips EXCEPT ![Head(queue)] =
                                 [ips[Head(queue)] EXCEPT !.iface = target, !.version = ips[Head(queue)].version + 1]]
              /\ commits => ips[Head(queue)].live
    BY Bound
  <1>2. UNCHANGED <<target, candidates, selection, queue, batch, outcomes, reads>>
    BY DEF ServerBinds
  <1>3. patch' \in [state : {"none", "sent", "answered"}, ok : BOOLEAN] /\ patch'.ok = ok
    BY <1>1
  <1>4. CASE commits /\ Head(queue) \in Addresses
    <2>0. PICK a : a = Head(queue)
      OBVIOUS
    <2>1. PICK r : r = [ips[a] EXCEPT !.iface = target, !.version = ips[a].version + 1]
      OBVIOUS
    <2>2. ips[a] \in AddressRecord /\ target \in Holder
      BY <1>4, <2>0 DEF BindIInv, BindTyped, Holder
    <2>3. /\ r \in AddressRecord /\ r.version = ips[a].version + 1 /\ r.version > ips[a].version
          /\ (r.live <=> ips[a].live) /\ r.iface = target
      <3>1. \A R \in AddressRecord, i \in Holder : r = [R EXCEPT !.iface = i, !.version = R.version + 1]
               => r \in AddressRecord /\ r.version = R.version + 1 /\ r.version > R.version /\ r.iface = i /\ (r.live <=> R.live)
        BY RecordMoved
      <3> QED BY <2>1, <2>2, <3>1
    <2>4. ips' = [ips EXCEPT ![a] = r] /\ ips[a].version = selection[a] /\ ips[a].live
      BY <1>1, <1>4, <2>0, <2>1
    <2>5. /\ ips' \in [Addresses -> AddressRecord]
          /\ \A b \in Addresses : WasFree(b, selection[b])' /\ WasFree(b, candidates.versions[b])'
          /\ \A s \in reads', b \in Addresses : s.kind = "candidates" => WasFree(b, s.found[b])'
          /\ \A b \in Addresses : WasBound(b) => WasBound(b)'
      BY <1>2, <1>4, <2>0, <2>3, <2>4, AddressWritten
    <2>6. ips'[a] = r /\ selection[a] \in Nat
      BY <1>4, <2>0, <2>4 DEF BindIInv, BindTyped, AnyVersions
    <2>7. Submitting => WasBound(a)'
      BY <1>2, <2>2, <2>3, <2>4, <2>6 DEF BindIInv, WasBound
    <2>8. BindTyped'
      BY <1>2, <1>3, <2>5 DEF BindIInv, BindTyped
    <2>9. Head(queue)' = a /\ (Submitting' <=> Submitting)
      BY <1>2, <2>0 DEF Submitting
    <2>10. \A b \in Addresses : WasBound(b) => WasBound(b)'
      BY <2>5
    <2>11. \A b \in Addresses : (outcomes'[b] = "ok" => WasBound(b)') /\ (outcomes'[b] # "none" => target' # Unbound)
      BY <1>2, <2>10 DEF BindIInv
    <2>12. Submitting' => target' # Unbound /\ selection' = batch'
      BY <1>2, <2>9 DEF BindIInv
    <2> QED BY <2>5, <2>7, <2>8, <2>9, <2>11, <2>12 DEF BindIInv
  <1>5. CASE ~(commits /\ Head(queue) \in Addresses)
    <2>1. ips' = ips
      BY <1>1, <1>5 DEF BindIInv, BindTyped
    <2>2. Head(queue) \in Addresses => ok = FALSE
      BY <1>1, <1>5
    <2>3. BindTyped'
      BY <1>2, <1>3, <2>1 DEF BindIInv, BindTyped
    <2> QED BY <1>2, <1>3, <2>1, <2>2, <2>3 DEF BindIInv, WasFree, WasBound, Submitting
  <1> QED BY <1>4, <1>5

LEMMA AnswersBinding == ASSUME BindIInv, BindingAnswer PROVE BindIInv'
  <1> DEFINE a == Head(queue)
  <1>1. /\ patch.state = "answered" /\ Len(queue) > 1
        /\ outcomes' = [outcomes EXCEPT ![a] = OutcomeOf(patch.ok)]
        /\ patch' = [state |-> "sent", ok |-> FALSE]
        /\ UNCHANGED <<ips, target, candidates, selection, batch, reads>>
    BY DEF BindingAnswer
  <1>2. Submitting
    BY <1>1 DEF Submitting
  <1>3. OutcomeOf(patch.ok) \in {"ok", "failed"} /\ (OutcomeOf(patch.ok) = "ok" => patch.ok)
    BY DEF OutcomeOf
  <1>4. /\ outcomes' \in [Addresses -> {"none", "ok", "failed"}]
        /\ \A b \in Addresses : outcomes'[b] = "ok" => outcomes[b] = "ok" \/ (b = a /\ patch.ok)
    BY <1>1, <1>3 DEF BindIInv, BindTyped
  <1>5. /\ target' # Unbound /\ selection' = batch'
        /\ \A b \in Addresses : outcomes'[b] = "ok" => WasBound(b)
    BY <1>1, <1>2, <1>4 DEF BindIInv
  <1>6. patch' \in [state : {"none", "sent", "answered"}, ok : BOOLEAN] /\ patch'.state = "sent"
    BY <1>1
  <1>7. BindTyped'
    BY <1>1, <1>4, <1>6 DEF BindIInv, BindTyped
  <1> HIDE DEF a
  <1> QED BY <1>1, <1>2, <1>5, <1>6, <1>7 DEF BindIInv, WasFree, WasBound

LEMMA EndsBinding == ASSUME BindIInv, LastBindingAnswer PROVE BindIInv'
  <1>1. PICK results : results = [outcomes EXCEPT ![Head(queue)] = OutcomeOf(patch.ok)]
    OBVIOUS
  <1>2. /\ outcomes' = results /\ Reloads(\E a \in Addresses : results[a] = "ok")
        /\ queue' = <<>> /\ patch' = NoPatch /\ selection' = NoVersions
        /\ UNCHANGED <<ips, target, candidateQ, batch>>
    BY <1>1 DEF LastBindingAnswer
  <1>3. outcomes' \in [Addresses -> {"none", "ok", "failed"}]
    BY <1>1, <1>2 DEF BindIInv, BindTyped, OutcomeOf
  <1>4. /\ NoVersions \in AnyVersions
        /\ \A a \in Addresses : NoVersions[a] = 0 /\ WasFree(a, NoVersions[a])
    BY NoVersionsFree DEF BindIInv
  <1>5. /\ candidates'.versions \in AnyVersions
        /\ \A a \in Addresses : WasFree(a, candidates'.versions[a])
        /\ \A r \in reads' : IsRead(r)
        /\ \A r \in reads', a \in Addresses : r.kind = "candidates" => WasFree(a, r.found[a])
    <2>1. CASE UNCHANGED <<boundIps, candidates, reads>>
      BY <2>1 DEF BindIInv, BindTyped
    <2>2. CASE /\ candidates' = Cache("loading", NoVersions)
               /\ reads' = LeftCandidates(reads) \union {Read("candidates", Unbound, candidateQ)}
                              \union IF boundView = target THEN {Read("bound", target, "")} ELSE {}
      <3>1. IsRead(Read("candidates", Unbound, candidateQ)) /\ Read("candidates", Unbound, candidateQ).found = NoVersions
        BY NewRead DEF BindIInv
      <3>2. IsRead(Read("bound", target, "")) /\ Read("bound", target, "").found = NoVersions
        BY NewRead DEF BindIInv
      <3>3. \A r \in reads' : IsRead(r) /\ (r.found = NoVersions \/ \E s \in reads : r.kind = s.kind /\ r.found = s.found)
        BY <2>2, <3>1, <3>2, LeftStays DEF BindIInv, BindTyped
      <3>4. candidates'.versions \in AnyVersions /\ \A a \in Addresses : WasFree(a, candidates'.versions[a])
        BY <1>4, <2>2, CacheFields
      <3>5. \A r \in reads', a \in Addresses : r.kind = "candidates" => WasFree(a, r.found[a])
        BY <1>4, <3>3 DEF BindIInv
      <3> QED BY <3>3, <3>4, <3>5
    <2> QED BY <1>2, <2>1, <2>2 DEF Reloads
  <1>6. NoPatch \in [state : {"none", "sent", "answered"}, ok : BOOLEAN]
    BY DEF NoPatch
  <1>7. BindTyped'
    BY <1>2, <1>3, <1>4, <1>5, <1>6 DEF BindIInv, BindTyped
  <1>8. /\ target # Unbound
        /\ \A a \in Addresses : outcomes'[a] = "ok" => WasBound(a)
    <2>1. Submitting /\ patch.state = "answered"
      BY DEF LastBindingAnswer, Submitting
    <2>2. OutcomeOf(patch.ok) = "ok" => patch.ok
      BY DEF OutcomeOf
    <2>3. \A a \in Addresses : outcomes'[a] = "ok" => outcomes[a] = "ok" \/ (a = Head(queue) /\ patch.ok)
      BY <1>1, <1>2, <2>2 DEF BindIInv, BindTyped
    <2> QED BY <2>1, <2>3 DEF BindIInv
  <1>9. \A a \in Addresses : WasFree(a, selection[a])' /\ WasFree(a, candidates.versions[a])'
    BY <1>2, <1>4, <1>5 DEF WasFree
  <1>10. \A r \in reads', a \in Addresses : r.kind = "candidates" => WasFree(a, r.found[a])'
    BY <1>2, <1>5 DEF WasFree
  <1>11. \A a \in Addresses : (outcomes[a] = "ok" => WasBound(a))' /\ (outcomes[a] # "none" => target # Unbound)'
    BY <1>2, <1>8 DEF WasBound
  <1>12. ~Submitting'
    BY <1>2 DEF Submitting
  <1> QED BY <1>7, <1>9, <1>10, <1>11, <1>12 DEF BindIInv


LEMMA ListsAddresses == ASSUME BindIInv, NEW r \in reads, ServerLists(r) PROVE BindIInv'
  <1>1. PICK s : s = [r EXCEPT !.done = TRUE, !.found = IF r.kind = "bound" THEN VersionsOf(ips)
                                                        ELSE CandidateQuery(r.q, ips)]
    OBVIOUS
  <1>2. /\ reads' = (reads \ {r}) \union {s}
        /\ UNCHANGED <<ips, queue, batch, patch, target, selection, candidates, outcomes>>
    BY <1>1 DEF ServerLists
  <1>3. PICK K : r \in ReadOf(K)
    BY DEF BindIInv, BindTyped, IsRead
  <1>4. \A a \in Addresses : ips[a].version \in Nat
    BY DEF BindIInv, BindTyped, AddressRecord
  <1>5. VersionsOf(ips) \in AnyVersions /\ CandidateQuery(r.q, ips) \in AnyVersions
    BY <1>4 DEF VersionsOf, CandidateQuery, AnyVersions
  <1>6. s \in ReadOf(K) /\ s.kind = r.kind /\ (s.kind = "candidates" => s.found = CandidateQuery(r.q, ips))
    BY <1>1, <1>3, <1>5 DEF ReadOf
  <1>7. ASSUME NEW a \in Addresses PROVE WasFree(a, CandidateQuery(r.q, ips)[a])
    <2>1. CASE ips[a].live /\ ips[a].iface = Unbound /\ (r.q = "" \/ a = 1)
      <3>1. CandidateQuery(r.q, ips)[a] = ips[a].version
        BY <2>1 DEF CandidateQuery
      <3>2. WasFree(a, ips[a].version)
        <4>1. ips[a].live /\ ips[a].iface = Unbound
          BY <2>1
        <4>2. ips[a].version <= ips[a].version
          BY <1>4
        <4> QED BY <4>1, <4>2, Zenon DEF WasFree
      <3> QED BY <3>1, <3>2
    <2>2. CASE ~(ips[a].live /\ ips[a].iface = Unbound /\ (r.q = "" \/ a = 1))
      <3>1. CandidateQuery(r.q, ips)[a] = 0
        BY <2>2 DEF CandidateQuery
      <3> QED BY <1>4, <3>1 DEF WasFree
    <2> QED BY <2>1, <2>2
  <1>8. /\ \A t \in reads' : IsRead(t)
        /\ \A t \in reads', a \in Addresses : t.kind = "candidates" => WasFree(a, t.found[a])
    BY <1>2, <1>6, <1>7 DEF BindIInv, BindTyped, IsRead
  <1> QED BY <1>2, <1>8, BindMoves DEF BindIInv, BindTyped

LEMMA ReadsArrive ==
    ASSUME BindIInv, NEW r \in reads, BoundIpsArrive(r) \/ CandidatesArrive(r) \/ ReadFails(r)
    PROVE  BindIInv'
  <1>1. reads' = reads \ {r} /\ UNCHANGED <<ips, queue, batch, patch, target, selection, outcomes>>
    BY DEF BoundIpsArrive, CandidatesArrive, ReadFails
  <1>2. \/ candidates' = candidates \/ candidates' = Cache("error", NoVersions)
        \/ r.kind = "candidates" /\ candidates' = Cache("success", r.found)
    BY DEF BoundIpsArrive, CandidatesArrive, ReadFails
  <1>3. r.found \in AnyVersions
    BY DEF BindIInv, BindTyped, IsRead, ReadOf
  <1>4. candidates'.versions \in AnyVersions /\ \A a \in Addresses : WasFree(a, candidates'.versions[a])
    BY <1>2, <1>3, CacheFields, NoVersionsFree DEF BindIInv, BindTyped
  <1> QED BY <1>1, <1>4, BindMoves DEF BindIInv, BindTyped

LEMMA OthersWriteAddress == ASSUME BindIInv, NEW a \in Addresses, OthersWrite(a) PROVE BindIInv'
  <1>1. UNCHANGED <<target, candidates, selection, queue, batch, patch, outcomes, reads>>
    BY DEF OthersWrite
  <1>3. ips[a] \in AddressRecord /\ {ips[a].iface, Elsewhere, Unbound} \subseteq Holder
    BY DEF BindIInv, BindTyped, AddressRecord, Holder
  <1>7. \/ \E i \in {ips[a].iface, Elsewhere, Unbound} :
              ips' = [ips EXCEPT ![a] = [ips[a] EXCEPT !.iface = i, !.version = ips[a].version + 1]]
        \/ ips' = [ips EXCEPT ![a] = [ips[a] EXCEPT !.live = FALSE, !.version = ips[a].version + 1]]
    BY DEF OthersWrite
  <1>2. PICK r : /\ ips' = [ips EXCEPT ![a] = r]
                 /\ \/ \E i \in Holder : r = [ips[a] EXCEPT !.iface = i, !.version = ips[a].version + 1]
                    \/ r = [ips[a] EXCEPT !.live = FALSE, !.version = ips[a].version + 1]
    BY <1>3, <1>7
  <1>4. r \in AddressRecord /\ r.version > ips[a].version
    BY <1>2, <1>3, RecordMoved, RecordReleased
  <1>5. /\ ips' \in [Addresses -> AddressRecord]
        /\ \A b \in Addresses : WasFree(b, selection[b])' /\ WasFree(b, candidates.versions[b])'
        /\ \A s \in reads', b \in Addresses : s.kind = "candidates" => WasFree(b, s.found[b])'
        /\ \A b \in Addresses : WasBound(b) => WasBound(b)'
    BY <1>1, <1>2, <1>4, AddressWritten
  <1>6. BindTyped'
    BY <1>1, <1>5 DEF BindIInv, BindTyped
  <1>8. Submitting' <=> Submitting
    BY <1>1 DEF Submitting
  <1> QED BY <1>1, <1>5, <1>6, <1>8 DEF BindIInv

LEMMA BindingStepsKeep == ASSUME BindIInv, [BindNext]_bindVars PROVE BindIInv'
  <1>1. CASE BindStep
    BY <1>1, Toggles, OpensBinding, RefreshesBound, ClosesBinding, SearchesCandidates, SelectsCandidate, SubmitsBindings
       DEF BindStep
  <1>2. CASE ReadStep
    BY <1>2, ReadsArrive DEF ReadStep
  <1>3. CASE PatchStep
    BY <1>3, BindsOne, AnswersBinding, EndsBinding DEF PatchStep
  <1>4. CASE \E r \in reads : ServerLists(r)
    BY <1>4, ListsAddresses
  <1>5. CASE \E a \in Contested : OthersWrite(a)
    BY <1>5, OthersWriteAddress, BindingsAssumption DEF Addresses
  <1>6. CASE UNCHANGED bindVars
    BY <1>6 DEF bindVars, BindIInv, BindTyped, WasFree, WasBound, Submitting
  <1> QED BY <1>1, <1>2, <1>3, <1>4, <1>5, <1>6 DEF BindNext

LEMMA AlwaysBindIInv == BindSpec => []BindIInv
  <1>1. BindInit => BindIInv
    BY BindInitially
  <1>2. BindIInv /\ [BindNext]_bindVars => BindIInv'
    BY BindingStepsKeep
  <1> QED BY <1>1, <1>2, PTL DEF BindSpec

\* Only the server's answer to the PATCH in flight writes an address and
\* the request in one step.
LEMMA OnlyServerBinds ==
    ASSUME [BindNext]_bindVars, ips' # ips, patch' # patch
    PROVE  ServerBinds
  <1>1. ~BindStep
    BY DEF BindStep, ToggleBoundIps, OpenBinding, RefreshBoundIps, CloseBinding, SearchCandidates,
           ToggleCandidate, SubmitBindings
  <1>2. ~ReadStep
    BY DEF ReadStep, BoundIpsArrive, CandidatesArrive, ReadFails
  <1>3. ~BindingAnswer /\ ~LastBindingAnswer
    BY DEF BindingAnswer, LastBindingAnswer
  <1>4. ~\E r \in reads : ServerLists(r)
    BY DEF ServerLists
  <1>5. ~\E a \in Contested : OthersWrite(a)
    BY DEF OthersWrite
  <1>6. ~UNCHANGED bindVars
    BY DEF bindVars
  <1> QED BY <1>1, <1>2, <1>3, <1>4, <1>5, <1>6 DEF BindNext, PatchStep

\* A binding never takes an address that others bound, moved or released
\* after it was selected: the version sent is the one its row showed free.
THEOREM BindingNeverSteals == BindSpec => NeverSteals
  <1> DEFINE Free == patch.state = "sent" /\ ips' # ips /\ patch' # patch
                        => ips[Head(queue)].live /\ ips[Head(queue)].iface = Unbound
  <1>1. ASSUME BindIInv, [BindNext]_bindVars, ips' # ips, patch' # patch
        PROVE  ips[Head(queue)].live /\ ips[Head(queue)].iface = Unbound
    <2>1. ServerBinds
      BY <1>1, OnlyServerBinds
    <2>2. PICK a : a = Head(queue)
      OBVIOUS
    <2>3. /\ ips[a].live /\ ips[a].version = selection[a]
          /\ ips' = [ips EXCEPT ![a] = [ips[a] EXCEPT !.iface = target, !.version = ips[a].version + 1]]
      BY <1>1, <2>1, <2>2, Bound
    <2>4. a \in Addresses
      BY <1>1, <2>3 DEF BindIInv, BindTyped
    <2>5. ips[a].version > 0
      BY <1>1, <2>4 DEF BindIInv, BindTyped, AddressRecord
    <2>6. WasFree(a, selection[a])
      BY <1>1, <2>4 DEF BindIInv
    <2> QED BY <2>2, <2>3, <2>5, <2>6 DEF WasFree
  <1>2. BindIInv /\ [BindNext]_bindVars => [Free]_bindVars
    BY <1>1
  <1>3. BindSpec => [][Free]_bindVars
    BY <1>2, AlwaysBindIInv, PTL DEF BindSpec
  <1> QED BY <1>3 DEF NeverSteals

-----------------------------------------------------------------------------
(* The types of the binding panel and its dialog.                          *)

BoundState == [kind : {"none", "loading", "success", "error"}, versions : Versions]
CandidateState == [kind : {"loading", "success", "error"}, versions : Versions]
ReadFits(r) == r.found \in Versions /\ (r.kind = "bound" => r.iface \in Ifaces)

BindShaped ==
    /\ ips \in [Addresses -> Bindable]
    /\ boundIps \in [Ifaces -> BoundState] /\ boundView \in Ifaces \union {Unbound}
    /\ candidates \in CandidateState /\ candidateQ \in Queries
    /\ selection \in Versions /\ queue \in Seq(Addresses) /\ batch \in Versions
    /\ heard \in [Ifaces -> Versions]
    /\ \A r \in reads : ReadFits(r)

LEMMA NoVersionsBounded ==
    /\ LastWrite \in Nat \ {0} /\ NoVersions \in Versions
    /\ \A kind \in {"none", "loading", "error"} : Cache(kind, NoVersions) \in BoundState
    /\ \A kind \in {"loading", "error"} : Cache(kind, NoVersions) \in CandidateState
  <1>0. LastWrite \in Nat \ {0}
    BY BindingsAssumption
  <1>1. LastWrite \in Nat \ {0} /\ 0 \in 0 .. LastWrite
    BY <1>0
  <1>2. NoVersions \in Versions
    BY <1>1 DEF NoVersions, Versions
  <1> QED BY <1>1, <1>2 DEF Cache, BoundState, CandidateState

\* The queue of a submission: the addresses selected, in their order.
LEMMA OrderedAddresses == \A chosen : Ordered(chosen) \in Seq(Addresses)
  <1> SUFFICES ASSUME NEW chosen PROVE Ordered(chosen) \in Seq(Addresses)
    OBVIOUS
  <1> DEFINE S == {a \in Addresses : chosen[a] > 0}
             At(k) == CHOOSE a \in S : Cardinality({b \in S : b <= a}) = k
  <1>1. LastAddress \in Nat /\ S \subseteq 1 .. LastAddress
    BY BindingsAssumption DEF Addresses
  <1> HIDE DEF S
  <1>2. Cardinality(S) \in Nat /\ \A k \in 1 .. Cardinality(S) : At(k) \in S
    BY <1>1, Places
  <1>3. \A k \in 1 .. Cardinality(S) : At(k) \in Addresses
    BY <1>1, <1>2 DEF Addresses
  <1>4. Ordered(chosen) = [k \in 1 .. Cardinality(S) |-> At(k)]
    BY DEF Ordered, S
  <1> HIDE DEF At
  <1> QED BY <1>2, <1>3, <1>4

LEMMA LeftFits == ASSUME BindIInv, BindShaped PROVE \A r \in LeftCandidates(reads) : ReadFits(r)
  <1> SUFFICES ASSUME NEW r \in LeftCandidates(reads) PROVE ReadFits(r)
    OBVIOUS
  <1>1. PICK s \in reads : r = IF s.kind = "candidates" THEN [s EXCEPT !.cancelled = TRUE] ELSE s
    BY DEF LeftCandidates
  <1>2. PICK K : s \in ReadOf(K)
    BY DEF BindIInv, BindTyped, IsRead
  <1>3. r.kind = s.kind /\ r.found = s.found /\ r.iface = s.iface
    BY <1>1, <1>2 DEF ReadOf
  <1> QED BY <1>1, <1>3 DEF BindShaped, ReadFits

LEMMA NewReadFits ==
    /\ \A i \in Ifaces : ReadFits(Read("bound", i, ""))
    /\ \A q : ReadFits(Read("candidates", Unbound, q))
  BY NoVersionsBounded DEF Read, ReadFits

\* Asking for the addresses of an interface, or for the candidates.
LEMMA AskingShaped ==
    ASSUME BindIInv, BindShaped
    PROVE  /\ \A i \in Ifaces : LoadBoundIps(i) =>
                 boundIps' \in [Ifaces -> BoundState] /\ \A r \in reads' : ReadFits(r)
           /\ \A q \in Queries : LoadCandidates(q) =>
                 candidates' \in CandidateState /\ candidateQ' \in Queries /\ \A r \in reads' : ReadFits(r)
  <1>1. ASSUME NEW i \in Ifaces, LoadBoundIps(i)
        PROVE  boundIps' \in [Ifaces -> BoundState] /\ \A r \in reads' : ReadFits(r)
    <2>1. Cache("loading", NoVersions) \in BoundState
      BY NoVersionsBounded
    <2> QED BY <1>1, <2>1, NewReadFits DEF LoadBoundIps, BindShaped
  <1>2. ASSUME NEW q \in Queries, LoadCandidates(q)
        PROVE  candidates' \in CandidateState /\ candidateQ' \in Queries /\ \A r \in reads' : ReadFits(r)
    BY <1>2, NoVersionsBounded, LeftFits, NewReadFits DEF LoadCandidates
  <1> QED BY <1>1, <1>2

LEMMA PanelShaped == ASSUME BindIInv, BindShaped, BindStep PROVE BindShaped'
  <1>1. ASSUME NEW i \in Ifaces, ToggleBoundIps(i) PROVE BindShaped'
    <2>1. UNCHANGED <<boundIps, reads>> \/ LoadBoundIps(i)
      BY <1>1 DEF ToggleBoundIps
    <2>2. boundIps' \in [Ifaces -> BoundState] /\ \A r \in reads' : ReadFits(r)
      BY <2>1, AskingShaped DEF BindShaped
    <2>3. boundView' \in Ifaces \union {Unbound}
      BY <1>1 DEF ToggleBoundIps
    <2> QED BY <1>1, <2>2, <2>3 DEF ToggleBoundIps, BindShaped
  <1>2. ASSUME NEW i \in Ifaces, OpenBinding(i) PROVE BindShaped'
    BY <1>2, AskingShaped, BindingsAssumption DEF OpenBinding, BindShaped
  <1>3. CASE RefreshBoundIps
    <2>1. boundView \in Ifaces /\ LoadBoundIps(boundView)
      BY <1>3 DEF RefreshBoundIps, BindShaped
    <2>2. boundIps' \in [Ifaces -> BoundState] /\ \A r \in reads' : ReadFits(r)
      BY <2>1, AskingShaped
    <2> QED BY <1>3, <2>2 DEF RefreshBoundIps, BindShaped
  <1>4. CASE CloseBinding
    BY <1>4, NoVersionsBounded, LeftFits, BindingsAssumption DEF CloseBinding, BindShaped
  <1>5. ASSUME NEW q \in Queries, SearchCandidates(q) PROVE BindShaped'
    BY <1>5, AskingShaped DEF SearchCandidates, BindShaped
  <1>6. ASSUME NEW a \in Addresses, ToggleCandidate(a) PROVE BindShaped'
    <2>1. candidates.versions[a] \in 0 .. LastWrite /\ 0 \in 0 .. LastWrite
      BY NoVersionsBounded DEF BindShaped, CandidateState, Versions
    <2>2. selection' \in Versions
      BY <1>6, <2>1 DEF ToggleCandidate, BindShaped, Versions
    <2> QED BY <1>6, <2>2 DEF ToggleCandidate, BindShaped
  <1>7. CASE SubmitBindings
    BY <1>7, OrderedAddresses DEF SubmitBindings, BindShaped
  <1> QED BY <1>1, <1>2, <1>3, <1>4, <1>5, <1>6, <1>7 DEF BindStep

LEMMA ReadShaped ==
    ASSUME BindIInv, BindShaped, NEW r \in reads,
           BoundIpsArrive(r) \/ CandidatesArrive(r) \/ ReadFails(r)
    PROVE  BindShaped'
  <1>1. r.found \in Versions /\ (r.kind = "bound" => r.iface \in Ifaces)
    BY DEF BindShaped, ReadFits
  <1>2. Cache("success", r.found) \in BoundState /\ Cache("success", r.found) \in CandidateState
    BY <1>1 DEF Cache, BoundState, CandidateState
  <1>3. CASE BoundIpsArrive(r)
    BY <1>1, <1>2, <1>3 DEF BoundIpsArrive, BindShaped
  <1>4. CASE CandidatesArrive(r)
    BY <1>2, <1>4 DEF CandidatesArrive, BindShaped
  <1>5. CASE ReadFails(r)
    <2>1. boundIps' \in [Ifaces -> BoundState] /\ candidates' \in CandidateState
      BY <1>1, <1>5, NoVersionsBounded DEF ReadFails, BindShaped
    <2> QED BY <1>5, <2>1 DEF ReadFails, BindShaped
  <1> QED BY <1>3, <1>4, <1>5

LEMMA AddressBounded ==
    ASSUME BindShaped, NEW a \in Addresses
    PROVE  /\ ips[a].version \in 1 .. LastWrite /\ ips[a].version \in Nat /\ ips[a].live \in BOOLEAN
           /\ ips[a].iface \in Ifaces \union {Elsewhere, Unbound}
           /\ \A i \in Ifaces \union {Elsewhere, Unbound} : ips[a].version < LastWrite =>
                 [ips[a] EXCEPT !.iface = i, !.version = ips[a].version + 1] \in Bindable
           /\ ips[a].version < LastWrite =>
                 [ips[a] EXCEPT !.live = FALSE, !.version = ips[a].version + 1] \in Bindable
  <1>1. ips[a] \in Bindable
    BY DEF BindShaped
  <1>2. /\ ips[a].version \in 1 .. LastWrite /\ ips[a].version \in Nat /\ ips[a].live \in BOOLEAN
        /\ ips[a].iface \in Ifaces \union {Elsewhere, Unbound}
    BY <1>1 DEF Bindable
  <1>3. ips[a].version < LastWrite => ips[a].version + 1 \in 1 .. LastWrite
    BY <1>2, NoVersionsBounded
  <1> QED BY <1>1, <1>2, <1>3 DEF Bindable

\* The version heard of a binding is at most that of the address.
LEMMA HeardBounded ==
    ASSUME BindIInv, BindShaped, LastBindingAnswer
    PROVE  heard' \in [Ifaces -> Versions]
  <1>1. PICK results : results = [outcomes EXCEPT ![Head(queue)] = OutcomeOf(patch.ok)]
    OBVIOUS
  <1>2. heard' = [heard EXCEPT ![target] = [a \in Addresses |->
                     IF results[a] = "ok" THEN selection[a] + 1 ELSE heard[target][a]]]
    BY <1>1 DEF LastBindingAnswer
  <1>3. Submitting /\ Head(queue) \in Addresses /\ patch.state = "answered"
    <2>1. queue \in Seq(Addresses) /\ Len(queue) = 1 /\ patch.state = "answered"
      BY DEF LastBindingAnswer, BindShaped
    <2>2. queue # <<>>
      <3>1. Len(queue) = 1
        BY <2>1
      <3> QED BY <3>1
    <2>3. Head(queue) \in Addresses
      <3> HIDE DEF Addresses
      <3> QED BY <2>1, <2>2
    <2> QED BY <2>1, <2>2, <2>3 DEF Submitting
  <1>4. target \in Ifaces
    BY <1>3 DEF BindIInv, BindTyped
  <1>5. ASSUME NEW a \in Addresses, results[a] = "ok" PROVE selection[a] + 1 \in 0 .. LastWrite
    <2>1. WasBound(a)
      <3>1. CASE a = Head(queue)
        <4>1. OutcomeOf(patch.ok) = "ok"
          BY <1>1, <1>5, <3>1 DEF BindIInv, BindTyped
        <4>2. patch.ok
          BY <4>1 DEF OutcomeOf
        <4> QED BY <1>3, <3>1, <4>2 DEF BindIInv
      <3>2. CASE a # Head(queue)
        <4>1. outcomes[a] = "ok"
          BY <1>1, <1>5, <3>2 DEF BindIInv, BindTyped
        <4> QED BY <1>3, <4>1 DEF BindIInv
      <3> QED BY <3>1, <3>2
    <2>2. selection[a] = batch[a] /\ batch[a] \in Nat /\ ips[a].version \in 1 .. LastWrite /\ LastWrite \in Nat
      <3>1. selection = batch /\ batch[a] \in 0 .. LastWrite
        BY <1>3 DEF BindIInv, BindShaped, Versions
      <3>2. ips[a].version \in 1 .. LastWrite /\ LastWrite \in Nat
        BY AddressBounded, NoVersionsBounded
      <3> QED BY <3>1, <3>2
    <2> QED BY <2>1, <2>2 DEF WasBound
  <1>6. \A a \in Addresses : heard[target][a] \in 0 .. LastWrite
    BY <1>4 DEF BindShaped, Versions
  <1>7. [a \in Addresses |-> IF results[a] = "ok" THEN selection[a] + 1 ELSE heard[target][a]] \in Versions
    BY <1>5, <1>6 DEF Versions
  <1> QED BY <1>2, <1>4, <1>7 DEF BindShaped

LEMMA PatchShaped == ASSUME BindIInv, BindShaped, PatchStep PROVE BindShaped'
  <1>1. CASE ServerBinds
    <2>1. PICK a : a = Head(queue)
      OBVIOUS
    <2>2. \/ ips' = ips
          \/ /\ ips[a].version < LastWrite
             /\ ips' = [ips EXCEPT ![a] = [ips[a] EXCEPT !.iface = target, !.version = ips[a].version + 1]]
      BY <1>1, <2>1 DEF ServerBinds
    <2>3. ips' \in [Addresses -> Bindable]
      <3>1. CASE a \in Addresses
        <4>1. target \in Ifaces \union {Elsewhere, Unbound} /\ ips \in [Addresses -> Bindable]
          BY DEF BindIInv, BindTyped, BindShaped
        <4>2. ips[a].version < LastWrite =>
                 [ips[a] EXCEPT !.iface = target, !.version = ips[a].version + 1] \in Bindable
          BY <3>1, <4>1, AddressBounded
        <4> QED BY <2>2, <4>1, <4>2
      <3>2. CASE a \notin Addresses
        BY <2>2, <3>2 DEF BindShaped
      <3> QED BY <3>1, <3>2
    <2> QED BY <1>1, <2>3 DEF ServerBinds, BindShaped
  <1>2. CASE BindingAnswer
    <2>1. queue' \in Seq(Addresses)
      BY <1>2 DEF BindingAnswer, BindShaped
    <2> QED BY <1>2, <2>1 DEF BindingAnswer, BindShaped
  <1>3. CASE LastBindingAnswer
    <2>1. target \in Ifaces
      BY <1>3 DEF LastBindingAnswer, Submitting, BindIInv, BindTyped
    <2>2. candidateQ \in Queries
      BY DEF BindShaped
    <2>3. PICK ok : Reloads(ok)
      BY <1>3 DEF LastBindingAnswer
    <2>4. /\ candidates' \in CandidateState /\ boundIps' \in [Ifaces -> BoundState]
          /\ \A r \in reads' : ReadFits(r)
      <3>1. CASE ~ok
        BY <2>3, <3>1 DEF Reloads, BindShaped
      <3>2. CASE ok
        <4>1. /\ candidates' = Cache("loading", NoVersions)
              /\ boundIps' = [boundIps EXCEPT ![target] =
                                 Cache(IF boundView = target THEN "loading" ELSE "none", NoVersions)]
              /\ reads' = LeftCandidates(reads) \union {Read("candidates", Unbound, candidateQ)}
                             \union IF boundView = target THEN {Read("bound", target, "")} ELSE {}
          BY <2>3, <3>2 DEF Reloads
        <4>2. Cache(IF boundView = target THEN "loading" ELSE "none", NoVersions) \in BoundState
          BY NoVersionsBounded
        <4> QED BY <2>1, <4>1, <4>2, NoVersionsBounded, LeftFits, NewReadFits DEF BindShaped
      <3> QED BY <3>1, <3>2
    <2>5. queue' \in Seq(Addresses) /\ selection' \in Versions
      BY <1>3, NoVersionsBounded DEF LastBindingAnswer
    <2> QED BY <1>3, <2>4, <2>5, HeardBounded DEF LastBindingAnswer, BindShaped
  <1> QED BY <1>1, <1>2, <1>3 DEF PatchStep

LEMMA AnsweredShaped == ASSUME BindIInv, BindShaped, NEW r \in reads, ServerLists(r) PROVE BindShaped'
  <1>1. PICK s : s = [r EXCEPT !.done = TRUE, !.found = IF r.kind = "bound" THEN VersionsOf(ips)
                                                        ELSE CandidateQuery(r.q, ips)]
    OBVIOUS
  <1>2. reads' = (reads \ {r}) \union {s}
    BY <1>1 DEF ServerLists
  <1>3. PICK K : r \in ReadOf(K)
    BY DEF BindIInv, BindTyped, IsRead
  <1>4. ASSUME NEW a \in Addresses PROVE ips[a].version \in 0 .. LastWrite /\ 0 \in 0 .. LastWrite
    <2>1. ips[a].version \in 1 .. LastWrite /\ LastWrite \in Nat
      BY AddressBounded, NoVersionsBounded
    <2> QED BY <2>1
  <1>5. VersionsOf(ips) \in Versions /\ CandidateQuery(r.q, ips) \in Versions
    BY <1>4 DEF VersionsOf, CandidateQuery, Versions
  <1>6. s.found \in Versions /\ s.kind = r.kind /\ s.iface = r.iface
    BY <1>1, <1>3, <1>5 DEF ReadOf
  <1>7. \A t \in reads' : ReadFits(t)
    BY <1>2, <1>6 DEF BindShaped, ReadFits
  <1> QED BY <1>7 DEF ServerLists, BindShaped

LEMMA OthersShaped == ASSUME BindShaped, NEW a \in Addresses, OthersWrite(a) PROVE BindShaped'
  <1>1. ips[a].version < LastWrite
    <2>1. ips[a].version \in Nat /\ LastWrite \in Nat
      BY AddressBounded, NoVersionsBounded
    <2> QED BY <2>1 DEF OthersWrite
  <1>2. \/ \E i \in {ips[a].iface, Elsewhere, Unbound} :
              ips' = [ips EXCEPT ![a] = [ips[a] EXCEPT !.iface = i, !.version = ips[a].version + 1]]
        \/ ips' = [ips EXCEPT ![a] = [ips[a] EXCEPT !.live = FALSE, !.version = ips[a].version + 1]]
    BY DEF OthersWrite
  <1>3. PICK b : b \in Bindable /\ ips' = [ips EXCEPT ![a] = b]
    BY <1>1, <1>2, AddressBounded
  <1>4. ips' \in [Addresses -> Bindable]
    BY <1>3 DEF BindShaped
  <1> QED BY <1>4 DEF OthersWrite, BindShaped

LEMMA AlwaysBindShaped == BindSpec => [](BindIInv /\ BindShaped)
  <1>1. BindInit => BindShaped
    <2> SUFFICES ASSUME BindInit PROVE BindShaped
      OBVIOUS
    <2>1. Cache("none", NoVersions) \in BoundState /\ Cache("loading", NoVersions) \in CandidateState
      BY NoVersionsBounded
    <2>2. boundIps \in [Ifaces -> BoundState] /\ heard \in [Ifaces -> Versions]
      BY <2>1, NoVersionsBounded DEF BindInit
    <2>3. ips \in [Addresses -> Bindable]
      <3>1. {b \in Bindable : b.version = 1 /\ b.live /\ b.iface = Unbound} \subseteq Bindable
        OBVIOUS
      <3> QED BY <3>1 DEF BindInit
    <2>4. queue \in Seq(Addresses) /\ batch \in Versions /\ reads = {} /\ candidateQ \in Queries
      <3>1. queue = <<>> /\ batch = NoVersions /\ reads = {} /\ candidateQ = ""
        BY DEF BindInit
      <3>2. "" \in Queries
        BY BindingsAssumption
      <3>3. queue \in Seq(Addresses)
        <4>1. <<>> \in Seq(Addresses)
          OBVIOUS
        <4> QED BY <3>1, <4>1, Zenon
      <3>4. batch \in Versions /\ reads = {}
        BY <3>1, NoVersionsBounded
      <3>5. candidateQ \in Queries
        BY <3>1, <3>2, Zenon
      <3> QED BY <3>3, <3>4, <3>5
    <2>5. selection \in Versions /\ boundView \in Ifaces \union {Unbound} /\ candidates \in CandidateState
      BY <2>1, NoVersionsBounded DEF BindInit
    <2> QED BY <2>2, <2>3, <2>4, <2>5 DEF BindShaped
  <1>2. BindIInv /\ BindShaped /\ [BindNext]_bindVars => BindShaped'
    <2>1. BindShaped /\ UNCHANGED bindVars => BindShaped'
      BY DEF BindShaped, bindVars
    <2>2. \A a \in Contested : a \in Addresses
      BY BindingsAssumption DEF Addresses
    <2>3. BindIInv /\ BindShaped /\ ReadStep => BindShaped'
      BY ReadShaped DEF ReadStep
    <2> QED BY <2>1, <2>2, <2>3, PanelShaped, PatchShaped, AnsweredShaped, OthersShaped DEF BindNext
  <1> QED BY <1>1, <1>2, AlwaysBindIInv, PTL DEF BindSpec

(* What the panel and the dialog hold is of its types: the queue of a      *)
(* submission only holds addresses, and no version is past the last write. *)
THEOREM BindTyping == BindSpec => []BindTypeOK
  <1>1. BindIInv /\ BindShaped => BindTypeOK
    BY DEF BindIInv, BindTyped, BindShaped, BindTypeOK, BoundState, CandidateState
  <1> QED BY <1>1, AlwaysBindShaped, PTL

(* The addresses submitted, the queue and the results belong together.     *)
Covered ==
    /\ \A a \in Addresses : outcomes[a] # "none" => batch[a] > 0
    /\ \A k \in 1 .. Len(queue) : batch[queue[k]] > 0
    /\ \A a \in Addresses : batch[a] > 0 => outcomes[a] # "none" \/ \E k \in 1 .. Len(queue) : queue[k] = a

\* The queue has every address selected and no other.
LEMMA OrderedCovers ==
    ASSUME NEW chosen
    PROVE  /\ \A k \in 1 .. Len(Ordered(chosen)) : chosen[Ordered(chosen)[k]] > 0
           /\ \A a \in Addresses : chosen[a] > 0 => \E k \in 1 .. Len(Ordered(chosen)) : Ordered(chosen)[k] = a
  <1> DEFINE S == {a \in Addresses : chosen[a] > 0}
             Place(a) == Cardinality({b \in S : b <= a})
             At(k) == CHOOSE a \in S : Place(a) = k
  <1>1. LastAddress \in Nat /\ S \subseteq 1 .. LastAddress
    BY BindingsAssumption DEF Addresses
  <1>2. \A a \in S : chosen[a] > 0
    OBVIOUS
  <1>3. \A a \in Addresses : chosen[a] > 0 => a \in S
    OBVIOUS
  <1>4. Ordered(chosen) = [k \in 1 .. Cardinality(S) |-> At(k)]
    BY DEF Ordered
  <1> HIDE DEF S
  <1>5. /\ Cardinality(S) \in Nat
        /\ \A a \in S : Place(a) \in 1 .. Cardinality(S)
        /\ \A a, b \in S : Place(a) = Place(b) => a = b
        /\ \A k \in 1 .. Cardinality(S) : \E a \in S : Place(a) = k
    BY <1>1, Places
  <1> HIDE DEF Place
  <1>6. /\ \A k \in 1 .. Cardinality(S) : At(k) \in S /\ Place(At(k)) = k
        /\ \A a \in S : At(Place(a)) = a
    BY <1>5
  <1> HIDE DEF At
  <1>7. Len(Ordered(chosen)) = Cardinality(S) /\ \A k \in 1 .. Cardinality(S) : Ordered(chosen)[k] = At(k)
    BY <1>4, <1>5
  <1> QED BY <1>2, <1>3, <1>5, <1>6, <1>7

\* An answer moves the head of the queue to the results.
LEMMA AnswerCovers ==
    ASSUME BindIInv, BindShaped, Covered, queue # <<>>, queue' = Tail(queue), UNCHANGED batch,
           outcomes' = [outcomes EXCEPT ![Head(queue)] = OutcomeOf(patch.ok)]
    PROVE  Covered'
  <1>1. PICK a : a = Head(queue)
    OBVIOUS
  <1>2. /\ a \in Addresses /\ a = queue[1] /\ 1 \in 1 .. Len(queue)
        /\ Len(queue') \in Nat /\ Len(queue) = Len(queue') + 1
        /\ \A k \in 1 .. Len(queue') : k + 1 \in 1 .. Len(queue) /\ queue'[k] = queue[k + 1]
    <2>1. queue \in Seq(Addresses)
      BY DEF BindShaped
    <2> HIDE DEF Addresses
    <2> QED BY <1>1, <2>1
  <1>3. outcomes'[a] # "none" /\ \A b \in Addresses \ {a} : outcomes'[b] = outcomes[b]
    BY <1>1, <1>2 DEF BindIInv, BindTyped, OutcomeOf
  <1>4. batch[a] > 0
    BY <1>2 DEF Covered
  <1>5. \A b \in Addresses : outcomes'[b] # "none" => batch'[b] > 0
    BY <1>3, <1>4 DEF Covered
  <1>6. \A k \in 1 .. Len(queue') : batch'[queue'[k]] > 0
    BY <1>2 DEF Covered
  <1>7. ASSUME NEW b \in Addresses, batch'[b] > 0, outcomes'[b] = "none"
        PROVE  \E k \in 1 .. Len(queue') : queue'[k] = b
    <2>1. b # a /\ outcomes[b] = "none"
      BY <1>3, <1>7
    <2>2. PICK k \in 1 .. Len(queue) : queue[k] = b
      BY <1>7, <2>1 DEF Covered
    <2>3. k # 1
      BY <1>2, <2>1, <2>2
    <2>4. k - 1 \in 1 .. Len(queue') /\ (k - 1) + 1 = k
      BY <1>2, <2>3
    <2> QED BY <1>2, <2>2, <2>4
  <1> QED BY <1>5, <1>6, <1>7 DEF Covered

LEMMA AlwaysCovered == BindSpec => [](BindIInv /\ BindShaped /\ Covered)
  <1>1. BindInit => Covered
    <2> SUFFICES ASSUME BindInit PROVE Covered
      OBVIOUS
    <2>1. /\ queue = <<>> /\ Len(queue) = 0 /\ batch = NoVersions
          /\ \A a \in Addresses : outcomes[a] = "none"
      BY DEF BindInit
    <2>2. \A a \in Addresses : ~(batch[a] > 0)
      BY <2>1 DEF NoVersions
    <2> QED BY <2>1, <2>2 DEF Covered
  <1>2. ASSUME BindIInv, BindShaped, Covered, [BindNext]_bindVars PROVE Covered'
    <2>1. CASE UNCHANGED <<outcomes, batch, queue>>
      BY <1>2, <2>1 DEF Covered
    <2>2. CASE SubmitBindings
      <3>1. queue' = Ordered(selection) /\ batch' = selection /\ outcomes' = [a \in Addresses |-> "none"]
        BY <2>2 DEF SubmitBindings
      <3> QED BY <3>1, OrderedCovers DEF Covered
    <2>3. CASE CloseBinding
      <3>1. /\ queue' = <<>> /\ Len(queue') = 0 /\ batch' = NoVersions
            /\ outcomes' = [a \in Addresses |-> "none"]
        BY <2>3 DEF CloseBinding, Submitting
      <3>2. \A a \in Addresses : ~(batch'[a] > 0)
        BY <3>1 DEF NoVersions
      <3> QED BY <3>1, <3>2 DEF Covered
    <2>4. CASE BindingAnswer
      <3>1. /\ queue # <<>> /\ queue' = Tail(queue) /\ UNCHANGED batch
            /\ outcomes' = [outcomes EXCEPT ![Head(queue)] = OutcomeOf(patch.ok)]
        BY <2>4 DEF BindingAnswer
      <3> QED BY <1>2, <3>1, AnswerCovers
    <2>5. CASE LastBindingAnswer
      <3>1. /\ Len(queue) = 1 /\ queue' = <<>> /\ UNCHANGED batch
            /\ outcomes' = [outcomes EXCEPT ![Head(queue)] = OutcomeOf(patch.ok)]
        BY <2>5 DEF LastBindingAnswer
      <3>2. queue # <<>> /\ Tail(queue) = <<>>
        <4>1. queue \in Seq(Addresses)
          BY <1>2 DEF BindShaped
        <4>2. queue # <<>>
          <5>1. Len(<<>>) # 1
            OBVIOUS
          <5> QED BY <3>1, <5>1
        <4>3. Tail(queue) \in Seq(Addresses) /\ Len(Tail(queue)) = 0
          <5> HIDE DEF Addresses
          <5> QED BY <3>1, <4>1, <4>2
        <4>4. \A s \in Seq(Addresses) : Len(s) = 0 => s = <<>>
          <5> HIDE DEF Addresses
          <5> QED OBVIOUS
        <4> QED BY <4>2, <4>3, <4>4
      <3> QED BY <1>2, <3>1, <3>2, AnswerCovers
    <2>6. BindStep => SubmitBindings \/ CloseBinding \/ UNCHANGED <<outcomes, batch, queue>>
      BY DEF BindStep, ToggleBoundIps, OpenBinding, RefreshBoundIps, SearchCandidates, ToggleCandidate
    <2>7. ReadStep \/ ServerBinds \/ (\E r \in reads : ServerLists(r)) \/ (\E a \in Contested : OthersWrite(a))
             => UNCHANGED <<outcomes, batch, queue>>
      BY DEF ReadStep, BoundIpsArrive, CandidatesArrive, ReadFails, ServerBinds, ServerLists, OthersWrite
    <2>8. UNCHANGED bindVars => UNCHANGED <<outcomes, batch, queue>>
      BY DEF bindVars
    <2> QED BY <1>2, <2>1, <2>2, <2>3, <2>4, <2>5, <2>6, <2>7, <2>8 DEF BindNext, PatchStep
  <1> QED BY <1>1, <1>2, AlwaysBindShaped, PTL DEF BindSpec

(* The results do not lie, those gathered and those shown at the end: an   *)
(* address reported as bound was bound to this interface at the version it *)
(* was selected at, and still is unless it was written since; and when the *)
(* submission is over each address submitted has a result and no other has *)
(* (executeInterfaceBindings with the optimistic lock of the server).      *)
THEOREM ResultsAlwaysTruthful == BindSpec => []TruthfulResults
  <1>1. ASSUME BindIInv, BindShaped, Covered PROVE TruthfulResults
    <2>1. \A a \in Addresses : batch[a] \in Nat /\ ips[a].version \in Nat
      BY <1>1 DEF BindIInv, BindTyped, AnyVersions, AddressRecord
    <2>2. \A a \in Addresses : outcomes[a] = "ok" =>
             /\ ips[a].version > batch[a]
             /\ ips[a].version = batch[a] + 1 => ips[a].iface = target /\ ips[a].live
      BY <1>1, <2>1 DEF BindIInv, WasBound
    <2>3. ~Submitting => ~\E k \in 1 .. Len(queue) : TRUE
      <3>1. Len(<<>>) = 0
        OBVIOUS
      <3> QED BY <3>1 DEF Submitting
    <2> QED BY <1>1, <2>2, <2>3 DEF Covered, TruthfulResults
  <1> QED BY <1>1, AlwaysCovered, PTL

\* A bound list arrives that was read before a binding the panel was told of.
ArrivesStale ==
    \E r \in reads : BoundIpsArrive(r) /\ \E a \in Addresses : r.found[a] < heard[r.iface][a]

LEMMA LoadingKeepsFresh ==
    ASSUME BindShaped, BoundListFresh, NEW i \in Ifaces, LoadBoundIps(i), UNCHANGED heard
    PROVE  BoundListFresh'
  <1>1. boundIps'[i].kind = "loading"
    BY DEF LoadBoundIps, Cache, BindShaped
  <1>2. \A j \in Ifaces \ {i} : boundIps'[j] = boundIps[j]
    BY DEF LoadBoundIps, BindShaped
  <1> QED BY <1>1, <1>2 DEF BoundListFresh

\* When the results name an address as bound, the list is dropped or loaded
\* again; otherwise the panel was told nothing.
LEMMA ResultsKeepFresh ==
    ASSUME BindIInv, BindShaped, BoundListFresh, LastBindingAnswer
    PROVE  BoundListFresh'
  <1>1. PICK results : results = [outcomes EXCEPT ![Head(queue)] = OutcomeOf(patch.ok)]
    OBVIOUS
  <1>2. /\ heard' = [heard EXCEPT ![target] = [a \in Addresses |->
                        IF results[a] = "ok" THEN selection[a] + 1 ELSE heard[target][a]]]
        /\ Reloads(\E a \in Addresses : results[a] = "ok")
    BY <1>1 DEF LastBindingAnswer
  <1>3. \A i \in Ifaces \ {target} : heard'[i] = heard[i]
    BY <1>2 DEF BindShaped
  <1>4. CASE \E a \in Addresses : results[a] = "ok"
    <2>1. boundIps' = [boundIps EXCEPT ![target] =
                          Cache(IF boundView = target THEN "loading" ELSE "none", NoVersions)]
      BY <1>2, <1>4 DEF Reloads
    <2>2. target \in Ifaces => boundIps'[target].kind # "success"
      BY <2>1 DEF BindShaped, Cache
    <2>3. \A i \in Ifaces \ {target} : boundIps'[i] = boundIps[i]
      BY <2>1 DEF BindShaped
    <2> QED BY <1>3, <2>2, <2>3 DEF BoundListFresh
  <1>5. CASE ~\E a \in Addresses : results[a] = "ok"
    <2>1. boundIps' = boundIps
      BY <1>2, <1>5 DEF Reloads
    <2>2. \A a \in Addresses : target \in Ifaces => heard'[target][a] = heard[target][a]
      BY <1>2, <1>5 DEF BindShaped
    <2> QED BY <1>3, <2>1, <2>2 DEF BoundListFresh
  <1> QED BY <1>4, <1>5

LEMMA ArrivalsKeepFresh ==
    ASSUME BindShaped, BoundListFresh, ~ArrivesStale, NEW r \in reads,
           BoundIpsArrive(r) \/ CandidatesArrive(r) \/ ReadFails(r)
    PROVE  BoundListFresh'
  <1>1. UNCHANGED heard
    BY DEF BoundIpsArrive, CandidatesArrive, ReadFails
  <1>2. CASE BoundIpsArrive(r)
    <2>1. r.iface \in Ifaces /\ r.found \in Versions
      BY <1>2 DEF BoundIpsArrive, BindShaped, ReadFits
    <2>2. \A a \in Addresses : r.found[a] \in Nat /\ heard[r.iface][a] \in Nat
      <3>1. \A v \in Versions, a \in Addresses : v[a] \in 0 .. LastWrite
        BY DEF Versions
      <3>2. heard[r.iface] \in Versions
        BY <2>1 DEF BindShaped
      <3>3. 0 .. LastWrite \subseteq Nat
        BY NoVersionsBounded
      <3> QED BY <2>1, <3>1, <3>2, <3>3
    <2>3. \A a \in Addresses : ~(r.found[a] < heard[r.iface][a])
      BY <1>2 DEF ArrivesStale
    <2>4. \A a \in Addresses : r.found[a] >= heard[r.iface][a]
      BY <2>2, <2>3
    <2>5. boundIps'[r.iface].versions = r.found /\ \A i \in Ifaces \ {r.iface} : boundIps'[i] = boundIps[i]
      BY <1>2, <2>1 DEF BoundIpsArrive, BindShaped, Cache
    <2> QED BY <1>1, <2>4, <2>5 DEF BoundListFresh
  <1>3. CASE CandidatesArrive(r) \/ (ReadFails(r) /\ r.kind # "bound")
    BY <1>1, <1>3 DEF CandidatesArrive, ReadFails, BoundListFresh
  <1>4. CASE ReadFails(r) /\ r.kind = "bound"
    <2>1. r.iface \in Ifaces
      BY <1>4 DEF BindShaped, ReadFits
    <2>2. boundIps'[r.iface].kind = "error" /\ \A i \in Ifaces \ {r.iface} : boundIps'[i] = boundIps[i]
      BY <1>4, <2>1 DEF ReadFails, BindShaped, Cache
    <2> QED BY <1>1, <2>2 DEF BoundListFresh
  <1> QED BY <1>2, <1>3, <1>4

(* DR-345 is broken by one step only: the answer to a load begun before    *)
(* the binding, which nothing cancels, takes the place of what came after. *)
(* No submission, refresh, failure or write of others makes the list old.  *)
THEOREM OnlyLateAnswersGoBack ==
    BindSpec => [][BoundListFresh => BoundListFresh' \/ ArrivesStale]_bindVars
  <1>1. ASSUME BindIInv, BindShaped, [BindNext]_bindVars, BoundListFresh, ~ArrivesStale
        PROVE  BoundListFresh'
    <2>1. UNCHANGED <<boundIps, heard>> => BoundListFresh'
      BY <1>1 DEF BoundListFresh
    <2>2. UNCHANGED bindVars => UNCHANGED <<boundIps, heard>>
      BY DEF bindVars
    <2>3. BindStep => UNCHANGED <<boundIps, heard>> \/ \E i \in Ifaces : LoadBoundIps(i) /\ UNCHANGED heard
      <3>1. \A i \in Ifaces : ToggleBoundIps(i) => UNCHANGED heard /\ (UNCHANGED boundIps \/ LoadBoundIps(i))
        BY DEF ToggleBoundIps
      <3>2. RefreshBoundIps => UNCHANGED heard /\ boundView \in Ifaces /\ LoadBoundIps(boundView)
        BY <1>1 DEF RefreshBoundIps, BindShaped
      <3>3. \A i \in Ifaces : OpenBinding(i) => UNCHANGED <<boundIps, heard>>
        BY DEF OpenBinding
      <3>4. CloseBinding \/ SubmitBindings \/ (\E q \in Queries : SearchCandidates(q))
                \/ (\E a \in Addresses : ToggleCandidate(a)) => UNCHANGED <<boundIps, heard>>
        BY DEF CloseBinding, SubmitBindings, SearchCandidates, ToggleCandidate
      <3> QED BY <3>1, <3>2, <3>3, <3>4 DEF BindStep
    <2>4. ReadStep => BoundListFresh'
      BY <1>1, ArrivalsKeepFresh DEF ReadStep
    <2>5. ServerBinds \/ BindingAnswer \/ (\E r \in reads : ServerLists(r))
              \/ (\E a \in Contested : OthersWrite(a)) => UNCHANGED <<boundIps, heard>>
      BY DEF ServerBinds, BindingAnswer, ServerLists, OthersWrite
    <2>6. LastBindingAnswer => BoundListFresh'
      BY <1>1, ResultsKeepFresh
    <2>7. \A i \in Ifaces : LoadBoundIps(i) /\ UNCHANGED heard => BoundListFresh'
      BY <1>1, LoadingKeepsFresh
    <2> QED BY <1>1, <2>1, <2>2, <2>3, <2>4, <2>5, <2>6, <2>7 DEF BindNext, PatchStep
  <1>2. BindIInv /\ BindShaped /\ [BindNext]_bindVars
           => [BoundListFresh => BoundListFresh' \/ ArrivesStale]_bindVars
    BY <1>1
  <1> QED BY <1>2, AlwaysBindShaped, PTL DEF BindSpec

-----------------------------------------------------------------------------
(* The IP Addresses area of a Resource's detail.                           *)

LEMMA AllFinite == IsFiniteSet(AllInterfaces)
  <1>1. LastInterface \in Nat
    BY HostAddressesAssumption
  <1> QED BY <1>1, FS_Interval DEF AllInterfaces

LEMMA LiveFinite == ASSUME live \subseteq AllInterfaces PROVE IsFiniteSet(live) /\ Cardinality(live) \in Nat
  BY AllFinite, FS_Subset, FS_CardinalityType

LEMMA Ranks ==
    ASSUME live \subseteq AllInterfaces
    PROVE  /\ \A i \in live : Rank(i) \in 1 .. Cardinality(live)
           /\ \A i, j \in live : Rank(i) = Rank(j) => i = j
  BY Places, HostAddressesAssumption DEF AllInterfaces, Rank

\* Each rank up to their number is the rank of one.
LEMMA RanksCover ==
    ASSUME live \subseteq AllInterfaces, NEW r \in 1 .. Cardinality(live)
    PROVE  AtRank(r) \in live /\ Rank(AtRank(r)) = r
  <1>1. LastInterface \in Nat /\ live \subseteq 1 .. LastInterface
    BY HostAddressesAssumption DEF AllInterfaces
  <1>2. \E i \in live : Cardinality({j \in live : j <= i}) = r
    BY <1>1, Places
  <1> QED BY <1>2 DEF AtRank, Rank

\* A page: the interfaces of PageSize consecutive ranks, each once.
LEMMA PageRanks ==
    ASSUME live \subseteq AllInterfaces, NEW p \in Nat \ {0}
    PROVE  /\ PageOf(p) \in Seq(live) /\ Len(PageOf(p)) <= PageSize /\ IsInjective(PageOf(p))
           /\ \A i \in live : i \in ToSet(PageOf(p)) <=> (p - 1) * PageSize < Rank(i) /\ Rank(i) <= p * PageSize
           /\ ToSet(PageOf(p)) \subseteq live
  <1> DEFINE lo == (p - 1) * PageSize
             hi == p * PageSize
             N == Cardinality(live)
             n == Least(PageSize, IF lo < N THEN N - lo ELSE 0)
  <1>1. lo \in Nat /\ hi = lo + PageSize /\ hi \in Nat /\ PageSize \in Nat \ {0}
    BY HostAddressesAssumption
  <1>2. N \in Nat
    BY LiveFinite
  <1>3. PageOf(p) = [k \in 1 .. n |-> AtRank(lo + k)]
    BY DEF PageOf
  <1> HIDE DEF lo, hi, N
  <1>4. /\ n \in Nat /\ n <= PageSize /\ (n # 0 => lo + n <= N)
        /\ \A k \in 1 .. n : lo + k \in 1 .. N
        /\ \A r \in 1 .. N : lo < r /\ r <= hi => r - lo \in 1 .. n
    BY <1>1, <1>2 DEF Least
  <1> HIDE DEF n
  <1>5. \A k \in 1 .. n : AtRank(lo + k) \in live /\ Rank(AtRank(lo + k)) = lo + k
    BY <1>4, RanksCover DEF N
  <1>6. PageOf(p) \in Seq(live) /\ Len(PageOf(p)) = n /\ DOMAIN PageOf(p) = 1 .. n
    BY <1>3, <1>4, <1>5
  <1>7. \A k \in 1 .. n : PageOf(p)[k] = AtRank(lo + k)
    BY <1>3
  <1>8. IsInjective(PageOf(p))
    <2> SUFFICES ASSUME NEW a \in 1 .. n, NEW b \in 1 .. n, PageOf(p)[a] = PageOf(p)[b]
                 PROVE  a = b
      BY <1>6 DEF IsInjective
    <2>1. lo + a = lo + b
      BY <1>5, <1>7
    <2> QED BY <1>1, <1>4, <2>1
  <1>9. ToSet(PageOf(p)) \subseteq live
    BY <1>5, <1>6, <1>7 DEF ToSet
  <1>10. ASSUME NEW i \in live
         PROVE  i \in ToSet(PageOf(p)) <=> lo < Rank(i) /\ Rank(i) <= hi
    <2>1. Rank(i) \in 1 .. N
      BY Ranks DEF N
    <2>2. ASSUME i \in ToSet(PageOf(p)) PROVE lo < Rank(i) /\ Rank(i) <= hi
      <3>1. PICK k \in 1 .. n : i = PageOf(p)[k]
        BY <1>6, <2>2 DEF ToSet
      <3>2. Rank(i) = lo + k
        BY <1>5, <1>7, <3>1
      <3> QED BY <1>1, <1>4, <3>2
    <2>3. ASSUME lo < Rank(i), Rank(i) <= hi PROVE i \in ToSet(PageOf(p))
      <3>1. Rank(i) - lo \in 1 .. n /\ lo + (Rank(i) - lo) = Rank(i)
        BY <1>1, <1>2, <1>4, <2>1, <2>3
      <3>2. PICK k \in 1 .. n : lo + k = Rank(i)
        BY <3>1
      <3>3. PageOf(p)[k] \in live /\ Rank(PageOf(p)[k]) = Rank(i)
        BY <1>5, <1>7, <3>2
      <3>4. PageOf(p)[k] = i
        BY <3>3, Ranks
      <3> QED BY <1>6, <3>4 DEF ToSet
    <2> QED BY <2>2, <2>3
  <1> QED BY <1>4, <1>6, <1>8, <1>9, <1>10 DEF lo, hi

-----------------------------------------------------------------------------
\* Every interface that stayed is listed already or lies behind the pages
\* read: creations only move it to the back.
Behind ==
    /\ Len(listed) <= (page - 1) * PageSize
    /\ \A i \in steady : i \in ToSet(listed) \/ Rank(i) > (page - 1) * PageSize

\* While nothing changed, what is listed is the front of the list.
Unmoved ==
    changes = 0 =>
        /\ IsInjective(listed) /\ ToSet(listed) \subseteq live
        /\ phase = "listing" => \A i \in ToSet(listed) : Rank(i) <= (page - 1) * PageSize

\* The list is at its end: complete, or known to be cut off.
Listed == total > Len(listed) \/ steady \subseteq ToSet(listed)

\* Each position is with one worker, loaded or failed, or still to be taken.
Positions ==
    /\ \A w \in LoadWorkers : busy[w] \in Nat /\ (busy[w] # 0 => busy[w] < nextIndex /\ busy[w] <= Len(listed))
    /\ \A v, w \in LoadWorkers : busy[v] = busy[w] /\ busy[v] # 0 => v = w
    /\ \A w \in LoadWorkers : busy[w] \notin succeeded \union failures
    /\ succeeded \intersect failures = {}
    /\ \A k \in succeeded \union failures : k \in 1 .. Len(listed) /\ k < nextIndex
    /\ \A k \in 1 .. Len(listed) : k < nextIndex => k \in succeeded \union failures \/ \E w \in LoadWorkers : busy[w] = k
    /\ busy = Idle => nextIndex > Len(listed)

HostIInv ==
    /\ live \subseteq AllInterfaces /\ steady \subseteq live
    /\ page \in Nat \ {0} /\ listed \in Seq(AllInterfaces) /\ total \in Nat /\ nextIndex \in Nat \ {0}
    /\ busy \in [LoadWorkers -> Nat]
    /\ unmounted \in BOOLEAN /\ changes \in Nat
    /\ phase = "listing" => Behind /\ succeeded = {} /\ failures = {}
    /\ phase = "loading" /\ ~unmounted => Positions /\ Listed
    /\ Unmoved
    /\ shown.kind = "success" => phase = "ended" /\ CompleteUnlessDeleted

LEMMA HostStart == ASSUME HostInit PROVE HostIInv
  <1>1. Cardinality({}) = 0 /\ 1 - 1 = 0 /\ 0 * PageSize = 0 /\ PageSize \in Nat
    BY HostAddressesAssumption, FS_EmptySet
  <1>2. live \subseteq AllInterfaces /\ steady = live
    BY DEF HostInit
  <1>3. Behind
    <2>1. \A i \in live : Rank(i) > 0
      BY <1>2, Ranks, LiveFinite
    <2>2. listed = <<>> /\ page = 1
      BY DEF HostInit
    <2> QED BY <1>1, <1>2, <2>1, <2>2 DEF Behind
  <1>4. Unmoved
    BY DEF HostInit, Unmoved, IsInjective, ToSet
  <1>5. busy \in [LoadWorkers -> Nat]
    BY DEF HostInit, Idle
  <1>6. /\ page = 1 /\ listed = <<>> /\ total = 0 /\ nextIndex = 1 /\ changes = 0
        /\ phase = "listing" /\ succeeded = {} /\ failures = {} /\ shown.kind = "loading"
    BY DEF HostInit, Showing
  <1>7. unmounted \in BOOLEAN
    BY DEF HostInit
  <1> QED BY <1>2, <1>3, <1>4, <1>5, <1>6, <1>7 DEF HostIInv

\* The workers begin with the first positions, in order.
LEMMA PageStarts ==
    ASSUME NEW items \in Seq(AllInterfaces), StartWorkers(items), listed' = items,
           succeeded' = {}, failures' = {}
    PROVE  Positions' /\ nextIndex' \in Nat \ {0} /\ busy' \in [LoadWorkers -> Nat]
  <1> DEFINE count == Least(Concurrency, Len(items))
  <1>1. Concurrency \in Nat \ {0} /\ Len(items) \in Nat
    BY HostAddressesAssumption
  <1>2. count \in Nat /\ count <= Concurrency /\ count <= Len(items) /\ (count = 0 => Len(items) = 0)
    BY <1>1 DEF Least
  <1>3. busy' = [w \in LoadWorkers |-> IF w <= count THEN w ELSE 0] /\ nextIndex' = count + 1
    BY DEF StartWorkers
  <1> HIDE DEF count
  <1>4. \A w \in LoadWorkers : w \in Nat \ {0} /\ busy'[w] = IF w <= count THEN w ELSE 0
    BY <1>1, <1>3 DEF LoadWorkers
  <1>5. \A k \in 1 .. Len(items) : k < nextIndex' => k \in LoadWorkers /\ busy'[k] = k
    BY <1>1, <1>2, <1>3, <1>4 DEF LoadWorkers
  <1>6. busy' = Idle => nextIndex' > Len(items)
    <2>1. CASE count = 0
      BY <1>1, <1>2, <1>3, <2>1
    <2>2. CASE count # 0
      <3>1. 1 \in LoadWorkers /\ 1 <= count
        BY <1>1, <1>2, <2>2 DEF LoadWorkers
      <3>2. busy'[1] = 1
        BY <1>4, <3>1
      <3> QED BY <3>1, <3>2 DEF Idle
    <2> QED BY <2>1, <2>2
  <1>7. \A w \in LoadWorkers : busy'[w] \in Nat /\ (busy'[w] # 0 => busy'[w] < nextIndex' /\ busy'[w] <= Len(items))
    BY <1>1, <1>2, <1>3, <1>4
  <1>8. \A v, w \in LoadWorkers : busy'[v] = busy'[w] /\ busy'[v] # 0 => v = w
    BY <1>4
  <1>9. busy' \in [LoadWorkers -> Nat]
    BY <1>3, <1>7
  <1>10. \A w \in LoadWorkers : busy'[w] \notin {} \union {}
    OBVIOUS
  <1>11. listed' = items /\ succeeded' = {} /\ failures' = {} /\ nextIndex' \in Nat \ {0}
    BY <1>2, <1>3
  <1>12. Positions'
    BY <1>5, <1>6, <1>7, <1>8, <1>10, <1>11 DEF Positions, Idle
  <1> QED BY <1>9, <1>11, <1>12

\* A page adds to what is listed the interfaces of its ranks.
LEMMA PageKeeps ==
    ASSUME HostIInv, ListPageArrives
    PROVE  HostIInv'
  <1> DEFINE items == PageOf(page)
             so_far == listed \o items
             lo == (page - 1) * PageSize
             hi == page * PageSize
             N == Cardinality(live)
  <1>1. /\ live' = live /\ steady' = steady /\ unmounted' = unmounted /\ changes' = changes
        /\ shown' = shown /\ succeeded' = succeeded /\ failures' = failures /\ phase = "listing"
    BY DEF ListPageArrives
  <1>2. /\ live \subseteq AllInterfaces /\ steady \subseteq live /\ page \in Nat \ {0}
        /\ listed \in Seq(AllInterfaces) /\ Behind /\ succeeded = {} /\ failures = {}
        /\ shown.kind # "success" /\ Unmoved
    BY <1>1 DEF HostIInv
  <1>3. PageSize \in Nat \ {0} /\ lo \in Nat /\ hi = lo + PageSize /\ hi \in Nat /\ N \in Nat
    <2>1. PageSize \in Nat \ {0} /\ page \in Nat \ {0}
      BY <1>2, HostAddressesAssumption
    <2>2. lo \in Nat /\ hi = lo + PageSize /\ hi \in Nat
      BY <2>1
    <2>3. N \in Nat
      BY <1>2, LiveFinite
    <2> QED BY <2>1, <2>2, <2>3
  <1>4. /\ items \in Seq(AllInterfaces) /\ Len(items) \in Nat /\ Len(items) <= PageSize /\ IsInjective(items)
        /\ \A i \in live : i \in ToSet(items) <=> lo < Rank(i) /\ Rank(i) <= hi
        /\ ToSet(items) \subseteq live
    BY <1>2, PageRanks
  <1> HIDE DEF items, lo, hi, N
  <1>5. /\ so_far \in Seq(AllInterfaces) /\ Len(so_far) = Len(listed) + Len(items)
        /\ ToSet(so_far) = ToSet(listed) \union ToSet(items)
    <2>1. so_far \in Seq(AllInterfaces) /\ Len(so_far) = Len(listed) + Len(items)
      BY <1>2, <1>4
    <2>2. \A i \in 1 .. Len(listed) + Len(items) :
             so_far[i] = IF i <= Len(listed) THEN listed[i] ELSE items[i - Len(listed)]
      BY <1>2, <1>4
    <2>3. \A i \in 1 .. Len(items) : so_far[Len(listed) + i] = items[i]
      BY <1>2, <1>4, <2>2
    <2> HIDE DEF so_far
    <2>4. \A i \in 1 .. Len(listed) : so_far[i] = listed[i] /\ i \in DOMAIN so_far
      BY <1>2, <1>4, <2>1, <2>2
    <2>5. \A i \in 1 .. Len(items) : Len(listed) + i \in DOMAIN so_far
      BY <1>2, <1>4, <2>1
    <2>6. ToSet(listed) \union ToSet(items) \subseteq ToSet(so_far)
      BY <1>2, <1>4, <2>3, <2>4, <2>5 DEF ToSet
    <2>7. ASSUME NEW i \in DOMAIN so_far
          PROVE  so_far[i] \in ToSet(listed) \union ToSet(items)
      <3>1. CASE i <= Len(listed)
        BY <1>2, <1>4, <2>1, <2>2, <3>1 DEF ToSet
      <3>2. CASE ~(i <= Len(listed))
        <4>1. i - Len(listed) \in 1 .. Len(items) /\ so_far[i] = items[i - Len(listed)]
          BY <1>2, <1>4, <2>1, <2>2, <3>2
        <4> QED BY <1>4, <4>1 DEF ToSet
      <3> QED BY <3>1, <3>2
    <2>8. ToSet(so_far) \subseteq ToSet(listed) \union ToSet(items)
      BY <2>7 DEF ToSet
    <2> QED BY <2>1, <2>6, <2>8
  <1>6. \A i \in live : Rank(i) \in Nat /\ Rank(i) <= N
    BY <1>2, <1>3, Ranks DEF N
  <1>7. /\ Len(listed) \in Nat /\ Len(listed) <= lo
        /\ \A i \in steady : i \in ToSet(listed) \/ Rank(i) > lo
    BY <1>2 DEF Behind, lo
  <1>8. /\ Len(so_far) <= hi
        /\ \A i \in steady : i \in ToSet(so_far) \/ Rank(i) > hi
    BY <1>2, <1>3, <1>4, <1>5, <1>6, <1>7
  <1>9. changes = 0 =>
           /\ IsInjective(so_far) /\ ToSet(so_far) \subseteq live
           /\ \A i \in ToSet(so_far) : Rank(i) <= hi
    <2>1. SUFFICES ASSUME changes = 0
                   PROVE  /\ IsInjective(so_far) /\ ToSet(so_far) \subseteq live
                          /\ \A i \in ToSet(so_far) : Rank(i) <= hi
      OBVIOUS
    <2>2. /\ IsInjective(listed) /\ ToSet(listed) \subseteq live
          /\ \A i \in ToSet(listed) : Rank(i) <= lo
      BY <1>1, <1>2, <2>1 DEF Unmoved, lo
    <2>3. ToSet(listed) \intersect ToSet(items) = {}
      BY <1>2, <1>3, <1>4, <1>6, <2>2
    <2>4. IsInjective(so_far)
      <3> SUFFICES ASSUME NEW a \in DOMAIN so_far, NEW b \in DOMAIN so_far, so_far[a] = so_far[b]
                   PROVE  a = b
        BY DEF IsInjective
      <3> DEFINE m == Len(listed)
                 k == Len(items)
      <3>1. a \in 1 .. m + k /\ b \in 1 .. m + k /\ m \in Nat /\ k \in Nat
        BY <1>2, <1>4, <1>5
      <3>2. \A i \in 1 .. m + k : so_far[i] = IF i <= m THEN listed[i] ELSE items[i - m]
        BY <1>2, <1>4
      <3>3. \A i \in 1 .. m : listed[i] \in ToSet(listed)
        BY <1>2 DEF ToSet
      <3>4. \A i \in 1 .. k : items[i] \in ToSet(items)
        BY <1>4 DEF ToSet
      <3>5. \A i, j \in 1 .. m : listed[i] = listed[j] => i = j
        BY <1>2, <2>2 DEF IsInjective
      <3>6. \A i, j \in 1 .. k : items[i] = items[j] => i = j
        BY <1>4 DEF IsInjective
      <3> HIDE DEF m, k, so_far
      <3>7. CASE a <= m /\ b <= m
        <4>1. a \in 1 .. m /\ b \in 1 .. m /\ listed[a] = listed[b]
          BY <3>1, <3>2, <3>7
        <4> QED BY <3>5, <4>1
      <3>8. CASE a <= m /\ ~(b <= m)
        <4>1. a \in 1 .. m /\ b - m \in 1 .. k /\ listed[a] = items[b - m]
          BY <3>1, <3>2, <3>8
        <4> QED BY <2>3, <3>3, <3>4, <4>1
      <3>9. CASE ~(a <= m) /\ b <= m
        <4>1. a - m \in 1 .. k /\ b \in 1 .. m /\ items[a - m] = listed[b]
          BY <3>1, <3>2, <3>9
        <4> QED BY <2>3, <3>3, <3>4, <4>1
      <3>10. CASE ~(a <= m) /\ ~(b <= m)
        <4>1. a - m \in 1 .. k /\ b - m \in 1 .. k /\ items[a - m] = items[b - m]
          BY <3>1, <3>2, <3>10
        <4>2. a - m = b - m
          BY <3>6, <4>1
        <4> QED BY <3>1, <4>2
      <3> QED BY <3>7, <3>8, <3>9, <3>10
    <2>5. \A i \in ToSet(so_far) : i \in live /\ Rank(i) <= hi
      BY <1>3, <1>4, <1>5, <1>6, <2>2
    <2> QED BY <2>4, <2>5
  <1>10. CASE unmounted
    <2>1. phase' = "ended" /\ UNCHANGED <<page, listed, total, nextIndex, busy>>
      BY <1>10 DEF ListPageArrives
    <2>2. Unmoved'
      BY <1>1, <1>2, <2>1 DEF Unmoved
    <2> QED BY <1>1, <1>2, <2>1, <2>2 DEF HostIInv
  <1>11. CASE ~unmounted /\ ListPageArrives /\ StartWorkers(so_far) /\ UNCHANGED page
    <2>1. listed' = so_far /\ total' = N /\ phase' = "loading" /\ page' = page
      BY <1>11 DEF ListPageArrives, StartWorkers, N, items
    <2>2. Positions' /\ nextIndex' \in Nat \ {0} /\ busy' \in [LoadWorkers -> Nat]
      BY <1>1, <1>2, <1>5, <1>11, <2>1, PageStarts
    <2>3. items = <<>> \/ Len(so_far) >= N \/ page >= MaxPages
      BY <1>11 DEF ListPageArrives, N, items, StartWorkers
    <2>4. Listed'
      <3>1. ASSUME ~(N > Len(so_far)), NEW i \in steady, i \notin ToSet(so_far)
            PROVE  FALSE
        BY <1>2, <1>3, <1>4, <1>5, <1>6, <1>7, <1>8, <3>1
      <3> HIDE DEF so_far
      <3> QED BY <1>1, <2>1, <3>1 DEF Listed
    <2>5. Unmoved'
      <3> HIDE DEF so_far
      <3> QED BY <1>1, <1>9, <2>1 DEF Unmoved
    <2> HIDE DEF so_far
    <2> QED BY <1>1, <1>2, <1>3, <1>5, <2>1, <2>2, <2>4, <2>5 DEF HostIInv
  <1>12. CASE ~unmounted /\ page' = page + 1 /\ UNCHANGED <<phase, nextIndex, busy>>
    <2>1. listed' = so_far /\ total' = N
      BY <1>12 DEF ListPageArrives, N, items
    <2>2. (page' - 1) * PageSize = hi
      BY <1>2, <1>3, <1>12 DEF hi
    <2> HIDE DEF so_far
    <2>3. \A i : Rank(i)' = Rank(i)
      BY <1>1 DEF Rank
    <2>4. Behind'
      BY <1>1, <1>8, <2>1, <2>2, <2>3 DEF Behind
    <2>5. Unmoved'
      BY <1>1, <1>9, <2>1, <2>2, <2>3 DEF Unmoved
    <2> QED BY <1>1, <1>2, <1>3, <1>5, <1>12, <2>1, <2>4, <2>5 DEF HostIInv
  <1> QED BY <1>10, <1>11, <1>12 DEF ListPageArrives, items

\* A worker takes the next position, and no other has it.
LEMMA Takes ==
    ASSUME HostIInv, phase = "loading", ~unmounted, NEW w \in LoadWorkers, busy[w] # 0, TakeNext(w),
           UNCHANGED listed,
           \/ succeeded' = succeeded \union {busy[w]} /\ failures' = failures
           \/ failures' = failures \union {busy[w]} /\ succeeded' = succeeded
    PROVE  Positions' /\ nextIndex' \in Nat \ {0} /\ busy' \in [LoadWorkers -> Nat]
  <1>1. Positions /\ nextIndex \in Nat \ {0} /\ busy \in [LoadWorkers -> Nat] /\ Len(listed) \in Nat
    BY DEF HostIInv
  <1>2. succeeded' \union failures' = succeeded \union failures \union {busy[w]}
    OBVIOUS
  <1>3. succeeded' \intersect failures' = {}
    BY <1>1 DEF Positions
  <1>4. nextIndex' = nextIndex + 1
    BY DEF TakeNext
  <1>5. PICK n \in Nat : /\ busy' = [busy EXCEPT ![w] = n]
                         /\ n = IF nextIndex > Len(listed) THEN 0 ELSE nextIndex
    BY <1>1 DEF TakeNext
  <1>6. busy'[w] = n /\ \A v \in LoadWorkers : v # w => busy'[v] = busy[v]
    BY <1>1, <1>5
  <1>7. busy' \in [LoadWorkers -> Nat]
    BY <1>1, <1>5
  <1>8. \A v \in LoadWorkers : busy'[v] \in Nat /\ (busy'[v] # 0 => busy'[v] < nextIndex' /\ busy'[v] <= Len(listed))
    <2>1. n # 0 => n < nextIndex + 1 /\ n <= Len(listed)
      BY <1>1, <1>5
    <2>2. \A v \in LoadWorkers : busy[v] # 0 => busy[v] < nextIndex /\ busy[v] <= Len(listed)
      BY <1>1 DEF Positions
    <2>3. \A k \in Nat : k < nextIndex => k < nextIndex + 1
      BY <1>1
    <2> QED BY <1>1, <1>4, <1>6, <1>7, <2>1, <2>2, <2>3
  <1>9. \A u, v \in LoadWorkers : busy'[u] = busy'[v] /\ busy'[u] # 0 => u = v
    <2>1. \A v \in LoadWorkers : busy[v] # 0 => busy[v] # n
      <3>1. \A v \in LoadWorkers : busy[v] # 0 => busy[v] < nextIndex /\ busy[v] \in Nat
        BY <1>1 DEF Positions
      <3> QED BY <1>1, <1>5, <3>1
    <2>2. \A u, v \in LoadWorkers : busy[u] = busy[v] /\ busy[u] # 0 => u = v
      BY <1>1 DEF Positions
    <2> QED BY <1>6, <2>1, <2>2
  <1>10. \A k \in succeeded \union failures \union {busy[w]} : k \in 1 .. Len(listed) /\ k < nextIndex
    <2>1. busy[w] \in Nat /\ busy[w] < nextIndex /\ busy[w] <= Len(listed)
      BY <1>1 DEF Positions
    <2>2. busy[w] \in 1 .. Len(listed)
      BY <1>1, <2>1
    <2> QED BY <1>1, <2>1, <2>2 DEF Positions
  <1>11. \A k \in succeeded' \union failures' : k \in 1 .. Len(listed) /\ k < nextIndex'
    BY <1>1, <1>2, <1>4, <1>10
  <1>12. \A v \in LoadWorkers : busy'[v] \notin succeeded' \union failures'
    <2>1. n \notin succeeded \union failures \union {busy[w]}
      BY <1>1, <1>5, <1>10
    <2>2. ASSUME NEW v \in LoadWorkers, v # w
          PROVE  busy[v] \notin succeeded \union failures \union {busy[w]}
      BY <1>1, <2>2 DEF Positions
    <2> QED BY <1>2, <1>6, <2>1, <2>2
  <1>13. ASSUME NEW k \in 1 .. Len(listed), k < nextIndex'
         PROVE  k \in succeeded' \union failures' \/ \E v \in LoadWorkers : busy'[v] = k
    <2>1. CASE k < nextIndex
      <3>1. k \in succeeded \union failures \/ \E v \in LoadWorkers : busy[v] = k
        BY <1>1, <2>1 DEF Positions
      <3> QED BY <1>2, <1>6, <3>1
    <2>2. CASE ~(k < nextIndex)
      <3>1. k = nextIndex /\ ~(nextIndex > Len(listed))
        BY <1>1, <1>4, <1>13, <2>2
      <3> QED BY <1>5, <1>6, <3>1
    <2> QED BY <2>1, <2>2
  <1>14. busy' = Idle => nextIndex' > Len(listed)
    <2>1. busy' = Idle => n = 0
      BY <1>6 DEF Idle
    <2> QED BY <1>1, <1>4, <1>5, <2>1
  <1>15. listed' = listed
    OBVIOUS
  <1>16. Positions'
    BY <1>3, <1>8, <1>9, <1>11, <1>12, <1>13, <1>14, <1>15 DEF Positions, Idle
  <1> QED BY <1>1, <1>4, <1>7, <1>16

LEMMA LoadKeeps ==
    ASSUME HostIInv, NEW w \in LoadWorkers, AddressesArrive(w) \/ AddressesFail(w)
    PROVE  HostIInv'
  <1>1. /\ UNCHANGED <<live, steady, phase, page, listed, total, shown, unmounted, changes>>
        /\ phase = "loading" /\ busy[w] # 0 /\ TakeNext(w)
    BY DEF AddressesArrive, AddressesFail
  <1>2. Unmoved'
    BY <1>1 DEF HostIInv, Unmoved, Rank
  <1>3. shown.kind # "success"
    BY <1>1 DEF HostIInv
  <1>4. nextIndex' \in Nat \ {0} /\ busy' \in [LoadWorkers -> Nat] /\ (~unmounted => Positions')
    <2>1. CASE unmounted
      BY <1>1, <2>1 DEF HostIInv, TakeNext
    <2>2. CASE ~unmounted
      <3>1. \/ succeeded' = succeeded \union {busy[w]} /\ failures' = failures
            \/ failures' = failures \union {busy[w]} /\ succeeded' = succeeded
        BY <2>2 DEF AddressesArrive, AddressesFail
      <3>2. UNCHANGED listed
        BY <1>1
      <3> QED BY <1>1, <2>2, <3>1, <3>2, Takes
    <2> QED BY <2>1, <2>2
  <1>5. ~unmounted => Listed'
    BY <1>1 DEF HostIInv, Listed
  <1> QED BY <1>1, <1>2, <1>3, <1>4, <1>5 DEF HostIInv

LEMMA EndKeeps ==
    ASSUME HostIInv, Summarise \/ ListPageFails
    PROVE  HostIInv'
  <1>1. /\ UNCHANGED <<live, steady, page, listed, total, nextIndex, busy, succeeded, failures, unmounted, changes>>
        /\ phase' = "ended" /\ phase # "ended"
    BY DEF Summarise, ListPageFails
  <1>2. Unmoved'
    BY <1>1 DEF HostIInv, Unmoved, Rank
  <1>3. shown'.kind = "success" => CompleteUnlessDeleted'
    <2>1. SUFFICES ASSUME shown'.kind = "success" PROVE CompleteUnlessDeleted'
      OBVIOUS
    <2>2. shown.kind # "success"
      BY <1>1 DEF HostIInv
    <2>3. /\ Summarise /\ ~unmounted /\ phase = "loading" /\ busy = Idle
          /\ shown' = Showing("success", total > Len(listed))
      BY <2>1, <2>2 DEF Summarise, ListPageFails, Showing
    <2>4. Positions /\ Listed /\ listed \in Seq(AllInterfaces) /\ total \in Nat /\ Unmoved
      BY <2>3 DEF HostIInv
    <2>5. succeeded \union failures = DOMAIN listed /\ succeeded \intersect failures = {}
      <3>1. nextIndex > Len(listed) /\ nextIndex \in Nat /\ DOMAIN listed = 1 .. Len(listed) /\ Len(listed) \in Nat
        BY <2>3, <2>4 DEF Positions, HostIInv
      <3>2. \A k \in 1 .. Len(listed) : k < nextIndex /\ ~\E v \in LoadWorkers : busy[v] = k
        BY <2>3, <3>1 DEF Idle
      <3> QED BY <2>4, <3>1, <3>2 DEF Positions
    <2>6. shown'.truncated <=> total > Len(listed)
      BY <2>3 DEF Showing
    <2>7. changes = 0 => IsInjective(listed) /\ ToSet(listed) \subseteq live
      BY <2>4 DEF Unmoved
    <2> QED BY <1>1, <2>4, <2>5, <2>6, <2>7 DEF CompleteUnlessDeleted, Listed
  <1> QED BY <1>1, <1>2, <1>3 DEF HostIInv

LEMMA RetryKeeps == ASSUME HostIInv, RetryAll PROVE HostIInv'
  <1>1. /\ UNCHANGED <<live, unmounted, changes>> /\ steady' = live
        /\ page' = 1 /\ listed' = <<>> /\ total' = 0 /\ nextIndex' = 1 /\ busy' = Idle
        /\ phase' = "listing" /\ succeeded' = {} /\ failures' = {} /\ shown'.kind = "loading"
    BY DEF RetryAll, Begin, Showing
  <1>2. live \subseteq AllInterfaces /\ \A i \in live : Rank(i)' = Rank(i)
    BY <1>1 DEF HostIInv, Rank
  <1>3. Behind'
    <2>1. \A i \in live : Rank(i) > 0
      BY <1>2, Ranks, LiveFinite
    <2>2. (page' - 1) * PageSize = 0 /\ Len(listed') = 0
      BY <1>1, HostAddressesAssumption
    <2> QED BY <1>1, <1>2, <2>1, <2>2 DEF Behind
  <1>4. Unmoved'
    BY <1>1 DEF Unmoved, IsInjective, ToSet
  <1>5. busy' \in [LoadWorkers -> Nat]
    BY <1>1 DEF Idle
  <1> QED BY <1>1, <1>2, <1>3, <1>4, <1>5 DEF HostIInv

LEMMA LeaveKeeps == ASSUME HostIInv, LeaveHost PROVE HostIInv'
  BY DEF HostIInv, LeaveHost, Unmoved, Behind, Rank, CompleteUnlessDeleted

\* A creation moves what stays to the back; a deletion leaves no one steady.
LEMMA ChangeKeeps == ASSUME HostIInv, NEW i \in AllInterfaces, ChangeInterface(i) PROVE HostIInv'
  <1>1. /\ UNCHANGED <<phase, page, listed, total, nextIndex, busy, succeeded, failures, shown, unmounted>>
        /\ changes' = changes + 1 /\ changes \in Nat /\ live \subseteq AllInterfaces /\ steady \subseteq live
    BY DEF HostIInv, ChangeInterface
  <1>2. live' \subseteq AllInterfaces /\ steady' \subseteq live' /\ steady' \subseteq steady
    BY <1>1 DEF ChangeInterface
  <1>3. changes' # 0 /\ changes' \in Nat
    BY <1>1
  <1>4. Unmoved' /\ (Listed => Listed') /\ (Positions => Positions')
    BY <1>1, <1>2, <1>3 DEF Unmoved, Listed, Positions, Idle
  <1>5. phase = "listing" => Behind'
    <2>1. SUFFICES ASSUME phase = "listing" PROVE Behind'
      OBVIOUS
    <2>2. Behind /\ page \in Nat \ {0}
      BY <2>1 DEF HostIInv
    <2>3. ASSUME NEW j \in steady'
          PROVE  j \in ToSet(listed) \/ Rank(j)' > (page - 1) * PageSize
      <3>1. live \subseteq live' /\ j \in steady /\ j \in live
        BY <1>1, <1>2, <2>3 DEF ChangeInterface
      <3> DEFINE S == {k \in live : k <= j}
                 T == {k \in live' : k <= j}
      <3>2. IsFiniteSet(live') /\ IsFiniteSet(live)
        BY <1>1, <1>2, AllFinite, FS_Subset
      <3>3. IsFiniteSet(T) /\ S \subseteq T
        BY <3>1, <3>2, FS_Subset
      <3>4. Cardinality(S) <= Cardinality(T) /\ Cardinality(S) \in Nat /\ Cardinality(T) \in Nat
        <4> HIDE DEF S, T
        <4> QED BY <3>3, FS_Subset, FS_CardinalityType
      <3>5. Rank(j) = Cardinality(S) /\ Rank(j)' = Cardinality(T)
        BY DEF Rank
      <3>6. (page - 1) * PageSize \in Nat
        BY <2>2, HostAddressesAssumption
      <3>7. j \in ToSet(listed) \/ Rank(j) > (page - 1) * PageSize
        BY <2>2, <3>1 DEF Behind
      <3> HIDE DEF S, T
      <3> QED BY <3>4, <3>5, <3>6, <3>7
    <2> QED BY <1>1, <2>2, <2>3 DEF Behind
  <1>6. CompleteUnlessDeleted => CompleteUnlessDeleted'
    BY <1>1, <1>2, <1>3 DEF CompleteUnlessDeleted
  <1> QED BY <1>1, <1>2, <1>3, <1>4, <1>5, <1>6 DEF HostIInv

LEMMA StutterKeeps == ASSUME HostIInv, UNCHANGED hostVars PROVE HostIInv'
  BY DEF HostIInv, hostVars, Unmoved, Behind, Rank, CompleteUnlessDeleted, Positions, Listed, Idle

LEMMA AlwaysHostIInv == HostSpec => []HostIInv
  <1>1. HostInit => HostIInv
    BY HostStart
  <1>2. HostIInv /\ [HostNext]_hostVars => HostIInv'
    BY PageKeeps, LoadKeeps, EndKeeps, RetryKeeps, LeaveKeeps, ChangeKeeps, StutterKeeps DEF HostNext, HostRun
  <1> QED BY <1>1, <1>2, PTL DEF HostSpec

\* For any number of interfaces, pages and workers: what the panel shows is
\* complete or says that it is cut off, unless an interface is deleted while
\* they are listed.
THEOREM NothingLeftOut == HostSpec => []CompleteUnlessDeleted
  <1>1. HostIInv => CompleteUnlessDeleted
    BY DEF HostIInv, CompleteUnlessDeleted
  <1> QED BY <1>1, AlwaysHostIInv, PTL

\* No page past the cap is asked for, and the outcomes are of positions of
\* what is listed.
ShownRecord == [kind : {"loading", "success", "error"}, truncated : BOOLEAN]
HostShaped ==
    /\ phase \in {"listing", "loading", "ended"} /\ page \in 1 .. MaxPages
    /\ total \in 0 .. LastInterface
    /\ succeeded \subseteq DOMAIN listed /\ failures \subseteq DOMAIN listed
    /\ shown \in ShownRecord /\ changes \in 0 .. MaxChanges

LEMMA HostStaysShaped ==
    ASSUME HostIInv, HostShaped, HostNext
    PROVE  HostShaped'
  <1>1. \A kind \in {"loading", "success", "error"}, t \in BOOLEAN : Showing(kind, t) \in ShownRecord
    BY DEF Showing, ShownRecord
  <1>2. CASE ListPageArrives
    <2>1. Cardinality(live) \in 0 .. LastInterface
      <3>1. live \subseteq 1 .. LastInterface /\ LastInterface \in Nat
        BY HostAddressesAssumption DEF HostIInv, AllInterfaces
      <3>2. IsFiniteSet(1 .. LastInterface) /\ Cardinality(1 .. LastInterface) = LastInterface
        BY <3>1, FS_Interval
      <3>3. Cardinality(live) <= LastInterface
        BY <3>1, <3>2, FS_Subset
      <3>4. Cardinality(live) \in Nat
        BY LiveFinite DEF HostIInv
      <3> QED BY <3>1, <3>3, <3>4
    <2>2. total' \in 0 .. LastInterface
      BY <1>2, <2>1 DEF ListPageArrives, HostShaped
    <2>3. page' \in 1 .. MaxPages
      <3>1. page \in 1 .. MaxPages /\ MaxPages \in Nat
        BY HostAddressesAssumption DEF HostShaped
      <3>2. page' = page \/ (page' = page + 1 /\ ~(page >= MaxPages))
        BY <1>2 DEF ListPageArrives
      <3> QED BY <3>1, <3>2
    <2>4. succeeded' \subseteq DOMAIN listed' /\ failures' \subseteq DOMAIN listed'
      <3>1. succeeded' = {} /\ failures' = {}
        BY <1>2 DEF ListPageArrives, HostIInv
      <3> QED BY <3>1
    <2>5. phase' \in {"listing", "loading", "ended"}
      BY <1>2 DEF ListPageArrives, StartWorkers
    <2> QED BY <1>2, <2>2, <2>3, <2>4, <2>5 DEF ListPageArrives, HostShaped
  <1>3. ASSUME NEW w \in LoadWorkers, AddressesArrive(w) \/ AddressesFail(w)
        PROVE  HostShaped'
    <2>1. ~unmounted => busy[w] \in DOMAIN listed
      <3>1. SUFFICES ASSUME ~unmounted PROVE busy[w] \in DOMAIN listed
        OBVIOUS
      <3>2. Positions /\ busy[w] # 0 /\ busy \in [LoadWorkers -> Nat] /\ listed \in Seq(AllInterfaces)
        BY <1>3, <3>1 DEF AddressesArrive, AddressesFail, HostIInv
      <3>3. busy[w] \in Nat \ {0} /\ busy[w] <= Len(listed)
        BY <3>2 DEF Positions
      <3>4. DOMAIN listed = 1 .. Len(listed) /\ Len(listed) \in Nat
        BY <3>2
      <3> QED BY <3>3, <3>4
    <2> QED BY <1>3, <2>1 DEF AddressesArrive, AddressesFail, HostShaped
  <1>4. CASE Summarise \/ ListPageFails
    <2>1. (total > Len(listed)) \in BOOLEAN
      OBVIOUS
    <2>2. shown' \in ShownRecord
      BY <1>1, <1>4, <2>1 DEF Summarise, ListPageFails, HostShaped
    <2> QED BY <1>4, <2>2 DEF Summarise, ListPageFails, HostShaped
  <1>5. CASE RetryAll
    <2>1. 1 \in 1 .. MaxPages /\ 0 \in 0 .. LastInterface
      <3>1. MaxPages \in Nat \ {0} /\ LastInterface \in Nat
        BY HostAddressesAssumption
      <3> QED BY <3>1
    <2> QED BY <1>1, <1>5, <2>1 DEF RetryAll, Begin, HostShaped
  <1>6. CASE LeaveHost
    BY <1>6 DEF LeaveHost, HostShaped
  <1>7. ASSUME NEW i \in AllInterfaces, ChangeInterface(i) PROVE HostShaped'
    <2>1. changes' \in 0 .. MaxChanges
      <3>1. changes \in 0 .. MaxChanges /\ MaxChanges \in Nat
        BY HostAddressesAssumption DEF HostShaped
      <3> QED BY <1>7, <3>1 DEF ChangeInterface
    <2> QED BY <1>7, <2>1 DEF ChangeInterface, HostShaped
  <1> QED BY <1>2, <1>3, <1>4, <1>5, <1>6, <1>7 DEF HostNext, HostRun

(* The state of the panel's run is of its types: no page past the cap is   *)
(* asked for, and an outcome is that of an interface that was listed.      *)
THEOREM HostTyping == HostSpec => []HostTypeOK
  <1>1. HostInit => HostShaped
    <2> SUFFICES ASSUME HostInit PROVE HostShaped
      OBVIOUS
    <2>1. MaxPages \in Nat \ {0} /\ LastInterface \in Nat /\ MaxChanges \in Nat
      BY HostAddressesAssumption
    <2>2. 1 \in 1 .. MaxPages /\ 0 \in 0 .. LastInterface /\ 0 \in 0 .. MaxChanges
      BY <2>1
    <2>3. Showing("loading", FALSE) \in ShownRecord
      BY DEF Showing, ShownRecord
    <2> QED BY <2>2, <2>3 DEF HostInit, HostShaped
  <1>2. HostIInv /\ HostShaped /\ [HostNext]_hostVars => HostShaped'
    <2>1. HostShaped /\ UNCHANGED hostVars => HostShaped'
      BY DEF HostShaped, hostVars
    <2> QED BY <2>1, HostStaysShaped
  <1>3. HostIInv /\ HostShaped => HostTypeOK
    BY DEF HostIInv, HostShaped, HostTypeOK, ShownRecord
  <1> QED BY <1>1, <1>2, <1>3, AlwaysHostIInv, PTL DEF HostSpec
=============================================================================
