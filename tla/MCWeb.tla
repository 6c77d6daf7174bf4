-------------------------------- MODULE MCWeb --------------------------------
(***************************************************************************)
(* TLC instances of the web frontend.  HomePage mounts one screen at a     *)
(* time, so a behaviour is the life of one screen: a list page, the        *)
(* detail and create pages of an object, the addresses of a Resource, the  *)
(* binding of addresses, a form, a select of a form, an import panel, the  *)
(* panel of the authorizations, or the shell with its login.               *)
(* The screens that are not mounted are at rest in one state, with no      *)
(* request in flight.                                                      *)
(***************************************************************************)
EXTENDS ListPage, DetailPage, HostAddresses, Bindings, Forms, Selections, Imports,
    Authorizations, Session

CONSTANT Screens    \* the screens a behaviour may be about

VARIABLE screen     \* the one it is about

webVars == <<screen, pageVars, detailVars, hostVars, bindVars, formVars, selectVars, importVars,
             grantVars, sessionVars>>

AllPermissions ==
    {"READ", "WRITE", "DELETE_OBJECT", "RESTORE", "RELEASE_IP", "VIEW_DELETED", "USER_ADMIN"}
(* The page of the pools has the record of the networks; those of the      *)
(* addresses and of the services differ from it in what the page of the    *)
(* endpoints, which also shows activities, and two kinds of create add.    *)
DistinctSections == DOMAIN Page \ {"ip_pools", "ip_addresses", "services"}
AllSheets == DOMAIN Sheet
AllCascades == DOMAIN Cascade
Orders == {<<>>} \union SetToSeqs(Names)
(* Which account has a Cluster at the start, and which, does not matter.   *)
NoGrants == [a \in Grantees |-> {}]
StartingGrants ==
    {NoGrants, [NoGrants EXCEPT ![CHOOSE a \in Grantees : TRUE] =
                  {Authorization(CHOOSE c \in Granted : TRUE, 0)}]}

ListAtRest ==
    /\ section = CHOOSE s \in Mounted : TRUE
    /\ db = NoRows
    /\ query = [filter |-> CHOOSE f \in This.initial : TRUE, page |-> 1]
    /\ flights = {} /\ list = [Loading(query) EXCEPT !.kind = "error"] /\ mode = ListMode
    /\ form = IdleForm /\ dialog = IdleDialog /\ activity = NoActivity
    /\ floor = [o \in Objects |-> 0]
HostAtRest ==
    /\ live = {} /\ steady = {} /\ phase = "ended" /\ page = 1 /\ listed = <<>> /\ total = 0
    /\ nextIndex = 1 /\ busy = Idle /\ succeeded = {} /\ failures = {}
    /\ shown = Showing("loading", FALSE) /\ unmounted = TRUE /\ changes = 0
FormAtRest ==
    /\ sheet = CHOOSE s \in Sheets : TRUE
    /\ watched = CHOOSE w \in Watchable : TRUE
    /\ stored = NoObject /\ formMode = "closed" /\ base = NoObject /\ texts = NoTexts
    /\ post = NoPost
SelectAtRest ==
    /\ cascade = CHOOSE c \in Cascades : TRUE
    /\ parent = NoChoice /\ child = NoChoice /\ pinned = NoChoice /\ itself = NoChoice
    /\ searchInput = Scoped(NoChoice, NoSearch) /\ committedInput = Scoped(NoChoice, NoSearch)
    /\ offers = NothingOffered /\ asks = {}
    /\ belongs = [c \in Children |-> NoChoice] /\ was = [c \in Children |-> {NoChoice}]

SessionAtRest ==
    /\ status = "ACTIVE" /\ statusChanges = 0 /\ sessions = {} /\ lastSession = 1
    /\ cookie = NoCookie /\ tab = "login" /\ tabCalls = {}

WebInit ==
    /\ screen \in Screens
    /\ IF screen = "list" THEN ListInit ELSE ListAtRest
    /\ DetailInit /\ (screen # "detail" => row = NoRow)
    /\ IF screen = "addresses" THEN HostInit ELSE HostAtRest
    /\ BindInit
    /\ IF screen = "form" THEN FormsInit ELSE FormAtRest
    /\ IF screen = "select" THEN SelectInit ELSE SelectAtRest
    /\ GrantsInit /\ active \in StartingGrants /\ (screen # "authorizations" => active = NoGrants)
    /\ IF screen = "session" THEN SessionInit ELSE SessionAtRest
    /\ ImportInit /\ (screen # "import" => created = [h \in Names |-> NoFile])

(* The others stay as they are. *)
Rest(s) ==
    /\ screen = s
    /\ s # "list" => UNCHANGED pageVars
    /\ s # "detail" => UNCHANGED detailVars
    /\ s # "addresses" => UNCHANGED hostVars
    /\ s # "binding" => UNCHANGED bindVars
    /\ s # "form" => UNCHANGED formVars
    /\ s # "select" => UNCHANGED selectVars
    /\ s # "import" => UNCHANGED importVars
    /\ s # "authorizations" => UNCHANGED grantVars
    /\ s # "session" => UNCHANGED sessionVars

WebNext ==
    /\ UNCHANGED screen
    /\ \/ Rest("list") /\ ListNext
       \/ Rest("detail") /\ DetailNext
       \/ Rest("addresses") /\ HostNext
       \/ Rest("binding") /\ BindNext
       \/ Rest("form") /\ FormsNext
       \/ Rest("select") /\ SelectNext
       \/ Rest("import") /\ ImportNext
       \/ Rest("authorizations") /\ GrantsNext
       \/ Rest("session") /\ SessionNext

WebSpec == WebInit /\ [][WebNext]_webVars

(* At rest no fair action of a screen is enabled. *)
FairWebSpec ==
    /\ WebSpec
    /\ ListFairness /\ DetailFairness /\ HostFairness /\ BindFairness
    /\ SelectFairness /\ ImportFairness /\ GrantsFairness /\ SessionFairness

------------------------------------------------------------------------------
(* The types of the state of the screen that is mounted. *)
WebTypeOK ==
    /\ screen = "list" => ListTypeOK
    /\ screen = "detail" => DetailTypeOK
    /\ screen = "addresses" => HostTypeOK
    /\ screen = "binding" => BindTypeOK
    /\ screen = "form" => FormsTypeOK
    /\ screen = "select" => SelectTypeOK
    /\ screen = "import" => ImportTypeOK
    /\ screen = "authorizations" => GrantsTypeOK
    /\ screen = "session" => SessionTypeOK

(* Nothing of the frontend loads forever or stays busy, although answers   *)
(* are lost, late or come in another order.                                *)
WebSettles ==
    ListSettles /\ RequestsSettle /\ DetailSettles /\ HostSettles /\ BindingSettles
        /\ OffersSettle /\ ImportsSettle /\ GrantsSettle /\ SessionSettles
=============================================================================
