\* List pages of every kind, every form and select, two addresses to bind, interfaces listed one
\* per page, two import batches of the same two names in opposite orders.
SPECIFICATION WebSpec
CONSTANTS
    Screens = {"list", "detail", "addresses", "binding", "form", "select", "import",
               "authorizations", "session"}
    Objects = {o1}
    Nobody = Nobody
    Permissions <- AllPermissions
    Mounted <- DistinctSections
    MaxVersion = 3
    MaxFlights = 2
    Rights = {"WRITE", "DELETE_OBJECT", "RESTORE", "VIEW_DELETED"}
    LastVersion = 4
    MaxLoads = 2
    LastInterface = 3
    PageSize = 1
    MaxPages = 2
    Concurrency = 2
    MaxChanges = 1
    LastAddress = 2
    Ifaces = {i1}
    Elsewhere = elsewhere
    Unbound = unbound
    Queries = {"", "1"}
    Contested = {1}
    LastWrite = 3
    MaxReads = 1
    Sheets <- AllSheets
    LastSaved = 3
    Parents = {p1, p2}
    LastChild = 2
    Searches = {2}
    Movable = {1}
    NoChoice = noChoice
    OfferSize = 1
    Cascades <- AllCascades
    MaxAsks = 2
    Names = {h1, h2}
    Batches <- Orders
    NoFile = noFile
    MaxCalls = 2
    MaxBatches = 2
    Grantees = {a1, a2}
    Granted = {c1, c2}
    Nothing = nothing
    HeldPage = 1
    HeldPages = 2
    LastGrant = 1
    NoCookie = noCookie
    LastSession = 2
    MaxStatusChanges = 2
    MaxTabCalls = 2
INVARIANTS
    WebTypeOK
    ListFresh
    ShowsItsQuery
    DialogOverItsRow
    DetailFresh
    CompleteUnlessDeleted
    TruthfulResults
    OffersCurrent
    ImportsWhatWasValidated
    BatchesWhole
    AuthorizationsCurrent
PROPERTIES
    NoBlindOverwrite
    EditsWhatItShows
    NeverSteals
    SavesWhatWasTyped
\* a page that only reads comes to rest, and so does a panel that was left
CHECK_DEADLOCK FALSE
