\* A list page with forms, dialogs and activities, and smaller instances of the others.
SPECIFICATION FairWebSpec
CONSTANTS
    Screens = {"list", "detail", "addresses", "binding", "select", "import",
               "authorizations", "session"}
    Objects = {o1}
    Nobody = Nobody
    Permissions = {"READ", "WRITE", "DELETE_OBJECT"}
    Mounted = {"endpoints"}
    MaxVersion = 3
    MaxFlights = 2
    Rights = {"WRITE", "DELETE_OBJECT", "RESTORE", "VIEW_DELETED"}
    LastVersion = 2
    MaxLoads = 2
    LastInterface = 3
    PageSize = 1
    MaxPages = 2
    Concurrency = 2
    MaxChanges = 1
    LastAddress = 2
    Ifaces = {i1}
    Elsewhere = elsewhere
    Unbound = unbound
    Queries = {""}
    Contested = {}
    LastWrite = 2
    MaxReads = 2
    Sheets <- AllSheets
    LastSaved = 3
    Parents = {p1}
    LastChild = 1
    Searches = {1}
    Movable = {1}
    NoChoice = noChoice
    OfferSize = 1
    Cascades <- AllCascades
    MaxAsks = 2
    Names = {h1}
    Batches <- Orders
    NoFile = noFile
    MaxCalls = 1
    MaxBatches = 1
    Grantees = {a1}
    Granted = {c1}
    Nothing = nothing
    HeldPage = 1
    HeldPages = 2
    LastGrant = 1
    NoCookie = noCookie
    LastSession = 2
    MaxStatusChanges = 1
    MaxTabCalls = 2
PROPERTIES
    WebSettles
\* the panel comes to rest when all is loaded or it was left
CHECK_DEADLOCK FALSE
