\* One task of two stages on two nodes; two requests of one owner and an older
\* task; two nodes and two callers of the refresh; two official tasks
\* that look alike; two administrators of the object storage.
CONSTANTS
    n1 = n1
    n2 = n2
    Task <- OneTask
    Stages = 2
    MaxAttempts = 2
    Node = {n1, n2}
    Eligible <- Everywhere
    MaxFaults = 2
    NoNode = NoNode
    NoStage = NoStage
    NoOp = NoOp
    TaRequests = {1, 2}
    TaLegacy = {0}
    TaOwner <- Owner
    TaIdem <- SameKey
    TaProtocol <- TaskProtocol
    TaNoKey = NoKey
    PerKeyLimit = 1
    GlobalLimit = 2
    ProtectedSlots = 1
    TaMaxCrashes = 1
    TaMaxRetries = 1
    MrNodes = {n1, n2}
    MrDiscovered = {n1}
    MrProto <- NodeProtocol
    MrModels = {m1}
    MrConns = {c1, c2}
    MrCallers = {ticker, admin}
    MrTicker = ticker
    MrMaxSaves = 2
    MrMaxRev = 4
    MrMaxClock = 2
    MrMaxTasks = 1
    OfTasks = {1, 2}
    OfShape <- Alike
    OfCapacities = {1, 2}
    OfReplace = TRUE
    OfMaxRestarts = 1
    OfMaxFaults = 1
    OfNoJob = NoJob
    OfNoBaseline = NoBaseline
    OsAdmins = {a1, a2}
    OsPlaces = {"p"}
    OsKeys = {"k1", "k2"}
    OsMaxVersion = 3
SPECIFICATION SuiteSpec
INVARIANTS
    StageRowsAgree
    CancelledIsFenced
    
    SpoolMatchesRows
PROPERTIES
    ImplementsPipeline
    RetriesAreUsed
    AdmissionIsExact
    CatalogIsKept
    RouteIsFollowed
    OfAccountSpared
    StorageIsTrusted
\* Each part stops when its tasks have ended or its bounds are reached.
CHECK_DEADLOCK FALSE
