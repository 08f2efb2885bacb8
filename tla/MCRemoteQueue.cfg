\* Two remote tasks compete for one slot, one fault; two legacy tasks; two
\* callback rows, two workers, two attempts, one fault; one task with copies on
\* two nodes, two attempts, one fault, one retry; a schema of four versions,
\* two nodes, two faults.
CONSTANTS
    n1 = n1
    n2 = n2
    Task <- TwoTasks
    Worker = {w1}
    Capacity = 1
    ProtectedSlots = 1
    MaxFaults = 1
    NoTask = NoTask
    NoLease = NoLease
    Gone = Gone
    LwTasks = {1, 2}
    LwMaxSubmits = 3
    LwMaxFaults = 0
    LwNoJob = NoJob
    LwNoBaseline = NoBaseline
    Delivery <- TwoRows
    CbWorker = {w1, w2}
    CbMaxAttempts = 2
    CbMaxFaults = 1
    NoRow = NoRow
    DelTasks = {t1}
    DelNodes = {n1, n2}
    DelHome <- Home
    DelMaxAttempts = 2
    DelMaxFaults = 1
    DelMaxRetries = 1
    SmLatest = 4
    SmNodes = {"a", "b"}
    SmProto <- NodeProtocol
    SmOld = "old"
    SmMaxFaults = 2
SPECIFICATION SuiteSpec
INVARIANTS
    LoadBounded
    SendsAccounted
    DeletionIsReported
    ServesCompleteSchema
    RoutedWhereItBelongs
PROPERTIES
    OldJobsKeptApart
    OutboxIsHonest
    FilesAreTracked
\* Each part stops when its tasks have ended or its bounds are reached.
CHECK_DEADLOCK FALSE
