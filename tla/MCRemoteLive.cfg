\* One remote task, two goroutines, one fault; two inputs that change, two
\* workers, three faults; one legacy task, one fault.
CONSTANTS
    Task <- OneTask
    Worker = {w1, w2}
    Capacity = 1
    ProtectedSlots = 1
    MaxFaults = 1
    NoTask = NoTask
    NoLease = NoLease
    Gone = Gone
    RiWorkers = {w1, w2}
    RiInputs <- Inputs
    RiContents <- Contents
    RiSource <- Source
    RiTimeLimit = 15
    RiMaxFaults = 3
    RiNobody = Nobody
    RiNoAsset = NoAsset
    LwTasks = {1}
    LwMaxSubmits = 3
    LwMaxFaults = 1
    LwNoJob = NoJob
    LwNoBaseline = NoBaseline
SPECIFICATION SuiteSpec
INVARIANTS
    
    VerdictMatchesJob
    SlotMatchesRun
    FrozenRequestIsTrue
    SubmissionsCounted
PROPERTIES
    EndIsFinal
    RemoteRunEnds
    
    
\* Each part stops when its tasks have ended.
CHECK_DEADLOCK FALSE
