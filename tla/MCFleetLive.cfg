\* One node of three protocols at two addresses, two claims, one fault; one
\* task with copies on two nodes, one fault; two callback rows, one worker that
\* may crash.
CONSTANTS
    n1 = n1
    n2 = n2
    NfNodes = {n1}
    NfUrls = {u1, u2}
    NfProtocols = {"h3", "official", "tk2sd"}
    NfMaxVersion = 2
    NfMaxClaims = 2
    NfMaxFaults = 1
    DelTasks = {t1}
    DelNodes = {n1, n2}
    DelHome <- Home
    DelMaxAttempts = 2
    DelMaxFaults = 1
    DelMaxRetries = 0
    Delivery <- TwoRows
    CbWorker = {w1}
    CbMaxAttempts = 2
    CbMaxFaults = 1
    NoRow = NoRow
SPECIFICATION SuiteSpec
INVARIANTS
    OneRuntimePerNode
    WorkStaysReachable
PROPERTIES
    SavesAreApplied
    ItemSettles
    
\* Each part stops when its tasks have ended or its bounds are reached.
CHECK_DEADLOCK FALSE
