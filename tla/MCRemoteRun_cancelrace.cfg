\* A cancel request that reads the task just before it is claimed.
CONSTANTS
    Task <- OneTask
    Worker = {w1}
    Capacity = 1
    ProtectedSlots = 1
    MaxFaults = 0
    NoTask = NoTask
    NoLease = NoLease
    Gone = Gone
SPECIFICATION Spec
INVARIANTS
    CancellingIsPursued
CHECK_DEADLOCK FALSE
