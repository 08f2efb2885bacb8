\* One task, one worker, two rounds, no faults.
CONSTANTS
    Task <- OneTask
    Worker = {w1}
    MaxAttempts = 3
    MaxRounds = 2
    MaxFaults = 0
    NoTask = NoTask
    NoToken = NoToken
    Gone = Gone
SPECIFICATION Spec
INVARIANTS
    DeletedHasEnded
