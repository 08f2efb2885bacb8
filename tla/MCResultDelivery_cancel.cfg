\* One task, one worker, one round, no faults.
CONSTANTS
    Task <- OneTask
    Worker = {w1}
    MaxAttempts = 3
    MaxRounds = 1
    MaxFaults = 0
    NoTask = NoTask
    NoToken = NoToken
    Gone = Gone
SPECIFICATION FairSpec
PROPERTIES
    CancellingEnds
