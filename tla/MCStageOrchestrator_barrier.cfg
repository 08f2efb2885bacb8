\* A barrier without request snapshot.
CONSTANTS
    Task <- OneTask
    Stages = 1
    MaxAttempts = 2
    Node = {n1}
    Eligible <- Everywhere
    MaxFaults = 1
    NoNode = NoNode
    NoStage = NoStage
    NoOp = NoOp
SPECIFICATION FairSpec
PROPERTIES
    BarrierIsLifted
\* The system stops when its tasks have ended.
CHECK_DEADLOCK FALSE
