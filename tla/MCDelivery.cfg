\* One task, two workers, two faults, two rounds of three attempts; two official
\* tasks that look different; two API keys, one of them of the configuration.
CONSTANTS
    Task <- OneTask
    Worker = {w1, w2}
    MaxAttempts = 3
    MaxRounds = 2
    MaxFaults = 2
    NoTask = NoTask
    NoToken = NoToken
    Gone = Gone
    OfTasks = {1, 2}
    OfShape <- Shapes
    OfCapacities = {1, 2}
    OfReplace = TRUE
    OfMaxRestarts = 1
    OfMaxFaults = 1
    OfNoJob = NoJob
    OfNoBaseline = NoBaseline
    ApiKey = {k1, k2}
    LegacyKey = {k1}
    Admin = {a1}
    Ticker = ticker
    KeyNames = {x}
    MaxVersion = 2
    MaxRestarts = 2
SPECIFICATION SuiteSpec
PROPERTIES
    DeliveryIsConsistent
    DeliveryTerminates
    OfSlotIsReturned
    KeysChangeByChoice
    DisabledKeyIsRefused
\* The parts stop at their bounds.
CHECK_DEADLOCK FALSE
