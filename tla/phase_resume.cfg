SPECIFICATION DriverSpec
CONSTANTS
    Task <- TwoTasks
    BlockedBy <- Chain
    Conflict <- WithSibling
    Foreign = {11}
    MaxConcurrent = 2
    MaxRequests = 0
    AuthEnabled = FALSE
    Watchdog = FALSE
    Faults = {"withdraw"}
    FlagFails = {1, 2}
    Exits = {"noop"}
    NoTask = NoTask
    MaxLaunches = 3
    MaxCrashes = 2
    OrphansLive = FALSE
INVARIANTS NoCommittedWorkLost ForksHaveBlockersWork
