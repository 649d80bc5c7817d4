SPECIFICATION DriverSpec
CONSTANTS
    Task <- TwoTasks
    BlockedBy <- Chain
    Conflict <- OneAndTwo
    Foreign = {}
    MaxConcurrent = 2
    MaxRequests = 0
    AuthEnabled = FALSE
    Watchdog = FALSE
    Faults = {"withdraw"}
    FlagFails = {2}
    Exits = {"noop"}
    NoTask = NoTask
    MaxLaunches = 3
    MaxCrashes = 2
    OrphansLive = TRUE
INVARIANT OneAgentPerTask
PROPERTY CompleteIsFinal
