SPECIFICATION FairSpec
CONSTANTS
    Task <- TwoTasks
    BlockedBy <- Chain
    Conflict <- OneAndTwo
    Foreign = {}
    MaxConcurrent = 2
    MaxRequests = 2
    AuthEnabled = FALSE
    Watchdog = FALSE
    Faults = {"worker", "withdraw"}
    FlagFails = {}
    Exits = {"halt"}
    NoTask = NoTask
PROPERTIES RunEnds MigrationRuns
