SPECIFICATION Spec
CONSTANTS
    Task <- FourTasks
    BlockedBy <- ChainAndTwo
    Conflict <- OneAndThree
    Foreign = {}
    MaxConcurrent = 2
    MaxRequests = 1
    AuthEnabled = FALSE
    Watchdog = FALSE
    Faults = {}
    FlagFails = {2, 3}
    Exits = {}
    NoTask = NoTask
INVARIANTS ExclusiveWindow DependentsForkAfterBlockers CompleteIsAccounted DrainLeavesNothing AgentCap
PROPERTIES LandsOnlyTested PausesDrainsAndRuns
