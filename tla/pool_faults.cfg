SPECIFICATION Spec
CONSTANTS
    Task <- TwoTasks
    BlockedBy <- Independent
    Conflict <- TwoWithSibling
    Foreign = {11}
    MaxConcurrent = 2
    MaxRequests = 1
    AuthEnabled = TRUE
    Watchdog = TRUE
    Faults = {"worker", "main", "gate_read"}
    FlagFails = {1, 2}
    Exits = {}
    NoTask = NoTask
INVARIANTS IInv OnlySucceededLands EveryDispatchReported
PROPERTIES ReportIsFinal
