SPECIFICATION FairSpec
CONSTANTS
    Run = {1}
    Worker = {w1, w2}
    Client = {c1}
    Address = {a1}
    NoRun = 0
    NoWorker = NoWorker
    NoAddress = NoAddress
    NotOpen = NotOpen
    PhaseOrder <- OneStep
    Attached = FALSE
    MaxRequests = 2
    MaxCrashes = 1
    MaxLapses = 1
    Overwriting = TRUE
CHECK_DEADLOCK FALSE
PROPERTIES CancelSurvives EveryRunLands
