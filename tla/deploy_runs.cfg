SPECIFICATION Spec
CONSTANTS
    Run = {1}
    Worker = {w1, w2}
    Client = {c1}
    Address = {a1, a2}
    NoRun = 0
    NoWorker = NoWorker
    NoAddress = NoAddress
    NotOpen = NotOpen
    PhaseOrder <- ShortOrder
    Attached = TRUE
    MaxRequests = 3
    MaxCrashes = 1
    MaxLapses = 0
    Overwriting = FALSE
SYMMETRY Symm
CHECK_DEADLOCK FALSE
INVARIANTS OneHolder OneServer SucceededIsBuilt OpenItemsTold
PROPERTIES LandedIsFinal
