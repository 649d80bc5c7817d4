SPECIFICATION Spec
CONSTANTS
    r1 = r1
    r2 = r2
    d1 = d1
    p1 = p1
    Release = {r1, r2}
    Driver = {d1}
    Person = {p1}
    Blocking <- SecondOrNone
    Manual = {r1}
    FirstOrder <- OrderOfFirst
    Done = {r2}
    Corrected = {r1}
    LaneOrder = {1}
    NoOrder = NoOrder
    NoRelease = NoRelease
    NoTxn = NoTxn
    None = None
    Driven = {r1}
    Reach <- SecondOnlyEnters
    MaxRework <- OneRework
    MaxOverwrites = 1
    Edits <- SomeEdits
    MaxEdits = 1
INVARIANT
    ReworkIsRejudged
CHECK_DEADLOCK FALSE
