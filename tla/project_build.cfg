SPECIFICATION FairSpec
CONSTANTS
  p = p  q = q  a = a  here = here  there = there
  Runtime = {p, q, a}  Kind <- TwoAndOne  CopyOf <- Clones
  Item = {1, 2}  BlockedBy <- OneFirst  ByHand = {}
  MaxParallel = 2  Closures = {"resolve"}
  NoOne = NoOne  Gone = Gone
  MaxFaults = 2
INVARIANTS LeaseInv OneRuntime StartedAfterBlockers
PROPERTY EligibleIsDriven
CHECK_DEADLOCK FALSE
