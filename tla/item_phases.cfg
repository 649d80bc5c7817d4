SPECIFICATION FairSpec
CONSTANTS
  d = d  v = v  w = w  t = t
  Task = {d, v, w, t}  PhaseOf <- Phases  MaxTrouble = 2
INVARIANT DesignIsReviewed
PROPERTIES DevelopIsGated DeliveredWhole ItemIsDelivered
