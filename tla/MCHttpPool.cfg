CONSTANTS
  Requests = {r1, r2}
  Conns = {c1, c2}
  MAX_RETRIES = 1
  MayOutlast = FALSE
  None = None
  Gone = Gone
SPECIFICATION FairSpec
INVARIANTS InOnePlace NoIdleConnection ClosedMeansFreed
PROPERTIES ImplementsFetchService
CHECK_DEADLOCK FALSE
