SPECIFICATION Spec
CONSTANTS
  Crawls = {c1}
  Stoppable = {c1}
  Expiring = {}
  Nothing = Nothing
  Capacity = 1
  Spiders = {s1, s2}
  Urls = {u1, u2, u3}
  MaxDepth = 1
  PageLimit = 3
  MaxRetries = 1
  MaxFeeds = 1
  MaxTroubles = 1
  KeepHistory = TRUE
SYMMETRY FrontierSymmetry
INVARIANTS FrontierTypeOK StopHolds PageBound VisitBound SeenAccounted
CHECK_DEADLOCK FALSE
