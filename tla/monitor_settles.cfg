SPECIFICATION FairSpec
CONSTANTS
  Monitors = {m1, m2}
  Keys = {stop, timeout}
  Timed = {timeout}
  Nobody = Nobody
  Vacant = Vacant
  Retry = TRUE
  MaxFailures = 1
  MaxRequests = 2
  MaxTroubles = 1
  KeepHistory = FALSE
PROPERTY KeySettles
CHECK_DEADLOCK FALSE
