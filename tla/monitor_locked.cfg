SPECIFICATION Spec
CONSTANTS
  Monitors = {m1, m2}
  Keys = {stop, timeout}
  Timed = {timeout}
  Nobody = Nobody
  Vacant = Vacant
  Retry = TRUE
  MaxFailures = 1
  MaxRequests = 2
  MaxTroubles = 3
  KeepHistory = TRUE
SYMMETRY MonitorSymmetry
INVARIANTS MonitorTypeOK InCharge ActedOnce GhostBound
PROPERTIES GiveUpCounted TakenForCause
CHECK_DEADLOCK FALSE
