SPECIFICATION FairSpec
CONSTANTS
  Monitors = {m1, m2}
  Requests = {q1, q2}
  Nothing = Nothing
  MaxFaults = 2
  MaxCrashes = 1
INVARIANTS ConfigInv ValidIsCurrent
PROPERTY ConfigArrives
CHECK_DEADLOCK FALSE
