SPECIFICATION Spec
CONSTANTS
  Processes = {p1, p2}
  Window = 2
  CycleTime = 1
  MaxTime = 6
  MaxHits = 2
  MaxFaults = 1
  MaxCrashes = 1
INVARIANTS StatsInv InItsWindow
CHECK_DEADLOCK FALSE
