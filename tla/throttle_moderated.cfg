SPECIFICATION Spec
CONSTANTS
  Clients = {c1, c2}
  Window = 3
  Limit = 2
  Moderate = TRUE
  Elastic = TRUE
  Buffer = 0
  MaxClears = 1
  MaxTime = 6
  MaxQueue = 0
  MaxCrashes = 1
SYMMETRY ClientSymmetry
INVARIANTS TypeOK WindowBound WasteBound
PROPERTIES ModerationSpacing LimiterSpec
CHECK_DEADLOCK FALSE
