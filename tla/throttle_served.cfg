SPECIFICATION LiveSpec
CONSTANTS
  Clients = {c1, c2}
  Window = 3
  Limit = 2
  Moderate = TRUE
  Elastic = FALSE
  Buffer = 0
  MaxClears = 0
  MaxTime = 6
  MaxQueue = 1
  MaxCrashes = 0
PROPERTY QueueServed
