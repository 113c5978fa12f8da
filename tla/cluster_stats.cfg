SPECIFICATION ClusterSpec
CONSTANTS
  Machines = {h1, h2}
  Spiders = {link, wandering}
  Services = {kafka}
  Rest = rest
  Nowhere = Nowhere
  Interval = 1
  Timeout = 2
  ShownFor = 1
  Cycle = 1
  MaxStarts = 2
  MaxCounts = 2
  MaxTroubles = 1
SYMMETRY ClusterSymmetry
INVARIANTS ClusterInv AnswerRight
CHECK_DEADLOCK FALSE
