SPECIFICATION FairSpec
CONSTANTS
  Services = {s1, s2}
  Asks = {a1}
  Crawls = {c1, c2}
  Nowhere = Nowhere
  MaxFaults = 1
INVARIANTS RestTypeOK PollFinds HandedOut EntriesSettled MisledBound
PROPERTY PollServed
CHECK_DEADLOCK FALSE
