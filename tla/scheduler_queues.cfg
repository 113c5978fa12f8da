SPECIFICATION FairSpec
CONSTANTS
  d1 = d1
  d2 = d2
  fast = fast
  Domains = {d1, d2}
  Reactor = Reactor
  Watchers = {w1}
  Default = Default
  Custom = {fast}
  Broken = Broken
  Unset = Unset
  Gone = Gone
  Configs <- TwoConfigs
  MaxEvents = 1
  MaxAges = 1
INVARIANTS SchedulerInv LimitRight
PROPERTIES ConfigLands DomainServed
CHECK_DEADLOCK FALSE
