SPECIFICATION FairSpec
CONSTANTS
  Crawls = {c1}
  Stoppable = {c1}
  Expiring = {c1}
  Nothing = Nothing
  Capacity = 1
  Spiders = {s1, s2}
  Urls = {u1}
  MaxDepth = 2
  PageLimit = 3
  MaxRetries = 1
  MaxFeeds = 1
  MaxTroubles = 1
  KeepHistory = FALSE
PROPERTY CrawlEnds
CHECK_DEADLOCK FALSE
