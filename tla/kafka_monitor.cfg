SPECIFICATION FairSpec
CONSTANTS
  Monitors = {k1, k2}
  Nobody = Nobody
  MaxMessages = 2
  MaxExpired = 1
  MaxChanges = 2
INVARIANTS KafkaInv InHandIsUncommitted
PROPERTIES EachServed ReaderSpec
CHECK_DEADLOCK FALSE
