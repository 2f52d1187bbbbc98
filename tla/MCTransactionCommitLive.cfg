\* One transaction, no fault but that it may expire on the coordinator's shard.
CONSTANTS
  c = c
  p = p
  q = q
  Shards <- ThreeShards
  Coordinator = c
  Expiring = {c}
  MaxTxn = 1
  MaxTime = 6
  Faults = {}
SPECIFICATION FairSpec
CHECK_DEADLOCK FALSE
PROPERTIES PreparedIsResolved CommitIsAnswered
