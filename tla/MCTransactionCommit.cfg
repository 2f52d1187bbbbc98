\* The session's next transaction may begin at any time, any transaction expire.
CONSTANTS
  c = c
  p = p
  q = q
  Shards <- ThreeShards
  Coordinator = c
  Expiring <- ThreeShards
  MaxTxn = 2
  MaxTime = 6
  Faults = {"Overtake"}
SPECIFICATION Spec
SYMMETRY Symmetric
CHECK_DEADLOCK FALSE
INVARIANTS TypeOK Atomicity NeverBroken
PROPERTY ImplementsAtomicCommit
