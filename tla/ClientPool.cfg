SPECIFICATION FairPoolSpec
CONSTANTS
  Co = {c1, c2, c3, c4}
  MaxClients = 2
  Watched = {c1}
  MaxDead = 1
INVARIANTS PoolSafe SpinsOnlyMiscounted
PROPERTY HeadServed
CHECK_DEADLOCK FALSE
