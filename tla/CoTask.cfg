SPECIFICATION TaskFairSpec
CONSTANTS
  Co = {p, t1, t2, t3}
  parent = p
  MaxLoads = 4
INVARIANT GroupSafe
PROPERTY WaitReturns
CHECK_DEADLOCK FALSE
