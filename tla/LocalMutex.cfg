SPECIFICATION FairMutexSpec
CONSTANTS
  Co = {c1, c2, c3}
  MaxLocks = 2
INVARIANT LockSafe
PROPERTY LockGranted
CHECK_DEADLOCK FALSE
