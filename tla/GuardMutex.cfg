SPECIFICATION MutexFairSpec
CONSTANTS
  Thread = {t1, t2}
  Co = {c1, c2, c3}
INVARIANTS MutexTypeOK NoAssert MutualExclusion WakeInFlight
PROPERTIES NoBarging LockGranted
