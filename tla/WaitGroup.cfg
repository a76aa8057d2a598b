SPECIFICATION GroupFairSpec
CONSTANTS
  Thread = {t1, t2}
  Co = {c1, c2, c3}
  MaxAdds = 2
INVARIANTS WaitersSafe ReturnsAfterZero
PROPERTY WaitReturns
CHECK_DEADLOCK FALSE
