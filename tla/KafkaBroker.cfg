SPECIFICATION Spec
CONSTANTS
  Callers = {c1, c2, c3}
  MaxId = 8
INVARIANTS OpeningSafe OwnResponse LocksHeldForIO
PROPERTY CallsReturn
CHECK_DEADLOCK FALSE
