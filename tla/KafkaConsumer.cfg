SPECIFICATION Spec
CONSTANTS
  Partitions = {q1, q2}
  Brokers = {b1, b2}
  MaxLog = 2
  MaxChanges = 1
  MaxFaults = 1
INVARIANTS DeliverySafe Owned
PROPERTY ReadToTheEnd
CHECK_DEADLOCK FALSE
