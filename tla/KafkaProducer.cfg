SPECIFICATION Spec
CONSTANTS
  Partitions = {q1}
  Brokers = {b1, b2}
  MaxSent = 3
  RetryMax = 1
  BufferLength = 1
  FlushMessages = 2
  MaxMoves = 1
INVARIANTS MessagesSafe InFlightExact ChaserOnItsWay FirstTurnInOrder
PROPERTY Settles
CHECK_DEADLOCK FALSE
