SPECIFICATION ChannelFairSpec
CONSTANTS
  Thread = {t1, t2}
  Co = {c1, c2, c3}
  MaxItems = 2
  StopsToo = TRUE
INVARIANTS HandOffSafe NoSleeperWithItem
PROPERTIES ImplementsFifo HandedIsReceived
CHECK_DEADLOCK FALSE
