SPECIFICATION FairChannelSpec
CONSTANTS
  Co = {p1, p2, g}
  Getters = {g}
  TryGetters = {g}
  MaxItems = 4
INVARIANTS QueueSafe NoSleeperWithItem
PROPERTY WokenAfterCallback
CHECK_DEADLOCK FALSE
