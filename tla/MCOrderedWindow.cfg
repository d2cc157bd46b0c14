\* Two windows of three items that share one slot.
SPECIFICATION FairSpec
CONSTANTS
  Window = {a, b}
  Items = 3
  MaxLimit = 2
  Slots = 1
INVARIANTS
  TasksBelongToTheirWindow
PROPERTIES
  EveryWindowCloses
CHECK_DEADLOCK FALSE
