\* The application keeps the contexts of clients that have ended.
SPECIFICATION Spec
CONSTANTS
  Nodes = {1, 2, 3}
  Keys = {0, 1, 2, 3}
  Width = 4
  MaxTime = 3
  DelayMax = 2
  MaxAhead = 2
  MaxPosts = 2
  MaxPackets = 2
  Careful = FALSE
INVARIANT SortedByWakeTime
CHECK_DEADLOCK FALSE
