\* An unreachable path next to one that has failed.
SPECIFICATION Spec
CONSTANTS
  PathIds = {p1, p2}
  Tonopah = TRUE
  RepeatMax = 1
  MaxRetransmit = 1
  MaxPaths = 2
  ShortWait = 1
  LongWait = 1
  DemotionDelay = 1
  Events = {"unreachable"}
  Watched = {}
INVARIANT PathOrTermination
CHECK_DEADLOCK FALSE
