SPECIFICATION MCSpec
CONSTANTS
  PathIds = {p1, p2}
  Tonopah = TRUE
  RepeatMax = 1
  MaxRetransmit = 0
  MaxPaths = 2
  ShortWait = 1
  LongWait = 1
  DemotionDelay = 1
  Events = {"idle", "nat", "abandon", "abandon_frame", "unreachable"}
  Watched = {}
SYMMETRY Symmetric
INVARIANTS PacketsUnderstood DeadlinesKept  StoresSound
  DemotionTracked
PROPERTY DisconnectOnlyWhenNoneUsable
CHECK_DEADLOCK FALSE
