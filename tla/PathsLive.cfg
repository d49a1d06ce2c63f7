\* Validation and demotion come to an end, under fairness.
SPECIFICATION UsualSpec
CONSTANTS
  PathIds = {p1, p2}
  Tonopah = TRUE
  RepeatMax = 1
  MaxRetransmit = 0
  MaxPaths = 2
  ShortWait = 1
  LongWait = 1
  DemotionDelay = 1
  Events = {}
  Watched = {p2}
PROPERTIES
  ChallengeDecided
  DemotedLeave
CHECK_DEADLOCK FALSE
