\* Unidirectional streams of a client, with a limit of one stream at first.
SPECIFICATION Spec
CONSTANTS
  OpenerIsClient = TRUE
  Bidir = FALSE
  FirstRank = 1
  MaxRank = 3
  Preferred = {}
  Stopped = {}
  Careful = TRUE
INVARIANT HighestSent
CHECK_DEADLOCK FALSE
