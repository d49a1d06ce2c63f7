SPECIFICATION MCSpec
CONSTANTS
  OpenerIsClient = TRUE
  Bidir = TRUE
  FirstRank = 1
  MaxRank = 3
  Preferred = {2}
  Stopped = {1}
  Careful = TRUE
INVARIANTS NoStreamError  CidsAgree
PROPERTIES StreamsOpen RetirementCompletes EventuallyReported
CHECK_DEADLOCK FALSE
