\* Ranges: five packets before any frame reached the peer, or three at any time.
CONSTANTS
  Repeat = 2
  MaxRanges = 1
  HorizonDelay = 1
  MaxPn = 4
  MaxTime = 2
  MaxFrames = 2
  Kinds = {"ack_only"}
  Rooms = {0, 1}
  AckDelay = 0
  AckGap = 2
  Few = 2
SPECIFICATION RangesSpec
INVARIANTS
  TypeOK
  RangesSeparated
  AcksTruthful
  RangeCountsExact
  NothingForgotten
PROPERTIES
  MostUrgentSelected
CONSTRAINT ManyOrFew
CHECK_DEADLOCK FALSE
