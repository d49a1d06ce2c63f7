\* Detection of fair queuing on an established connection.
SPECIFICATION EstablishedSpec
CONSTANTS
  PathIds = {a, b}
  a = a
  b = b
  NULL = NULL
  CwinMin = 4
  CwinInitial = 8
  Unlimited = 1000
  MaxInterval = 0
  Threshold = 0
  AckBytes = {4}
  Growth = {0}
  Seeds = {}
  Rtts = {1, 2}
  InitialRtt = 1
  MaxCwin = 8
  MaxTime = 6
  MaxSeq = 3
  MaxFlight = 1
  MaxAcks = 1
  MaxMarks = 0
  MaxCnx = 1
CHECK_DEADLOCK FALSE
CONSTRAINT ShortOrPlain
INVARIANT TypeOK
INVARIANT FinishedHasNext
INVARIANT IntervalsOrdered
INVARIANT CwinFloor
INVARIANT SharesFollowWindow
PROPERTY FqCutsSpaced
SYMMETRY Symmetric
