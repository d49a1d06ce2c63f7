SPECIFICATION FairSpec
CONSTANTS
  s1 = s1
  s2 = s2
  Streams = {s1}
  Size <- Three
  InitialMaxStreamData = 2
  InitialMaxData = 2
  Expected = 3
  Events = {"loss", "repeat", "reset", "stop", "poll", "open"}
  MaxEvents = 1
INVARIANTS
  CreditRespected
  DataKept
PROPERTIES
  PipeSpec
  AllDelivered
CHECK_DEADLOCK FALSE
