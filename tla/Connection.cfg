SPECIFICATION FairSpec
CONSTANTS
  Scenarios <- MCScenarios
  MaxInFlight = 2
  MaxCredit = 3
INVARIANT HandshakeAgreed
PROPERTIES ConnectionCompletes ClosedStaysClosed
CHECK_DEADLOCK FALSE
