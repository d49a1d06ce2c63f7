SPECIFICATION MCSpec
CONSTANTS
  Window = 4
  EpochLength = 1
  MaxPn = 3
  MaxEpoch = 2
  Confirmed = TRUE
  StartMtu = 5
  ResetMtu = 3
  First = 6
  Second = 4
  RemoteMax = 7
  LocalMax = 0
  PracticalMax = 5
  PacketMax = 8
  Buffers = {5, 8}
  Queued = {12, 200}
  Cost = 1
  Policies = {"basic", "required"}
  LossThreshold = 1
  MaxPackets = 4
  Nano = 3
  RateUnit = 12
  Mtu = 2
  Rtts = {4}
  Cwins = {8, 40}
  RateBytes = {1}
  RateNanos = {2}
  Quanta = {0, 2}
  LongRtt = 3
  SlowQuantum = 5
  Decreases = {30}
  Increases = {3, 30}
  NoThreshold = 30
  Train = TRUE
  MaxTime = 2
INVARIANTS  NumbersRebuilt MtuSound PacingSound 
PROPERTIES StepsModerate WindowRestored
CONSTRAINT Focus
CHECK_DEADLOCK FALSE
