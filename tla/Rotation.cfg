\* The code's condition only: no wait for the ACK of the current key.
SPECIFICATION Spec
CONSTANTS
  Window = 4
  EpochLength = 1
  MaxPn = 3
  MaxEpoch = 2
  Confirmed = FALSE
PROPERTY RotationConfirmed
CHECK_DEADLOCK FALSE
