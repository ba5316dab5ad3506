SPECIFICATION Spec
CONSTANTS
  Attempts = 2
  MaxKeys = 1
INVARIANT DataAcknowledged
CHECK_DEADLOCK FALSE
