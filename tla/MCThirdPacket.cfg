SPECIFICATION FairSpec
CONSTANTS
  BUF_SIZE_UNIT = 2
  MaxBytes = 5
  MaxEcho = 2
INVARIANT PacketsExact
CHECK_DEADLOCK FALSE
