SPECIFICATION RingSpec
CONSTANTS
  CIRCULAR_BUF_DEPTH = 2
  MaxAlarms = 3
INVARIANT NeverStuck
CHECK_DEADLOCK FALSE
