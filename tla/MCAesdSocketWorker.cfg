SPECIFICATION FairSpec
CONSTANTS
  BUF_SIZE_UNIT = 2
  MaxBytes = 5
  MaxEcho = 2
INVARIANTS
  TypeOK
  WindowReceived
  
  EchoExact
  CleanExit
PROPERTY EndsAfterPeer
CHECK_DEADLOCK FALSE
