SPECIFICATION FairSpec
CONSTANTS
  Node = {n1}
  NULL = NULL
  MaxLost = 0
PROPERTY IdleSignalExits
CHECK_DEADLOCK FALSE
