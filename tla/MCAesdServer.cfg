SPECIFICATION ServerFairSpec
CONSTANTS
  Node = {n1, n2, n3}
  NULL = NULL
  MaxLost = 1
  TQHead = TQHead
  MaxAddr = 2
INVARIANTS
  TypeOK
  ListOwnsThreads
  CursorAllocated
  ExitIsClean
  QueueIsList
  StartIsWhole
PROPERTIES
  
  SeenSignalExits
CHECK_DEADLOCK FALSE
