SPECIFICATION Spec
CONSTANTS
  CIRCULAR_BUF_DEPTH = 2
  MaxAlarms = 3
  Thread = {t1, t2}
  Main = Main
  NoOwner = NoOwner
  MaxBytes = 4
  BUF_SIZE_UNIT = 2
SYMMETRY Threads
INVARIANTS
  TypeOK
  MutexHeld
  StringsWhole
  EchoIsFile
  RingSafeOnMain
CHECK_DEADLOCK FALSE
