SPECIFICATION Spec
CONSTANTS
  MaxCalls = 2
  ExitCode = {0, 1, 127}
  Signal = {9}
  Thread = {t1, t2}
  NoThread = NoThread
  Wait = {0, 1, 3}
  MSEC_PER_SEC = 2
INVARIANTS
  TrueMeansDone
  ReturnsClean
  SleptInFull
CHECK_DEADLOCK FALSE
