SPECIFICATION Spec
CONSTANTS
  N = 3
  UIntMod = 8
  NULL = NULL
  Ptr = {p1, p2, p3, p4}
  MaxSize = 2
INVARIANT SeekToWriteCommand
