SPECIFICATION Spec
CONSTANTS
  N = 2
  UIntMod = 16
  NULL = NULL
  Proc = {p1}
  NL = NL
  Payload <- MCMultiLine
  ReadSize = {2}
  SeekOffset = {0, 1}
  LseekTarget = {0, 1}
  Ptr <- MCPtr
  ZERO_SIZE_PTR = ZERO_SIZE_PTR
  NoOwner = NoOwner
  Torn = Torn
  KmallocFails = FALSE
  KreallocFails = FALSE
  MaxWrites = 2
INVARIANT EntriesAreCommands
