SPECIFICATION Spec
CONSTANTS
  N = 2
  UIntMod = 16
  NULL = NULL
  Proc = {p1, p2}
  NL = NL
  Payload <- MCPayload
  ReadSize = {2}
  SeekOffset = {0, 1}
  LseekTarget = {0, 1}
  Ptr <- MCPtr
  ZERO_SIZE_PTR = ZERO_SIZE_PTR
  NoOwner = NoOwner
  Torn = Torn
  KmallocFails = TRUE
  KreallocFails = FALSE
  MaxWrites = 3
SYMMETRY Processes
INVARIANTS
  TypeOK
  LockDiscipline
  OneOwner
  HoldsRecentCommands
  ScanIsPrefix
  ReadsInBounds
PROPERTIES
  EOFMeansAll
  DeviceSpec
