SPECIFICATION SysFairSpec
CONSTANTS
  N = 2
  UIntMod = 16
  NULL = NULL
  Proc = {p1, p2}
  NL = NL
  Payload <- MCPacket
  ReadSize = {2}
  SeekOffset = {0, 1}
  LseekTarget = {0}
  Ptr <- MCPtr
  ZERO_SIZE_PTR = ZERO_SIZE_PTR
  NoOwner = NoOwner
  Torn = Torn
  KmallocFails = TRUE
  KreallocFails = FALSE
  MaxWrites = 5
  MaxPackets = 2
  MaxSignals = 1
INVARIANTS
  StoredOnce
PROPERTIES
  EchoHasPacket
  PacketServed
CHECK_DEADLOCK FALSE
