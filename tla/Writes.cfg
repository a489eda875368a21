SPECIFICATION Spec
CONSTANTS
  Byte <- MCByte
  Commands <- MCCommands
  Wrappers <- MCWrappers
  BytesOf <- MCBytesOf
  SizeOf <- MCSizeOf
  Reads <- MCReads
  MaxSize = 35
  NUL = "NUL"
  MaxCalls = 3
INVARIANTS
  TypeOK
  IInv
  WireIsWhole
  SuccessMeansSent
  FailureTellsHowFar
  BufferBetweenWrites
PROPERTY
  ImplementsLog
CHECK_DEADLOCK FALSE
