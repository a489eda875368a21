SPECIFICATION Spec
CONSTANTS
  Streams <- MixedStreams
  ParseOf <- MCParse
  ReplyCounts = {1, 2, 3, 4}
  MaxReplies = 3
  MaxSize = 12
  IntMax = 100
  ReserveMax = 3
INVARIANTS
  TypeOK
  IInv
  NoAbort
  SuccessExact
  FailureJustified
  NeverWaitsWhenAnswered
  BufferAtReply
PROPERTY
  ImplementsChannel
CHECK_DEADLOCK FALSE
