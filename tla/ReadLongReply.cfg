SPECIFICATION Spec
CONSTANTS
  Streams <- MixedStreams
  ParseOf <- MCParse
  ReplyCounts = {1}
  MaxReplies = 2
  MaxSize = 12
  IntMax = 3
  ReserveMax = 3
INVARIANT
  NeverWaitsWhenAnswered
CHECK_DEADLOCK FALSE
