SPECIFICATION FairSpec
CONSTANTS
  Streams <- LineStreams
  ParseOf <- ParseLine
  ReplyCounts = {0}
  MaxReplies = 1
  MaxSize = 11
  IntMax = 100
  ReserveMax = 3
PROPERTY
  ReadCompletes
