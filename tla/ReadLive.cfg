SPECIFICATION FairSpec
CONSTANTS
  Streams <- LineStreams
  ParseOf <- ParseLine
  ReplyCounts = {1, 2}
  MaxReplies = 2
  MaxSize = 11
  IntMax = 100
  ReserveMax = 3
PROPERTY
  ReadCompletes
