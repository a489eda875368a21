SPECIFICATION Spec
CONSTANTS
  LongMax = 99
  ReserveMax = 1
  Feeds <- ShortFeeds
  Beyond = 0
INVARIANT
  ErrorsAreReported
CHECK_DEADLOCK FALSE
