SPECIFICATION Spec
CONSTANTS
  LongMax = 9
  ReserveMax = 2
  Feeds <- MCFeeds
  Beyond = 1
INVARIANTS
  TypeOK
  PoliciesAgree
  AcceptedIsKept
  DecidedByItsOwnBytes
  MarkersInsideReply
  DecisionStable
CHECK_DEADLOCK FALSE
