SPECIFICATION Spec
CONSTANTS
  LongMax = 99
  ReserveMax = 99
  Letters = {"O", "x"}
  Replies <- MCReplies
  Depth = 2
  Sought <- MCSought
  MaxReplies = 2
INVARIANTS
  TypeOK
  AcceptedWhenComplete
  ExtractsWhatWasMeant
  EqualityFindsWhatWasMeant
  ConsumedToTheByte
CHECK_DEADLOCK FALSE
