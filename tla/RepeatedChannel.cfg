SPECIFICATION Spec
CONSTANTS
  a = a
  b = b
  c = c
  json = json
  plain = plain
  Names <- MCNames
  Word <- MCWord
  MessageWord <- MCMessageWord
  Patterns <- MCPatterns
  Words <- MCWords
  ChannelLists <- MCChannelLists
  Channels <- MCChannels
  Payloads <- MCPayloads
  Json <- MCJson
  MaxPublished = 2
INVARIANT
  FirstTwoFieldsDecide
CHECK_DEADLOCK FALSE
