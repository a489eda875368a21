SPECIFICATION Spec
CONSTANTS
  w1 = w1
  w2 = w2
  w3 = w3
  Workers <- MCWorkers
  Capacity = 2
  MaxPings = 6
INVARIANTS
  TypeOK
  SocketUsedByOne
  PongsFollowPings
  WatcherSeesOneMoment
  IInv
PROPERTIES
  EveryPingAnswered
