SPECIFICATION FairSpec
CONSTANTS
  s1 = s1
  s2 = s2
  w1 = w1
  w2 = w2
  Steps = {s1, s2}
  Sockets = {w1, w2}
  l1 = l1
  Streams = {l1}
  Setups <- MCSetups
  Server = Server
  MaxBuffer = 3
CHECK_DEADLOCK FALSE
INVARIANTS
  CausalOrder
  NothingLost
  HubExact
PROPERTIES
  StreamsEnd
  ImplementsEventLog
