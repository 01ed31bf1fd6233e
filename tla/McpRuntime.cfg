SPECIFICATION FairSpec
CONSTANTS
  k1 = k1
  k2 = k2
  k3 = k3
  d1 = d1
  c1 = c1
  Setups <- MCSetups
  Conns = {k1, k2, k3}
  Discoveries = {d1}
  ToolCalls = {c1}
  NoConn = NoConn
  NoCaller = NoCaller
  NoList <- MCNoList
  MaxChanges = 1
CHECK_DEADLOCK FALSE
INVARIANTS
  NobodyForgotten
  PendingHasOwner
  ServedIsTracked
PROPERTIES
  CallsEnd
