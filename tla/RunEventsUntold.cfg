SPECIFICATION Spec
CONSTANTS
  s1 = s1
  s2 = s2
  w1 = w1
  w2 = w2
  l1 = l1
  Steps = {s1, s2}
  Sockets = {w1, w2}
  Streams = {l1}
  Server = Server
  MaxBuffer = 3
  Setups <- MCSetups
CHECK_DEADLOCK FALSE
INVARIANTS
  ViewersAreTold
