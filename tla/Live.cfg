SPECIFICATION Spec
CONSTANTS
  s1 = s1
  s2 = s2
  s3 = s3
  s4 = s4
  l1 = l1
  l2 = l2
  l3 = l3
  Langs = {"ts", "py"}
  Sockets = {s1, s2, s3, s4}
  NoSocket = NoSocket
  Loops = {l1, l2, l3}
  MaxDelay = 1
  MaxClosed = 2
  MaxFaults = 1
SYMMETRY Alike
CHECK_DEADLOCK FALSE
INVARIANTS TypeOK  SocketsExplained
