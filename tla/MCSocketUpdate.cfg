CONSTANTS
  Addr = {a1, a2}
  Name = {n1, n2}
  EmptyName = e
  Socket = {s1}
  NoSocket = none
  Null = null
  MaxPeers = 2
  MaxIdle = 1
  CleanPeriod = 1
  MaxTime = 2
SPECIFICATION Spec
PROPERTY SocketUpdateKeepsName
