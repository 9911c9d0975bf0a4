CONSTANTS
  Remote = {x, y}
  Self = self
  Name = {me, n1}
  EmptyName = e
  OwnName = me
  Tag = {"user"}
  MaxFd = 3
  MaxConns = 3
  Heard = {x, y, self}
  Endless = FALSE
  MaxMsgs = 2
  MaxErrors = 0
  MaxSends = 2
  Null = null
SPECIFICATION Spec
INVARIANT UnicastReachesItsPeer
