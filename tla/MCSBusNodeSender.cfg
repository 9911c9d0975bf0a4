CONSTANTS
  Remote = {x, y}
  Self = self
  Name = {me, n1}
  EmptyName = e
  OwnName = me
  Tag = {"user"}
  MaxFd = 3
  MaxConns = 2
  Heard = {x, y, self}
  Endless = FALSE
  MaxMsgs = 2
  MaxErrors = 0
  MaxSends = 0
  Null = null
SPECIFICATION Spec
INVARIANT SenderAttributed
