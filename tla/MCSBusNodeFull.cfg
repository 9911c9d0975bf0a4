CONSTANTS
  Remote = {x}
  Self = self
  Name = {me, n1}
  EmptyName = e
  OwnName = me
  Tag = {"user", "find", "manameis", "nametaken"}
  MaxFd = 3
  MaxConns = 2
  Heard = {x, self}
  Endless = FALSE
  MaxMsgs = 2
  MaxErrors = 0
  MaxSends = 1
  Null = null
SPECIFICATION Spec
INVARIANTS TypeOK ContactsConsistent WatchedExactly 
PROPERTIES IsMailbox
