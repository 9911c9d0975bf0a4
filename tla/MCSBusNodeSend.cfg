CONSTANTS
  Remote = {x}
  Self = self
  Name = {me, n1}
  EmptyName = e
  OwnName = me
  Tag = {"user", "find", "manameis", "nametaken"}
  MaxFd = 3
  MaxConns = 1
  Heard = {x, self}
  Endless = FALSE
  MaxMsgs = 2
  MaxErrors = 1
  MaxSends = 1
  Null = null
SPECIFICATION Spec
INVARIANTS TypeOK ContactsConsistent WatchedExactly OpenIsPolled
PROPERTIES IsMailbox
