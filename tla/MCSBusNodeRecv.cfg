CONSTANTS
  Remote = {x, y}
  Self = self
  Name = {me, n1}
  EmptyName = e
  OwnName = me
  Tag = {"user"}
  MaxFd = 3
  MaxConns = 2
  Heard = {self}
  Endless = TRUE
  MaxMsgs = 2
  MaxErrors = 1
  MaxSends = 0
  Null = null
SPECIFICATION FairSpec
INVARIANTS ContactsConsistent WatchedExactly SocketNamesSender
PROPERTIES IsMailbox EverythingIsRead
