SPECIFICATION Spec
CONSTANTS
  Node = {a, b}
  Claim = {n, o}
  EmptyName = e
  NoFd = nofd
  Null = null
  Mc = mc
  MaxLost = 1
INVARIANTS TypeOK GivesUpToRival UniqueWhenSettled
PROPERTY ClashesEnd
CHECK_DEADLOCK FALSE
