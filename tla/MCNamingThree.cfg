SPECIFICATION Spec
CONSTANTS
  Node = {a, b, c}
  Claim = {n, o}
  EmptyName = e
  NoFd = nofd
  Null = null
  Mc = mc
  MaxLost = 0
INVARIANT ToldOnlyIfTaken
CHECK_DEADLOCK FALSE
