SPECIFICATION Spec
CONSTANTS
  MaxFd = 4
  MaxFailures = 1
  MaxErrors = 2
  MaxUses = 1
INVARIANTS TypeOK SocketsInPlace RobsOnlyIfMoved
PROPERTIES CompleteWhenCreated BrokenIsReplaced ThreadStops
CHECK_DEADLOCK FALSE
