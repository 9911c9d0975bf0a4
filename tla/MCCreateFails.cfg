SPECIFICATION Spec
CONSTANTS
  MaxFd = 3
  MaxFailures = 1
  MaxErrors = 0
  MaxUses = 0
INVARIANT CreateReturns
CHECK_DEADLOCK FALSE
