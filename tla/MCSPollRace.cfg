SPECIFICATION Spec
CONSTANTS
  Fd = {f1, f2}
  Free = free
  Capacity = 4
INVARIANT AddedIsWatched
CHECK_DEADLOCK FALSE
