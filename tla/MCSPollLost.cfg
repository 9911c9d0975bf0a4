CONSTANTS
  Fd = {f1, f2, f3}
  Free = free
  Junk = junk
  InitialCapacity = 2
  GrowSize = 1
  MaxCapacity = 3
SPECIFICATION Spec
INVARIANT AddNeverRefuses
