CONSTANTS
  Fd = {f1, f2, f3}
  Free = free
  Junk = junk
  InitialCapacity = 2
  GrowSize = 2
  MaxCapacity = 6
SPECIFICATION CSpec
INVARIANTS TypeOK PolledEntriesAreDescriptors TailHoldsNoDescriptor RefusedForAReason
PROPERTIES LostSlotIsLostForEver IsWatchList DisposalExitsOnlyAfterLoss
CHECK_DEADLOCK FALSE
