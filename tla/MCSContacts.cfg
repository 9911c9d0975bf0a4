CONSTANTS
  Addr = {a1, a2}
  Name = {n1, n2}
  EmptyName = e
  Socket = {s1, s2}
  NoSocket = none
  Null = null
  MaxPeers = 4
  MaxIdle = 1
  CleanPeriod = 1
  MaxTime = 5
SYMMETRY Symmetry
SPECIFICATION Spec
INVARIANTS TypeOK EntriesAreLive FoundByAddress
PROPERTIES ActiveContactsKept IsDirectory
