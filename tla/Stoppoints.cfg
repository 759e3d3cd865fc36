SPECIFICATION Spec
CONSTANTS
  Addr = {4, 5, 9}
  Byte = {0, 1, 204}
  INT3 = 204
  NumSlots = 2
  MaxWrite = 2
  Threads = {1, 2}
  Pid = 1
CONSTANTS
  Mapped <- MCMapped
  WatchKinds <- MCKinds
CONSTRAINT Explored
ACTION_CONSTRAINT WritesExplored
CHECK_DEADLOCK FALSE
INVARIANTS
  TypeOK
  TrapBytesExact
  ReadsProgramBytes
  SlotsExact
  CacheInStep
  AttributionExact
