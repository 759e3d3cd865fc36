SPECIFICATION Spec
CONSTANTS
  Addr = {4, 5}
  Byte = {0}
  INT3 = 0
  NumSlots = 2
  MaxWrite = 1
  Threads = {1}
  Pid = 1
CONSTANTS
  Mapped <- MCMapped
  WatchKinds <- MCKinds
CHECK_DEADLOCK FALSE
INVARIANT NoOrphanSlot
