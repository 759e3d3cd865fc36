CONSTANTS
  Addr <- Code
  Elf <- Objects
  Home <- HomeOf
  Main = "main"
  Linker = "ld"
  Vdso = "vdso"
  Entry = 1
  RBrk = 2
  Given = {2, 4}
  Names = {"f", "h"}
  Found <- Lookup
  VdsoNames = {"written", "repaired"}
  MaxCmds = 3
  MaxLoads = 2
SPECIFICATION Spec
CHECK_DEADLOCK FALSE
INVARIANTS
  PendingResolved
  TrapsOwned
  ParentsKnown
  SitesFollowBreakpoint
