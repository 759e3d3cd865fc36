SPECIFICATION Spec
CONSTANTS
  Kinds = {"watchpoint", "breakpoint", "site"}
  Addr = {42, 43}
  MaxIds = 4
  MaxId = 4
CHECK_DEADLOCK FALSE
INVARIANTS
  IdFindsItsOwn
  AddressFindsItsOwn
