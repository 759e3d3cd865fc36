SPECIFICATION Spec
CONSTANTS
  Tids = {t1}
  Calls = {read, write}
  MaxCalls = 3
  MaxSets = 3
  None = None
CHECK_DEADLOCK FALSE
INVARIANTS
  LabelExact
  FlagExact
PROPERTIES
  ReportsOnlyRequested
  ExitFollowsEntry
