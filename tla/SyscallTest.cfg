SPECIFICATION Spec
CONSTANTS
  Tids = {t1}
  Calls = {write}
  MaxCalls = 1
  MaxSets = 1
  None = None
CHECK_DEADLOCK FALSE
INVARIANT CaughtStopsAreEntries
