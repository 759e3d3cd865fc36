SPECIFICATION Spec
CONSTANTS
  Tids = {1, 2}
  Main = 1
  Pokes = {"tid"}
  Clients = {"as_is"}
CONSTANTS
  Code <- TwoThreads
  Entry <- TwoEntries
CHECK_DEADLOCK FALSE
INVARIANT ResumeAllSucceeds
