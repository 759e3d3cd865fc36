SPECIFICATION Spec
CONSTANTS
  Tids = {1, 2, 3}
  Main = 1
  Pokes = {"pid", "tid"}
  Clients = {"as_is", "stopping"}
CONSTANTS
  Code <- ThreeThreads
  Entry <- ThreeEntries
CHECK_DEADLOCK FALSE
INVARIANTS
  TypeOK
  SiteRestored
  PassedOnlyByStepOver
  NoInstructionSkipped
  StoppedMeansStopped
  NoThreadRunsUnseen
  ForgottenThreadsAreGone
  CallsSucceed
  TrapReportsSite
PROPERTIES
  StopReturns
