SPECIFICATION Spec
CONSTANTS
  WriteFds = {0, 1}
  TidParses = {TRUE, FALSE}
CHECK_DEADLOCK FALSE
INVARIANTS
  TypeOK
  ThrewMeansClean
  GoneMeansReleased
PROPERTIES
  ImplementsContract
  DestructorReturns
