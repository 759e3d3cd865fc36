SPECIFICATION Spec
CONSTANTS
  WriteFds = {1}
  TidParses = {TRUE}
CHECK_DEADLOCK FALSE
PROPERTY DestructorAlwaysReturns
