CONSTANTS
  Addr <- Code
  Kind <- KindOf
  Succ <- SuccOf
  Row <- RowOf
  Inl <- InlOf
  Start = 2
  UserAddr = {9, 14}
  MaxDepth = 3
SPECIFICATION Spec
CHECK_DEADLOCK FALSE
INVARIANTS
  TemporaryGone
  StepMoves
  StepOverKeepsFrame
  StepOutReturns
