CONSTANTS
  DefaultIsStmt = TRUE
  LineBase <- LineBaseOf
  LineRange = 3
  ConstAdd = 4
  Reg = {3, 6, 7, 16}
  SP = 7
  DataAlign <- DataAlignOf
  BaseFlag <- BaseFlagOf
  CuBase = 1
  PageSize = 4
  WordSize = 2
  MaxItems <- Lengths
SPECIFICATION Spec
CHECK_DEADLOCK FALSE
INVARIANTS
  RowsStandard
  LookupCovers
  UnwindStandard
  InlineStackExact
  TransferExact
