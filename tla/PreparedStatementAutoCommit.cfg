SPECIFICATION MCSpec
CONSTANTS
  RunParts = {"statements"}
  Select = {}
  DML = {"u"}
  PlSql = {}
  Bound = {}
  Types = {"num"}
  MaxLen = 1
  BindValues <- MCOneValue
  MaxCursor = 2
  MaxOutgoing = 1
  MaxErrors = 0
  MaxResets = 0
  MaxIn = 2
  MaxOut = 1
  MaxCalls = 2
  MaxPushed = 3
  MaxFailed = 1
  MaxArrived = 4
INVARIANT AutoCommitOutsideTransaction
