SPECIFICATION MCSpec
CONSTANTS
  RunParts = {"statements"}
  Select = {"q"}
  DML = {"u"}
  PlSql = {}
  Bound = {"q"}
  Types = {"num"}
  MaxLen = 1
  BindValues <- MCOneValue
  MaxCursor = 2
  MaxOutgoing = 1
  MaxErrors = 1
  MaxResets = 0
  MaxIn = 2
  MaxOut = 1
  MaxCalls = 2
  MaxPushed = 3
  MaxFailed = 1
  MaxArrived = 4
INVARIANT CursorOnReexecution
