SPECIFICATION MCSpec
CONSTANTS
  RunParts = {"messages"}
  Select = {"q"}
  DML = {}
  PlSql = {"b"}
  Bound = {"q", "b"}
  Types = {"num", "text"}
  MaxLen = 2
  BindValues <- MCBindValues
  MaxCursor = 2
  MaxOutgoing = 0
  MaxErrors = 1
  MaxResets = 1
  MaxIn = 2
  MaxOut = 1
  MaxCalls = 2
  MaxPushed = 2
  MaxFailed = 1
  MaxArrived = 4
INVARIANT
  PullReportsFaults
