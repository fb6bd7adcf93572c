SPECIFICATION SessionSpec
CONSTANTS
  RunParts = {"cancellation"}
  MaxCalls = 2
  MaxNotes = 1
  MaxExtra = 1
  MaxExecutions = 2
  MaxRounds = 2
INVARIANT
  UnstoppedOperationInvalidates
