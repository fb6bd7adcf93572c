SPECIFICATION SessionSpec
CONSTANTS
  RunParts = {"packets", "cancellation"}
  MaxCalls = 2
  MaxNotes = 1
  MaxExtra = 1
  MaxExecutions = 3
  MaxRounds = 2
INVARIANTS
  NoStaleDelivery
  QuietBetweenCalls
  RepeatedOnlyAfterFailedFlush
  SessionExclusive
  NoCallbackAfterReturn
  CancelledRoundSettles
PROPERTIES
  ResetEnds
  CleanCallReturns
  CancelledCallReturns
