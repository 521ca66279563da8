SPECIFICATION Spec
CONSTANTS
  MaxAsks = 2
  MaxRuns = 2
  MaxEvents = 1
CHECK_DEADLOCK FALSE
INVARIANTS TypeOK CompletedHasReceipt RunningRunHasAsk
PROPERTIES NoRunRevived
