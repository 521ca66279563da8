SPECIFICATION Spec
CONSTANTS
  MaxAsks = 1
  MaxRuns = 1
  MaxEvents = 0
CHECK_DEADLOCK FALSE
INVARIANTS RunningTaskHasRun
