SPECIFICATION FairSpec
CONSTANTS
  m1 = m1
  w1 = w1
  w2 = w2
  e1 = e1
  e2 = e2
  Horizon = 1
  Manual = {m1}
  Policies = {"replay"}
  Worker = {w1, w2}
  None = None
  Editor = {e1}
  EditKinds = {"title"}
  RetryBound = 1
  MaxFaults = 1
CHECK_DEADLOCK FALSE
INVARIANTS TypeOK HandlerRunsOnce NoSlotSkipped
PROPERTIES JobsFollowLedger RunsSettle
