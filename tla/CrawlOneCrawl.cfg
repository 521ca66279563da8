SPECIFICATION FairSpec
CONSTANTS
  c1 = c1
  c2 = c2
  c3 = c3
  Crawl = {c1}
  None = None
  QueueMaxDepth = 1
  AnHour = 1
  TwoHours = 1
  ADay = 2
  StartPolls = 1
  MaxAttempts = 2
  PollBound = 2
  ReconcileBound = 1
  MaxFaults = 2
CHECK_DEADLOCK FALSE
PROPERTY GateStartResolves
INVARIANT StartedOnceUnlessCut
