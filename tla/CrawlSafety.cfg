SPECIFICATION Spec
CONSTANTS
  c1 = c1
  c2 = c2
  c3 = c3
  Crawl = {c1, c2}
  None = None
  QueueMaxDepth = 2
  AnHour = 1
  TwoHours = 1
  ADay = 1
  StartPolls = 0
  MaxAttempts = 1
  PollBound = 0
  ReconcileBound = 0
  MaxFaults = 1
CHECK_DEADLOCK FALSE
SYMMETRY CrawlSymmetry
INVARIANTS TypeOK AtMostOneLive
PROPERTY FifoStart
