SPECIFICATION FairSpec
CONSTANTS
  j1 = j1
  w1 = w1
  w2 = w2
  p1 = p1
  Job = {j1}
  Publisher = {p1}
  Worker = {w1, w2}
  NoWorker = NoWorker
  Concurrency = 2
  MaxFaults = 1
  Risks = {"low", "medium", "high"}
  MaxAttempts = {1, 2}
  RetryBound = 1
  Kinds = {"checked", "planned", "unfenced"}
  Dedup <- NoJobs
  ObjectOf <- SameObject
CHECK_DEADLOCK FALSE
INVARIANTS TypeOK DispatchCovered FencedBetweenWorkers
PROPERTIES EveryJobSettles ImplementsLedger
