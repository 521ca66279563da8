SPECIFICATION Spec
CONSTANTS
  j1 = j1
  w1 = w1
  w2 = w2
  p1 = p1
  Job = {j1}
  Publisher = {p1}
  Worker = {w1}
  NoWorker = NoWorker
  Concurrency = 2
  MaxFaults = 0
  Risks = {"low"}
  MaxAttempts = {2}
  RetryBound = 0
  Kinds = {"checked"}
  Dedup <- NoJobs
  ObjectOf <- SameObject
CHECK_DEADLOCK FALSE
INVARIANTS AttemptFenced
