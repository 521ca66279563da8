SPECIFICATION FairSpec
CONSTANTS
  d1 = d1
  d2 = d2
  Doc = {d1, d2}
  First = d1
  None = None
  MaxEdits = 1
  MaxApps = 2
  MaxAsks = 3
  MaxFaults = 2
CHECK_DEADLOCK FALSE
INVARIANTS TypeOK InForceHasReceipt
PROPERTIES ReplacesWhatItExpected DecidedIsClosed
