SPECIFICATION FairSpec
CONSTANTS
  x1 = x1
  x2 = x2
  x3 = x3
  Exec = {x1, x2, x3}
  Direct = {x2, x3}
  Nobody = Nobody
  MaxChanges = 1
  MaxCrashes = 1
CHECK_DEADLOCK FALSE
INVARIANTS TypeOK JobTellsTheTruth
PROPERTIES ActionIsOneEffect ClaimSettles
