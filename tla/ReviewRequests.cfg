SPECIFICATION Spec
CONSTANTS
  a = a
  b = b
  c = c
  r = r
  s1 = s1
  s2 = s2
  Person = {a, b, c, r}
  Requester = r
  Mobile = {b, r}
  Drafts <- AllDrafts
  Value = {"high", "low", "missing"}
  Session = {s1, s2}
  Idle = Idle
  MaxRound = 2
  MaxVersion = 4
  MaxTask = 8
  MaxMoves = 1
CHECK_DEADLOCK FALSE
SYMMETRY SessionSymmetry
INVARIANTS TypeOK OpenTasksAreCurrent NoDoubleTask
PROPERTY KeepsReviewPromise
