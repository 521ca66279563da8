SPECIFICATION FairSpec
CONSTANTS
  a = a
  b = b
  c = c
  r = r
  s1 = s1
  s2 = s2
  Person = {a, b, c, r}
  Requester = r
  Mobile = {b, r}
  Drafts <- AllDrafts
  Value = {"high", "low", "missing"}
  Session = {s1}
  Idle = Idle
  MaxRound = 2
  MaxVersion = 7
  MaxTask = 8
  MaxMoves = 1
CHECK_DEADLOCK FALSE
INVARIANTS SomebodyMustAct ApprovalIsEarned
PROPERTY OverdueIsHandled
