SPECIFICATION Spec
CONSTANTS
  Sessions = {s1}
  Chats = {t1, t2}
  Polls = {p1, p2}
  None = none
  Limit = 1
  Minute = 2
  Fresh = 1
  CallTime = 1
  MaxTime = 3
  MaxRequests = 3
CHECK_DEADLOCK FALSE
INVARIANTS
  LimitHolds
  OverviewFresh
SYMMETRY Symmetry
