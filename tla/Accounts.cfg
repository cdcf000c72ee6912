SPECIFICATION Spec
CONSTANTS
  e1 = e1
  e2 = e2
  b1 = b1
  p1 = p1
  p2 = p2
  q1 = q1
  q2 = q2
  Requests = {q1, q2}
  Emails = {e1}
  Seeded = e2
  Browsers = {b1}
  Passwords = {p1, p2}
  SeedPassword = p1
  None = None
  MaxFailures = 3
  LockWindow = 2
  MaxTime = 4
  MaxStarts = 2
CHECK_DEADLOCK FALSE
SYMMETRY Symmetry
INVARIANTS
  TypeOK
  CreatedIsKept
  FailuresBounded
PROPERTIES
  LockHolds
