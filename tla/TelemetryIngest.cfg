SPECIFICATION Spec
CONSTANTS
  c1 = c1
  c2 = c2
  p1 = p1
  p2 = p2
  s1 = s1
  s2 = s2
  d1 = d1
  m1 = m1
  m2 = m2
  None = None
  Clients = {c1, c2}
  Posts = {p1, p2}
  Sims = {s1}
  Deliveries = {d1}
  Machines = {m1, m2}
  PostBatches <- MCPostBatches
  SimBatches <- MCSimBatches
  Messages <- MCMessages
  MaxAlerts = 1
  MaxSims = 1
  MaxTicks = 1
  MaxReadings = 3
CHECK_DEADLOCK FALSE
SYMMETRY Symmetry
INVARIANTS
  MissesBounded
  SourceOrder
  AlertsAreNewest
PROPERTIES
  SilentAfterShutdown
