SPECIFICATION Spec
CONSTANTS
  a1 = a1
  a2 = a2
  r1 = r1
  r2 = r2
  r3 = r3
  Agents = {a1, a2}
  Requests = {r1, r2, r3}
  DetectorThreats <- MCDetectorThreats
  RethinkThreats <- MCRethinkThreats
  Channels <- MCPagerDuty
  Threshold = 2
  Window = 3
  Expiry = 1
  Cooldown = 1
  MaxBuffer = 2
  MaxLearned = 1
  MaxTime = 4
CHECK_DEADLOCK FALSE
SYMMETRY Symmetry
INVARIANTS
  TypeOK
  StrikesWindowed
  AlertSpacing
PROPERTIES
  EscalationComplete
  QuarantineFollowsBurst
  QuarantineTenure
