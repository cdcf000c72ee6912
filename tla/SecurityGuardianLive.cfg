SPECIFICATION FairSpec
CONSTANTS
  a1 = a1
  a2 = a2
  r1 = r1
  r2 = r2
  r3 = r3
  Agents = {a1}
  Requests = {r1, r2}
  DetectorThreats <- MCDetectorThreats
  RethinkThreats <- MCRethinkThreats
  Channels <- MCChannels
  Threshold = 2
  Window = 2
  Expiry = 1
  Cooldown = 1
  MaxBuffer = 2
  MaxLearned = 1
  MaxTime = 3
CHECK_DEADLOCK FALSE
PROPERTIES
  EventuallyAnswered
