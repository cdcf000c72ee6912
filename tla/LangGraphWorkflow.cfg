SPECIFICATION FairSpec
CONSTANTS
  r1 = r1
  r2 = r2
  Requests = {r1, r2}
  Intents <- MCIntents
CHECK_DEADLOCK FALSE
INVARIANTS
  TypeOK
  RefusedReachesNobody
  SuccessIsSettled
  PassedBlockIsReported
PROPERTIES
  ImplementsService
  EventuallyResponds
