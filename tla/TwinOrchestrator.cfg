SPECIFICATION Spec
CONSTANTS
  r1 = r1
  r2 = r2
  Requests = {r1, r2}
  Intents <- MCIntents
  Types <- MCTypes
  Seeds <- MCSeeds
  MaxAttempts = 2
  MaxRestarts = 1
CHECK_DEADLOCK FALSE
SYMMETRY Symmetry
INVARIANTS
  TypeOK
  TwinIsBacked
  SuccessIsStored
  OncePerPost
PROPERTIES
  FreshBacking
  RefreshHitsTarget
