SPECIFICATION Spec
CONSTANTS
  r1 = r1
  r2 = r2
  Requests = {r1}
  Intents <- MCIntents
CHECK_DEADLOCK FALSE
INVARIANTS
  VerifierConsulted
