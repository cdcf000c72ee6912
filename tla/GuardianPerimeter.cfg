SPECIFICATION Spec
CONSTANTS
  Clients = {in1, out}
  Inside = {in1}
  Slots = {s1, s2}
  Agents = {a1}
  Stranger = a0
  Limit = 2
  Window = 2
  BufferSize = 2
  MaxTime = 2
  MaxArrivals = 3
  MaxMessages = 2
CHECK_DEADLOCK FALSE
INVARIANTS
  TypeOK
  RateExact
  CallsCaptured
  ListensWhileConnected
SYMMETRY Symmetry
