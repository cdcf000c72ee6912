SPECIFICATION ScanSpec
CONSTANTS
  Messages <- MCAll
  MaxCalls = 3
  MaxFailures = 2
  MaxIngestions = 1
  MaxPerChannel = 2
  MaxVolume = 4
  MaxPayload = 2
  MaxDocument = 1
  MinHistory = 2
  ZThreshold = 3
  HistorySize = 3
  Minute = 2
  CallsKept = 3
  StrikeLimit = 2
  StrikeWindow = 2
  Tenure = 1
  LastInstant = 4
  MaxLog = 4
CHECK_DEADLOCK FALSE
INVARIANTS
  LimitsExact
PROPERTIES
  BlockStands
