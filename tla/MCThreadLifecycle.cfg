SPECIFICATION ThreadLiveSpec
CONSTANT Services <- MCServices
CHECK_DEADLOCK FALSE
INVARIANTS
  HandshakesInv
PROPERTIES
  CallsEnd
  StopEndsLoop
