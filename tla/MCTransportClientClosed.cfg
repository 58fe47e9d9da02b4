CONSTANTS
  Calls = {t1, t2}
  Channels = {c1}
  Capacity = 2
  MaxCount = 2
  MaxCalls = 1
  RingSize = 8
SPECIFICATION Spec
INVARIANTS
  ClosedReleasesAll
CHECK_DEADLOCK FALSE
