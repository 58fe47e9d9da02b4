CONSTANTS
  Calls = {t1, t2}
  Channels = {c1}
  Capacity = 3
  MaxCount = 3
  MaxCalls = 1
  RingSize = 2
SPECIFICATION LiveSpec
INVARIANTS
  BuffersInv
  OperationsInv
PROPERTIES
  PromiseKept
  CloseEnds
CHECK_DEADLOCK FALSE
