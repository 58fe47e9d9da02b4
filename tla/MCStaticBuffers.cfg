CONSTANTS
  Clients = {c1, c2, c3}
  Capacity = 3
  MaxCount = 3
  MaxCalls = 2
SPECIFICATION LiveSpec
INVARIANTS
  SingleOwner
  NoLostWaiter
  NothingLost
PROPERTIES
  CallsReturn
CHECK_DEADLOCK FALSE
