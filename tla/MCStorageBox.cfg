SPECIFICATION Spec
CONSTANTS
  MaxKey = 2
  RingSize = 1
  Preallocated = 1
  MinAvailable = 1
  MaxCalls = 3
  MaxUnderWay = 2
  Batches <- MCBatches
  Programs <- MCPrograms
CHECK_DEADLOCK FALSE
INVARIANTS
  NoEarlyFree
  AnswersInv
PROPERTIES
  ErrorChangesNothing
