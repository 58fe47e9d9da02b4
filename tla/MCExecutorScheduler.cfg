CONSTANTS
  Executors = {e1}
  RingSize = 2
  MaxCalls = 2
  MaxIncoming = 1
  MaxPauses = 1
SPECIFICATION LiveSpec
INVARIANTS
  NoLostWakeUp
  RegistrationSettles
  CallsInv
  DestroyedAtRest
PROPERTIES
  CompletionsConsumed
CHECK_DEADLOCK FALSE
