SPECIFICATION Spec
CONSTANTS
  Numbers <- MCNumbers
  DartNumbers <- MCNumbers
  Sizes <- MCSizes
  Lengths <- MCLengths
  Repeats <- MCRepeats
  Capacities <- MCCapacities
  MaxPayload = 32
  MaxValues = 1
  WideStrings = TRUE
INVARIANT DartReadsBack
CHECK_DEADLOCK FALSE
