SPECIFICATION AlgorithmsSpec
CONSTANTS
  Numbers <- MCNumbers
  DartNumbers <- MCDartNumbers
  Sizes <- MCSizes
  Lengths <- MCLengths
  Repeats <- MCRepeats
  Capacities <- MCCapacities
  MaxPayload = 32
  MaxValues = 3
  WideStrings = FALSE
  HashLengths <- MCHashLengths
  Pieces <- MCPieces
  MaxUpdates = 3
  MaxResets = 2
  SecretSizes = {136, 192}
  Alignments = {0, 1, 2, 3}
INVARIANTS
  SafeNeverOverruns
  ReadersInv
  WalksInv
  StreamEqualsOneShot
  HashesInv
CHECK_DEADLOCK FALSE
