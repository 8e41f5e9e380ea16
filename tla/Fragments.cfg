SPECIFICATION Spec
CONSTANTS
  Word = 1024
  Foreign <- MCClient
  Menu <- MCFragments
  CloseBodies <- MCNoClose
  Configs <- MCTight
  Capacity = 1
  MaxCalls <- MCCalls41
  MaxCancels = 0
  Garbage <- MCNoGarbage
  Resets = FALSE
  EarlyDrop = FALSE
INVARIANTS
  TypeOK
  DataInOrder
  PongsAnswerPings
PROPERTIES
  MessageWithinLimit
  ClosesAsAgreed
