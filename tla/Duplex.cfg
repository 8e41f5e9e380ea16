SPECIFICATION FairSpec
CONSTANTS
  Word = 1024
  Foreign <- MCNobody
  Menu <- MCChat
  CloseBodies <- MCNoClose
  Configs <- MCBuffering
  Capacity = 3
  MaxCalls <- MCCalls22
  MaxCancels = 0
  Garbage <- MCNoGarbage
  Resets = FALSE
  EarlyDrop = FALSE
INVARIANTS
  CloseIsLast
  FlushPromise
  PongsAnswerPings
  CleanTeardown
PROPERTIES
  ClosesAsAgreed
  CloseCompletes
