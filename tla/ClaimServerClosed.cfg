SPECIFICATION Spec
CONSTANTS
  Word = 1024
  Foreign <- MCClient
  Menu <- MCFragments
  CloseBodies <- MCNoClose
  Configs <- MCEager
  Capacity = 1
  MaxCalls <- MCCalls11
  MaxCancels = 0
  Garbage <- MCNoGarbage
  Resets = FALSE
  EarlyDrop = FALSE
INVARIANTS
  ServerClosedMeansHandshake
