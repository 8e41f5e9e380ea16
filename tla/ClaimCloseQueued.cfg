SPECIFICATION Spec
CONSTANTS
  Word = 1024
  Foreign <- MCNobody
  Menu <- MCTalk
  CloseBodies <- MCNoClose
  Configs <- MCEager
  Capacity = 3
  MaxCalls <- MCCalls41
  MaxCancels = 1
  Garbage <- MCGarbage
  Resets = FALSE
  EarlyDrop = FALSE
INVARIANTS
  CloseQueued
