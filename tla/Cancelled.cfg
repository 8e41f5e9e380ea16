SPECIFICATION FairSpec
CONSTANTS
  Word = 1024
  Foreign <- MCNobody
  Menu <- MCTalk
  CloseBodies <- MCNoClose
  Configs <- MCEager
  Capacity = 1
  MaxCalls <- MCCalls13
  MaxCancels = 1
  Garbage <- MCClosing
  Resets = FALSE
  EarlyDrop = TRUE
INVARIANTS
  CloseIsLast
  WriteBufBounded
PROPERTIES
  LoopEnds
  WritesEnd
  CloseCompletes
