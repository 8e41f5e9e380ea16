SPECIFICATION Spec
CONSTANTS
  Word = 1024
  Foreign <- MCNobody
  Menu <- MCTalk
  CloseBodies <- MCNoClose
  Configs <- MCEager
  Capacity = 3
  MaxCalls <- MCCalls22
  MaxCancels = 0
  Garbage <- MCGarbage
  Resets = TRUE
  EarlyDrop = TRUE
INVARIANTS
  ReadClosedMeansGotClose
  
  WriteBufBounded
  PongsAnswerPings
PROPERTIES
  ClosesAsAgreed
