SPECIFICATION Spec
CONSTANTS
  Word = 1024
  Foreign <- MCServer
  Menu <- MCUnrulyServer
  CloseBodies <- MCCloses
  Configs <- MCEager
  Capacity = 1
  MaxCalls <- MCCalls22
  MaxCancels = 0
  Garbage <- MCNoGarbage
  Resets = FALSE
  EarlyDrop = FALSE
INVARIANTS
  CloseCodesAllowed
  NoDeliveryAfterClose
