SPECIFICATION FairSpec
CONSTANTS
  Tls = "rustls"
  Asks <- MCAsks
  Refusals <- MCRefusals
  Casts <- MCCasts
  ForeignHeads <- MCHeads
  MaxFrames = 1
INVARIANTS
  TypeOK
  HandOver
  
  
  
  NeverInTheClear

  
