SPECIFICATION FairSpec
CONSTANTS
  ByteXor <- MCXor
  Word = 1073741824
  Streams <- MCStreams
  Configs <- MCConfigs
  MaxChanges = 1
INVARIANTS
  TypeOK
  FramesSurvive
  NothingHeldBack
PROPERTIES
  ReadsAsAWhole
  StreamIsRead
