SPECIFICATION Spec
CONSTANTS
  Streams <- MCStreams
INVARIANTS
  TypeOK
  DataIsText
  NothingLost
  RefusedIffBad
  CompleteIsExact
