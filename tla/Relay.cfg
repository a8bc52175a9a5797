SPECIFICATION FairSpec
CHECK_DEADLOCK FALSE
CONSTANTS
  MaxPieces <- MCMaxPieces
  BlindLimit = 2
  FrameLimit = 2
INVARIANTS
  StreamIsIntact
  RecordIsTruthful
  RingIsNewest
PROPERTIES
  FramesGetThrough
  SessionEnds
