SPECIFICATION FairSpec
CONSTANTS
  c1 = c1
  c2 = c2
  Clients = {c1, c2}
  Hasty = {c2}
  Dialects = {"modbus"}
  FrameLimit = 3
  PieceSizes = {9}
  MaxRequests = 2
CHECK_DEADLOCK FALSE
INVARIANTS
  EveryFrameIsRecorded
