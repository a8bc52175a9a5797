SPECIFICATION Spec
CONSTANTS
  c1 = c1
  c2 = c2
  Clients = {c1, c2}
  Hasty = {c2}
  Dialects = {"enip_bare"}
  FrameLimit = 3
  PieceSizes = {9}
  MaxRequests = 2
CHECK_DEADLOCK FALSE
INVARIANT
  AnswersAreRight
