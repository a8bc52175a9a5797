SPECIFICATION FairSpec
CONSTANTS
  c1 = c1
  c2 = c2
  Clients = {c1, c2}
  Hasty = {c2}
  Dialects = {"modbus", "fins", "iec104", "3e_binary", "3e_ascii", "4e_binary", "4e_ascii", "enip"}
  FrameLimit = 3
  PieceSizes = {9}
  MaxRequests = 2
CHECK_DEADLOCK FALSE
INVARIANTS
  TypeOK
  FramesAreCutWhole
  AnswersAreRight
  FaultsAreSeen
  WaitingClientIsRecorded
PROPERTIES
  AskedIsAnswered
