SPECIFICATION Spec
CONSTANTS
  Dialects = {"fins"}
  Peers = {"device"}
  Calls <- MCCalls
  MaxCalls = 3
  FirstSerial = 255
  Strays = {"fins"}
  Terse = {}
CHECK_DEADLOCK FALSE
INVARIANTS
  MemoryIsAsTold
  ReadsAreTrue
  OutcomesAreTold
