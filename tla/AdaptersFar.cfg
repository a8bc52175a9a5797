SPECIFICATION Spec
CONSTANTS
  Dialects = {"enip", "3e_ascii", "s7"}
  Peers = {"device"}
  Calls <- MCFarCalls
  MaxCalls = 1
  FirstSerial = 1
  Strays = {}
  Terse = {}
CHECK_DEADLOCK FALSE
INVARIANT
  MemoryIsAsTold
