SPECIFICATION Spec
CONSTANTS
  Dialects = {"modbus"}
  Peers = {"device"}
  Calls <- MCCalls
  MaxCalls = 2
  FirstSerial = 65535
  Strays = {}
  Terse = {}
CHECK_DEADLOCK FALSE
INVARIANT
  CallsAreSent
