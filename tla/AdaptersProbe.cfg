SPECIFICATION Spec
CONSTANTS
  Dialects = {"modbus", "modbus_rtu", "3e_binary", "fins", "s7", "enip", "iec104"}
  Peers = {"device", "echo"}
  Calls <- MCCalls
  MaxCalls = 1
  FirstSerial = 255
  Strays = {}
  Terse = {}
CHECK_DEADLOCK FALSE
INVARIANT
  ProbeClassesAreKept
