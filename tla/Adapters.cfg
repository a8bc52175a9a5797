SPECIFICATION Spec
CONSTANTS
  Dialects = {"modbus", "modbus_rtu", "fins", "3e_binary", "3e_ascii", "4e_binary", "4e_ascii", "s7", "enip", "iec104"}
  Peers = {"device", "echo"}
  Calls <- MCCalls
  MaxCalls = 3
  FirstSerial = 255
  Strays = {"modbus"}
  Terse = {"modbus", "modbus_rtu", "fins", "3e_binary", "3e_ascii", "4e_binary", "4e_ascii", "enip"}
CHECK_DEADLOCK FALSE
INVARIANTS
  MemoryIsAsTold
  ReadsAreTrue
  OutcomesAreTold
  ProbesAreTrue
  FramesAreSound
