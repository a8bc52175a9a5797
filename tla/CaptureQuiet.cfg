SPECIFICATION Spec
CONSTANTS
  Traffic = {}
  MaxExchanges = 0
  Dialects = {"modbus", "fins", "3e_binary", "4e_ascii"}
  Others = {"modbus", "fins", "quiet"}
  Starts = {0, 65527}
  SeqModulus = 65536
  SegmentSizes = {0, 9}
  BudgetFrames = 5
  MaxSegments = 5
  Ports <- MCPorts
  Protocols <- MCProtocols
  PORT_PRIORS <- MCPriors
CHECK_DEADLOCK FALSE
INVARIANTS
  FlowsAreIndependent
