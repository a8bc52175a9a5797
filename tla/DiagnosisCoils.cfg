SPECIFICATION Spec
CONSTANTS
  Traffic = {"coils"}
  MaxExchanges = 1
  Dialects = {}
  Others = {}
  Starts = {}
  SeqModulus = 65536
  SegmentSizes = {}
  BudgetFrames = 1
  MaxSegments = 0
  Ports <- MCPorts
  Protocols <- MCProtocols
  PORT_PRIORS <- MCPriors
CHECK_DEADLOCK FALSE
INVARIANTS
  HealthyIsQuiet
