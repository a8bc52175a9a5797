SPECIFICATION ExchangeSpec
CONSTANTS
  c1 = c1
  c2 = c2
  k1 = k1
  Calls = {c1, c2}
  Keys = {k1}
  KeyOf <- MCKeyOf
  Conns = {x1, x2}
  MaxPerTarget = 2
  MaxLost = 1
  Closing = FALSE
  NoCall = NoCall
  NoConn = NoConn
  Adapters = {"modbus", "modbus_rtu", "fins", "melsec", "s7", "enip"}
  MaxWire = 2
SYMMETRY MCSymmetry
INVARIANTS
  NoForeignAnswer
  IdleIsInStep
  HandshakeComesFirst
  AuditBeforeSend
