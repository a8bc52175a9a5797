SPECIFICATION Spec
CONSTANTS
  c1 = c1
  c2 = c2
  c3 = c3
  k1 = k1
  k2 = k2
  x1 = x1
  x2 = x2
  x3 = x3
  Calls = {c1, c2, c3}
  Keys = {k1, k2}
  KeyOf <- MCKeyOf
  Conns = {x1, x2, x3}
  MaxPerTarget = 1
  MaxLost = 1
  Closing = TRUE
  NoCall = NoCall
  NoConn = NoConn
SYMMETRY MCSymmetry
INVARIANTS
  OneExchangePerTarget
  LeaseIsExclusive
  CountIsBounded
  EphemeralOnlyAfterLoss
  SocketsAccounted
PROPERTIES
  LeaseSpec
