SPECIFICATION Spec
CONSTANTS
  Modulus = 4
  W = 2
  K = 3
  MaxPoints = 2
  MaxUnsolicited = 1
INVARIANTS
  AckedWithinWindow
