SPECIFICATION FairSpec
CONSTANTS
  Modulus = 4
  W = 2
  K = 3
  MaxPoints = 2
  MaxUnsolicited = 2
INVARIANTS
  TypeOK
  RequestsInSequence
  StartedOnce
  AnswersAreOwn
PROPERTIES
  ReadsReturn
