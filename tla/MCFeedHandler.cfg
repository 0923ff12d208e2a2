SPECIFICATION Spec
CONSTANTS
  MaxSeq = 6
  MaxReceived = 6
INVARIANTS
  TypeOK
  GapAccounting
  LossNeverUnderstated
CHECK_DEADLOCK FALSE
