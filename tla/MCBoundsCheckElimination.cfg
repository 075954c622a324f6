CONSTANTS
  MaxInt = 3
  Loops <- MCLoops
  Checks <- MCChecks
  Lengths <- MCLengths
  None = None
SPECIFICATION Spec
INVARIANTS
  TypeOK
  TrustedInRange
  TrustedInBounds
CHECK_DEADLOCK FALSE
