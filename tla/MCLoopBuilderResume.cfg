SPECIFICATION Spec
CONSTANTS
  Programs <- MCPrograms
  Options = {TRUE}
CHECK_DEADLOCK FALSE
INVARIANTS
  EveryBlockResumesInPlace
