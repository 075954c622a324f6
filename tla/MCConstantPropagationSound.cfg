CONSTANTS
  N = 4
  MaxInt = 0
  Graphs <- PhiGraphs
  Opaque = Opaque
  Bottom = Bottom
  Top = Top
  None = None
SPECIFICATION Spec
INVARIANT
  Sound
CHECK_DEADLOCK FALSE
