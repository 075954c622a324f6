CONSTANTS
  N = 4
  MaxInt = 1
  Graphs <- MCGraphs
  Opaque = Opaque
  Bottom = Bottom
  Top = Top
  None = None
SPECIFICATION FairSpec
INVARIANTS
  TypeOK
  SoundUnlessGuessed
  NothingLeftToFold
PROPERTY
  Terminates
CHECK_DEADLOCK FALSE
