SPECIFICATION Spec
CONSTANTS
  N = 5
  MaxLoops = 1
  Graphs <- MCGraphs
  NoWalk = NoWalk
CHECK_DEADLOCK FALSE
INVARIANTS
  PhisMatchPredecessors
