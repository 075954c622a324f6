SPECIFICATION Spec
CONSTANTS
  argA = argA
  argB = argB
  Value = {undef, argA, argB}
  Undefined = undef
  NArgs = 1
  Local = {l0, l1}
  InitLocal = l0
  LoopPc = {p1}
  NoPc = noPc
  UsesBeforeCompile = 2
  MaxDepth = 2
  NULL = null
  ION_DISABLED_SCRIPT = disabled
SYMMETRY Symmetry
INVARIANT DirectCallsSeeTheirArguments
