SPECIFICATION Spec
CONSTANTS
  Programs <- MCPrograms
  Options = {TRUE, FALSE}
CHECK_DEADLOCK FALSE
INVARIANTS
  TypeOK
  InLockStep
  BuiltInOrder
  AssertGraphCoherency
  OtherBlocksResumeInPlace
  CrashesOnlyIfBroken
PROPERTIES
  BuilderEnds
  CallbacksAreCalled
