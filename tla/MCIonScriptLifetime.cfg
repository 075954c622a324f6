SPECIFICATION Spec
CONSTANTS
  s1 = s1
  s2 = s2
  s3 = s3
  i1 = i1
  i2 = i2
  i3 = i3
  c1 = c1
  c2 = c2
  Script <- MCScript
  IonScript <- MCIonScript
  CompartmentOf <- MCCompartmentOf
  MaxFrames = 4
  NULL = NULL
  ION_DISABLED_SCRIPT = ION_DISABLED_SCRIPT
SYMMETRY Interchangeable
INVARIANTS
  TypeOK
  RefcountsCountFrames
  FramesFindTheirCode
PROPERTIES
  FreedExactlyWhenUnused
