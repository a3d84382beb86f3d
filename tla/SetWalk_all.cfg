CONSTANTS
  BitsPerVector = 2
  FlagsPerIndex = 2
  RLEMax = 11
  SmallMaxWords = 1
  LeastResult = 6
  GrowSlack = 1
  Histories <- Ways
  Room = 60
SPECIFICATION Spec
INVARIANTS TypeOK ResultIsValid OnlyRunsArePartial ResultTakesSets
PROPERTIES ImplementsSweep Returns
CHECK_DEADLOCK FALSE
