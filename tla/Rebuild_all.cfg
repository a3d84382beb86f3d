CONSTANTS
  BitsPerVector = 2
  FlagsPerIndex = 3
  RLEMax = 17
  SmallMaxWords = 1
  LeastResult = 4
  GrowSlack = 1
  Histories <- Ways
  Room = 60
  Ranges <- Intervals
  Lists <- Arrays
  Shifts <- Distances
  Spare = {0, 20}
  Slack = 0
SPECIFICATION Spec
INVARIANTS TypeOK ResultIsValid DestinationExactOtherwise ResultTakesSetsOtherwise
PROPERTIES ImplementsSweep Returns
CHECK_DEADLOCK FALSE
