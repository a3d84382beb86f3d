CONSTANTS
  BitsPerVector = 2
  FlagsPerIndex = 3
  RLEMax = 24
  SmallMaxWords = 2
  LeastResult = 4
  GrowSlack = 1
  Histories <- Ways
  Room = 60
  Points <- Places
  Spare = {0, 2, 20}
  Rooms = {5, 6, 9, 30}
SPECIFICATION Spec
INVARIANTS EndsAreFound
CHECK_DEADLOCK FALSE
