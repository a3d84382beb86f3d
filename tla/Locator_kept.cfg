CONSTANTS
  BitsPerVector = 2
  FlagsPerIndex = 1
  RLEMax = 15
  Indices = {0, 1, 2, 3, 4, 5, 6, 7}
  Buffers = {40}
SPECIFICATION KeepingSpec
INVARIANTS StaleRankIsRight
