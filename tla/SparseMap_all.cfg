CONSTANTS
  BitsPerVector = 2
  FlagsPerIndex = 3
  RLEMax = 15
  SmallMaxWords = 2
  WireSlack = 2
  Indices <- TwoWindows
  Points <- TwoWindows
  Spans <- Ranges
  Constructors = {"sm_create", "sm_init"}
  Buffers = {1, 4, 12}
  Sizes = {6, 12}
  GrowFloor = 12
  MaxBuffer = 7
SPECIFICATION Spec
INVARIANTS FormIsValid CacheIsFresh CountAgrees SmallerForm GrowthSuffices
PROPERTIES ImplementsBitSet
