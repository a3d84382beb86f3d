CONSTANTS
  BitsPerVector = 2
  FlagsPerIndex = 3
  RLEMax = 11
  SmallMaxWords = 2
  WireSlack = 2
  Indices <- TwoWindows
  Points <- Apart
  Spans <- NoRanges
  Constructors = {"sm_wrap"}
  Buffers = {12}
  Sizes = {14}
  GrowFloor = 12
  MaxBuffer = 7
SPECIFICATION Spec
INVARIANTS AnswersStand
