CONSTANTS
  BitsPerVector = 2
  FlagsPerIndex = 2
  RLEMax = 15
  Indices <- ThreeWindows
  Buffers = {4, 7, 9, 10, 40}
SPECIFICATION Spec
INVARIANTS TypeOK ChunksInOrder WordsAccounted CanonicalChunks SetIsExact UnsetIsExactOtherwise SpanIsFirst ScanSkipsExactly PrevIsGreatest
