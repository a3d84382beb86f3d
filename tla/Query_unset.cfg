CONSTANTS
  BitsPerVector = 2
  FlagsPerIndex = 2
  RLEMax = 15
  Indices <- ThreeWindows
  Buffers = {40}
SPECIFICATION Spec
INVARIANTS SelectUnsetIsNth
