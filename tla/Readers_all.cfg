CONSTANTS
  BitsPerVector = 2
  FlagsPerIndex = 1
  Ways = 2
  RLEMax = 15
  Indices = {0, 1, 2, 3, 4, 5, 6, 7, 8}
  Buffers = {40}
SPECIFICATION ReadersSpec
INVARIANTS LookupsAgree NextIsLeast AscendingResumes HintIsAChunk CachedLookupsAgree ContainsAgrees RankAgrees SelectAgrees NeverStale
