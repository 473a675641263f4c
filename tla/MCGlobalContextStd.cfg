SPECIFICATION StdSpec
CONSTANTS
  StdSeeds = {s1, s2}
  MaxDepth = 3
INVARIANTS
  BorrowsAreFrames
PROPERTIES
  ContextStableUnderF
  MixesSeeds
