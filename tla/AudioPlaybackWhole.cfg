SPECIFICATION Spec
CONSTANTS
  NBlocks = 3
  BlockLen = 2
INVARIANT SwappedInWhole
