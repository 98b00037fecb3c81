SPECIFICATION FairSpec
CONSTANTS
  NBlocks = 3
  BlockLen = 2
INVARIANTS ChunksAreApart
PROPERTIES HeardInOrder WriteReturns ImplementsQueue
