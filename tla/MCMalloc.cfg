CONSTANTS
  HEAP_SIZE = 10
  Sizes = {0,3}
  MaxBlocks = 3
  NULL = NULL
SPECIFICATION Spec
INVARIANTS
  BlocksDisjoint
  ChunksReachTheTop
