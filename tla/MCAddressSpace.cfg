CONSTANTS
  t1 = t1  t2 = t2
  NULL = NULL
  INVALID_PAGE = INVALID_PAGE
  Thread <- Threads
  Memory <- Memories
  Bot = 1
  Top = 8
  CodeSizes <- OneOrTwo
SYMMETRY Symmetry
SPECIFICATION Spec
INVARIANTS
  AssertionsHold
  HeapBelowStack
  MappedExactly
  FramesPrivate
  FaultResolved
CHECK_DEADLOCK FALSE
