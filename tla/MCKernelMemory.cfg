SPECIFICATION Spec
CONSTANTS
  PAGE_SIZE = 9
  KMEM_START = 9
  DEF_STACK_LOC = 9
  HIGH_HALF_BOT = 36
  HALF_SIZE = 81
  MemoryMaps <- Maps
  Slot = {s1, s2, s3}
  Holder = {f1, f2}
  KSizes = {1, 3, 8, 10}
  FrameSizes = {9, 18}
  LoadSizes = {12}
  MaxCalls = 6
  VirtReserve = 18
SYMMETRY Symmetric
INVARIANTS BlocksApart NothingLost FramesApart StopsOnlyWithoutMemory
CHECK_DEADLOCK FALSE
