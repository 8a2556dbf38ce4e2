CONSTANTS
  t1 = t1
  t2 = t2
  t3 = t3
  NULL = NULL
  Thread <- Three
SPECIFICATION FairSpec
INVARIANTS
  RunningIsCurrent
  OwnMemoryMapped
  OwnFpuState
  LockFreeInThreads
  ProcessCircle
PROPERTIES
  ImplementsRoundRobin
  EveryThreadRuns
  KeyboardUnblocked
