CONSTANTS
  start = start  child = child
  m1 = m1  m2 = m2  m3 = m3  m4 = m4
  NULL = NULL
  Proc <- Both
  Msg <- Three
  OutSizes <- Sizes
  MsgBuf = 1
  MaxKeys = 2
  MaxOut = 2
SPECIFICATION FairSpec
INVARIANTS
  OutputInOrder
  LockedInIteration
PROPERTY OutputShown
CHECK_DEADLOCK FALSE
