CONSTANTS
  start = start  child = child
  m1 = m1  m2 = m2  m3 = m3  m4 = m4
  NULL = NULL
  Proc <- Both
  Msg <- Four
  OutSizes <- Sizes
  MsgBuf = 1
  MaxKeys = 4
  MaxOut = 0
SYMMETRY SymmetryFour
SPECIFICATION Spec
INVARIANT FilledFromQueue
CHECK_DEADLOCK FALSE
