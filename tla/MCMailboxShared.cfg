CONSTANTS
  p1 = p1  p2 = p2
  m1 = m1  m2 = m2  m3 = m3  m4 = m4
  NULL = NULL
  Proc <- Procs
  Receiver <- Procs
  Msg <- Three
  MaxSent = 4
SYMMETRY SymmetryThree
SPECIFICATION Spec
INVARIANT UpdatesToTheNextInQueue
CHECK_DEADLOCK FALSE
