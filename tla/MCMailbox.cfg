CONSTANTS
  p1 = p1  p2 = p2
  m1 = m1  m2 = m2  m3 = m3  m4 = m4
  NULL = NULL
  Proc <- Procs
  Receiver <- One
  Msg <- Four
  MaxSent = 4
SYMMETRY SymmetryFour
SPECIFICATION Spec
INVARIANTS
  HoldsTheUnconsumed
  LockedWhileIterating
PROPERTY OldestFirst
CHECK_DEADLOCK FALSE
