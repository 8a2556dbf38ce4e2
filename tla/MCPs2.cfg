CONSTANTS
  KB_BUFFER_SIZE = 4
  BufSize = 4
  MaxKeys = 5
SPECIFICATION FairSpec
INVARIANTS
  OneHoldsTheFile
  ReadsStayInBuffer
  EveryKeyOnce
  OvertakenOnlyInList
PROPERTY KeysArrive
CHECK_DEADLOCK FALSE
