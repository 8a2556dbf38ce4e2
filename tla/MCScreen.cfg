SPECIFICATION SSpec
CONSTANTS
  LONG_BITS = 8
  INT_BITS = 4
  TextMax = 12
  width = 5
  height = 4
  Formats <- FormatList
  Args <- ArgList
  ScanCodes <- Codes
  MSG_MAX = 5
  Discarding <- DiscardText
  MaxEvents = 4
INVARIANTS
  ShowsTheLastLines
  ShiftedWhileHeld
  FormatsInLength
  NumeralsAreRight
CHECK_DEADLOCK FALSE
