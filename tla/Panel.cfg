SPECIFICATION Spec
CONSTANTS
  ScreenWidth = 4
  ScreenHeight = 2
  CharWidth = 2
  CharHeight = 1
  Font <- MCFont
  Message <- MCMessage
  NewLine <- MCNewLine
  Byte = 2
  Windows <- MCWindows
  EarlyBlts = 1
  BltBound = 3
CHECK_DEADLOCK FALSE
INVARIANT TypeOK
INVARIANT ScreenAsExpected
