SPECIFICATION Spec
CONSTANTS
  TERM_ROWS = 4
  TERM_COLS = 2
  ROWS_PER_SCREEN = 3
  TabStop = 1
  INT_MAX = 8
  Params = {0, 2, 5}
  AltModes = {47, 1049}
INVARIANTS
  TypeOK
  AddressesInBuffer
  CursorInView
PROPERTY MainScreenKept
