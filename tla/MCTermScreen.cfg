SPECIFICATION ScreenSpec
CONSTANTS
  a = a
  TERM_ROWS = 4
  ROWS_PER_SCREEN = 3
  Text = {a}
  Blank = Blank
  INT_MAX = 4
  Counts = {1, 4}
  Addressing = TRUE
  x = x
  y = y
  space = space
  CELL_ROWS = 2
  TERM_COLS = 3
  TabStop = 2
  Char = {x, y, space}
  Space = space
  CellCounts = {1, 2, 3, 4}
INVARIANTS
  ScreenTypeOK
  Scrollback
  EditsMove
  PrintedReadsBack
PROPERTY OutsideKept
