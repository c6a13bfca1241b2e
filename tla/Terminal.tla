------------------------------ MODULE Terminal ------------------------------
(***************************************************************************)
(* The terminal emulator's geometry: cursor, scroll region, alternate      *)
(* screen, scrollback view.  One action per control function that          *)
(* terminalAppendOutput dispatches (the bytes are parsed in CsiParser, the *)
(* characters on the rows are in TermRows).  Everything between two calls  *)
(* of terminalAppendOutput runs under state_mutex; in_chunk is TRUE inside *)
(* such a call.                                                            *)
(***************************************************************************)
EXTENDS Integers

CONSTANTS
  TERM_ROWS, TERM_COLS,  \* the scrollback buffer
  ROWS_PER_SCREEN,       \* the visible window
  TabStop,               \* 8 in the source
  INT_MAX,               \* the largest int: 2^31 - 1 on the device
  Params,                \* bound: the values the CSI parameters have
  AltModes               \* the alternate-screen modes the remote side uses: 47, 1049

ASSUME GeometryAssumption ==
  /\ TERM_COLS \in Nat \ {0}
  /\ ROWS_PER_SCREEN \in Nat /\ ROWS_PER_SCREEN >= 2
  /\ TERM_ROWS \in Nat /\ TERM_ROWS >= ROWS_PER_SCREEN
  /\ INT_MAX \in Nat /\ TERM_ROWS <= INT_MAX /\ TERM_COLS <= INT_MAX
ASSUME ParamAssumption == TabStop \in Nat \ {0} /\ Params \subseteq -INT_MAX - 1 .. INT_MAX

\* No parameter added to a cursor overflows.  The code does not test it.
ParamsFit ==
  \A p \in Params : p + (TERM_ROWS - 1) <= INT_MAX /\ p + (TERM_COLS - 1) <= INT_MAX

VARIABLES
  term_cursor_row, term_cursor_col, term_wrap_pending,
  term_line_count, term_scroll,
  scroll_region_top, scroll_region_bot, scroll_region_set,
  term_alt_active,
  saved_main,    \* saved_main_cursor_row, _col, saved_main_line_count, _scroll
  saved_cursor,  \* saved_cursor_row, saved_cursor_col (ESC 7 / CSI s / 1049)
  in_chunk,      \* terminalAppendOutput is running
  touched        \* ghost: the user scrolled since the last chunk

cursor == <<term_cursor_row, term_cursor_col>>
view   == <<term_line_count, term_scroll>>
region == <<scroll_region_top, scroll_region_bot, scroll_region_set>>
screen == <<term_alt_active, saved_main>>
vars == <<cursor, term_wrap_pending, view, region, screen, saved_cursor, in_chunk, touched>>

Rows == 0 .. TERM_ROWS - 1
Cols == 0 .. TERM_COLS - 1

\* The int sum of a cursor and a count wraps around.
IntSum(x, n) == IF x + n > INT_MAX THEN x + n - 2 * (INT_MAX + 1) ELSE x + n

AtMost(x, limit)  == IF x > limit THEN limit ELSE x
AtLeast(x, limit) == IF x < limit THEN limit ELSE x

\* Every cursor, current or saved, addresses a cell of the buffer.
TypeOK ==
  /\ term_cursor_row \in Rows /\ term_cursor_col \in Cols
  /\ term_line_count \in 1 .. TERM_ROWS
  /\ term_scroll \in Int
  /\ scroll_region_top \in Int /\ scroll_region_bot \in Int
  /\ saved_main \in [row : Rows, col : Cols, count : 0 .. TERM_ROWS, scroll : Int]
  /\ saved_cursor \in [row : Rows, col : Cols]
  /\ term_wrap_pending \in BOOLEAN /\ scroll_region_set \in BOOLEAN
  /\ term_alt_active \in BOOLEAN /\ in_chunk \in BOOLEAN
  /\ touched \in BOOLEAN

FullRegion ==
  /\ scroll_region_top' = 0
  /\ scroll_region_bot' = ROWS_PER_SCREEN - 1
  /\ scroll_region_set' = FALSE

Init ==
  /\ term_cursor_row = 0 /\ term_cursor_col = 0 /\ term_wrap_pending = FALSE
  /\ term_line_count = 1 /\ term_scroll = 0
  /\ scroll_region_top = 0 /\ scroll_region_bot = ROWS_PER_SCREEN - 1
  /\ scroll_region_set = FALSE
  /\ term_alt_active = FALSE
  /\ saved_main = [row |-> 0, col |-> 0, count |-> 0, scroll |-> 0]
  /\ saved_cursor = [row |-> 0, col |-> 0]
  /\ in_chunk = FALSE /\ touched = FALSE

-----------------------------------------------------------------------------
(* Moving the cursor.                                                      *)

max_row == IF term_alt_active THEN ROWS_PER_SCREEN ELSE TERM_ROWS
Count(p) == IF p > 0 THEN p ELSE 1      \* a missing or zero count is 1
Index(p) == IF p > 0 THEN p - 1 ELSE 0  \* 1-based position, missing is 1
ScreenBounded == term_alt_active \/ scroll_region_set

\* terminalCursorDown: inside the region the cursor stops at its bottom line
\* (the region scrolls), below it it stays; on the main screen the buffer
\* grows, and scrolls when it is full.
RowBelow ==
  IF ScreenBounded
  THEN IF term_cursor_row < scroll_region_bot THEN term_cursor_row + 1 ELSE term_cursor_row
  ELSE AtMost(term_cursor_row + 1, TERM_ROWS - 1)

terminalCursorDown ==
  /\ term_cursor_row' = RowBelow
  /\ term_line_count' = IF ScreenBounded THEN term_line_count
                        ELSE AtLeast(term_line_count, RowBelow + 1)

\* Every byte is handled inside a call of terminalAppendOutput.
Output == in_chunk' = TRUE

Move(row, col) ==
  /\ Output
  /\ term_cursor_row' = row /\ term_cursor_col' = col
  /\ term_wrap_pending' = FALSE
  /\ UNCHANGED <<region, screen, saved_cursor, touched>>

MoveOnly(row, col) == Move(row, col) /\ UNCHANGED view

\* CSI H and CSI d raise term_line_count to the line they address.
MoveAndCount(row, col) ==
  /\ Move(row, col)
  /\ term_line_count' = AtLeast(term_line_count, row + 1)
  /\ UNCHANGED term_scroll

-----------------------------------------------------------------------------
(* Printable bytes and C0 controls.                                        *)

\* terminalPutChar: the wrap is delayed until the next character.
PutChar ==
  /\ Output
  /\ LET col == IF term_wrap_pending THEN 0 ELSE term_cursor_col IN
       /\ IF term_wrap_pending THEN terminalCursorDown
          ELSE UNCHANGED <<term_cursor_row, term_line_count>>
       /\ IF col >= TERM_COLS - 1 THEN term_wrap_pending' = TRUE /\ term_cursor_col' = col
          ELSE term_wrap_pending' = FALSE /\ term_cursor_col' = col + 1
  /\ UNCHANGED <<term_scroll, region, screen, saved_cursor, touched>>

\* \n, and ESC E: first column of the next line.
NextLine ==
  /\ Output
  /\ term_cursor_col' = 0
  /\ terminalCursorDown
  /\ term_wrap_pending' = FALSE
  /\ UNCHANGED <<term_scroll, region, screen, saved_cursor, touched>>

CarriageReturn == MoveOnly(term_cursor_row, 0)

\* Mutant: backspace steps back but leaves the wrap pending.
BackspaceKeepsWrap ==
  /\ Output
  /\ term_cursor_col' = AtLeast(term_cursor_col - 1, 0)
  /\ UNCHANGED <<term_cursor_row, term_wrap_pending, view, region, screen, saved_cursor,
                 touched>>

Backspace == MoveOnly(term_cursor_row, AtLeast(term_cursor_col - 1, 0))

\* \t: to the next tab stop, or to the next line when the row is full.
NextTab == (term_cursor_col \div TabStop + 1) * TabStop

Tab ==
  \/ NextTab < TERM_COLS /\ MoveOnly(term_cursor_row, NextTab)
  \/ NextTab >= TERM_COLS /\ NextLine

-----------------------------------------------------------------------------
(* ESC and CSI functions.                                                  *)

\* ESC M.
ReverseIndex ==
  MoveOnly(IF term_cursor_row = scroll_region_top THEN term_cursor_row
           ELSE AtLeast(term_cursor_row - 1, 0), term_cursor_col)

\* ESC D: at the region's bottom the region scrolls, even on the main screen.
IndexDown ==
  /\ Output
  /\ IF term_cursor_row = scroll_region_bot
     THEN UNCHANGED <<term_cursor_row, term_line_count>>
     ELSE terminalCursorDown
  /\ term_wrap_pending' = FALSE
  /\ UNCHANGED <<term_cursor_col, term_scroll, region, screen, saved_cursor, touched>>

\* ESC 7, CSI s.  Only the CSI form ends a pending wrap.
SaveCursor(csi) ==
  /\ Output
  /\ saved_cursor' = [row |-> term_cursor_row, col |-> term_cursor_col]
  /\ term_wrap_pending' = (term_wrap_pending /\ ~csi)
  /\ UNCHANGED <<cursor, view, region, screen, touched>>

\* ESC 8, CSI u.
RestoreCursor == MoveOnly(saved_cursor.row, saved_cursor.col)

CursorUp(p)    == MoveOnly(AtLeast(term_cursor_row - Count(p), 0), term_cursor_col)
CursorDown(p)  == MoveOnly(AtMost(IntSum(term_cursor_row, Count(p)), max_row - 1), term_cursor_col)
CursorRight(p) == MoveOnly(term_cursor_row, AtMost(IntSum(term_cursor_col, Count(p)), TERM_COLS - 1))
CursorLeft(p)  == MoveOnly(term_cursor_row, AtLeast(term_cursor_col - Count(p), 0))
CursorNextLine(p) == MoveOnly(AtMost(IntSum(term_cursor_row, Count(p)), max_row - 1), 0)
CursorPrevLine(p) == MoveOnly(AtLeast(term_cursor_row - Count(p), 0), 0)
CursorColumn(p)   == MoveOnly(term_cursor_row, AtMost(Index(p), TERM_COLS - 1))

\* Mutant: the row of CSI H is not clamped to the screen.
CursorPositionUnclamped(p0, p1) ==
  MoveAndCount(Index(p0), AtMost(Index(p1), TERM_COLS - 1))

CursorPosition(p0, p1) ==
  MoveAndCount(AtMost(Index(p0), max_row - 1), AtMost(Index(p1), TERM_COLS - 1))

CursorRow(p) == MoveAndCount(AtMost(Index(p), max_row - 1), term_cursor_col)

\* CSI 2J, CSI 3J: the cursor goes home and the scrollback is dropped.
EraseAll ==
  /\ Move(0, 0)
  /\ term_line_count' = 1 /\ term_scroll' = 0

\* Every other CSI function edits characters only and ends a pending wrap (when
\* its count overflows the device restarts: TermRows and TermCells have that).
EditRows == MoveOnly(term_cursor_row, term_cursor_col)

\* CSI r.
RegionTop(p0)  == Index(p0)
RegionBot(p1)  == AtMost(IF p1 > 0 THEN p1 - 1 ELSE ROWS_PER_SCREEN - 1, ROWS_PER_SCREEN - 1)

\* Mutant: an empty or inverted region is accepted as it is.
SetRegionAsGiven(p0, p1) ==
  /\ Output
  /\ scroll_region_top' = RegionTop(p0) /\ scroll_region_bot' = RegionBot(p1)
  /\ scroll_region_set' = (p0 # 0 \/ p1 # 0)
  /\ term_cursor_row' = 0 /\ term_cursor_col' = 0 /\ term_wrap_pending' = FALSE
  /\ UNCHANGED <<view, screen, saved_cursor, touched>>

SetRegion(p0, p1) ==
  /\ Output
  /\ IF RegionTop(p0) >= RegionBot(p1)
     THEN scroll_region_top' = 0 /\ scroll_region_bot' = ROWS_PER_SCREEN - 1
     ELSE scroll_region_top' = RegionTop(p0) /\ scroll_region_bot' = RegionBot(p1)
  /\ scroll_region_set' = (p0 # 0 \/ p1 # 0)
  /\ term_cursor_row' = 0 /\ term_cursor_col' = 0 /\ term_wrap_pending' = FALSE
  /\ UNCHANGED <<view, screen, saved_cursor, touched>>

-----------------------------------------------------------------------------
(* The alternate screen (CSI ?47h, ?1047h, ?1049h and their resets).       *)

HereSaved == [row |-> term_cursor_row, col |-> term_cursor_col]

\* Mutant: entering twice saves the alternate screen over the main one.
enterAltScreenAgain ==
  /\ saved_main' = [row |-> term_cursor_row, col |-> term_cursor_col,
                    count |-> term_line_count, scroll |-> term_scroll]
  /\ term_cursor_row' = 0 /\ term_cursor_col' = 0
  /\ term_line_count' = 1 /\ term_scroll' = 0
  /\ FullRegion
  /\ term_alt_active' = TRUE

enterAltScreen ==
  IF term_alt_active THEN UNCHANGED <<cursor, view, region, term_alt_active, saved_main>>
  ELSE /\ saved_main' = [row |-> term_cursor_row, col |-> term_cursor_col,
                         count |-> term_line_count, scroll |-> term_scroll]
       /\ term_cursor_row' = 0 /\ term_cursor_col' = 0
       /\ term_line_count' = 1 /\ term_scroll' = 0
       /\ FullRegion
       /\ term_alt_active' = TRUE

\* leaveAltScreen, except for where the cursor ends.
leaveAltScreen ==
  IF term_alt_active
  THEN /\ term_line_count' = saved_main.count /\ term_scroll' = saved_main.scroll
       /\ FullRegion
       /\ term_alt_active' = FALSE
  ELSE UNCHANGED <<view, region, term_alt_active>>

SetAlt1049 ==
  /\ 1049 \in AltModes
  /\ Output
  /\ saved_cursor' = HereSaved
  /\ enterAltScreen
  /\ term_wrap_pending' = FALSE
  /\ UNCHANGED touched

SetAlt47 ==
  /\ 47 \in AltModes
  /\ Output
  /\ enterAltScreen
  /\ term_wrap_pending' = FALSE
  /\ UNCHANGED <<saved_cursor, touched>>

\* 1049 restores the ESC 7 / CSI s slot, whoever wrote it last.
ResetAlt1049 ==
  /\ 1049 \in AltModes
  /\ Output
  /\ leaveAltScreen
  /\ term_cursor_row' = saved_cursor.row /\ term_cursor_col' = saved_cursor.col
  /\ term_wrap_pending' = FALSE
  /\ UNCHANGED <<saved_main, saved_cursor, touched>>

ResetAlt47 ==
  /\ 47 \in AltModes
  /\ Output
  /\ leaveAltScreen
  /\ IF term_alt_active
     THEN term_cursor_row' = saved_main.row /\ term_cursor_col' = saved_main.col
     ELSE UNCHANGED cursor
  /\ term_wrap_pending' = FALSE
  /\ UNCHANGED <<saved_main, saved_cursor, touched>>

\* terminalClear: ESC c inside a chunk; channel closed or double Ctrl-C outside.
terminalClear ==
  /\ term_cursor_row' = 0 /\ term_cursor_col' = 0 /\ term_wrap_pending' = FALSE
  /\ term_line_count' = 1 /\ term_scroll' = 0
  /\ FullRegion
  /\ term_alt_active' = FALSE
  /\ saved_cursor' = [row |-> 0, col |-> 0]
  /\ UNCHANGED <<saved_main, in_chunk, touched>>

-----------------------------------------------------------------------------
(* Between bytes: the end of a chunk, and the user's touch scroll.         *)

\* Mutant: the view follows the cursor down but not up.
EndChunkDownOnly ==
  /\ in_chunk
  /\ term_scroll' = IF term_cursor_row >= term_scroll + ROWS_PER_SCREEN
                    THEN term_cursor_row - ROWS_PER_SCREEN + 1 ELSE term_scroll
  /\ in_chunk' = FALSE /\ touched' = FALSE
  /\ UNCHANGED <<cursor, term_wrap_pending, term_line_count, region, screen, saved_cursor>>

\* Auto-scroll to keep the cursor visible.
EndChunk ==
  /\ in_chunk
  /\ term_scroll' = IF term_cursor_row >= term_scroll + ROWS_PER_SCREEN
                    THEN term_cursor_row - ROWS_PER_SCREEN + 1
                    ELSE AtMost(term_scroll, term_cursor_row)
  /\ in_chunk' = FALSE /\ touched' = FALSE
  /\ UNCHANGED <<cursor, term_wrap_pending, term_line_count, region, screen, saved_cursor>>

\* Mutant: the limit is the last line, not the last full window.
TouchScrollToLastLine(delta) ==
  /\ ~in_chunk
  /\ term_scroll' = AtMost(AtLeast(term_scroll - delta, 0), term_line_count - 1)
  /\ touched' = TRUE
  /\ UNCHANGED <<cursor, term_wrap_pending, term_line_count, region, screen, saved_cursor,
                 in_chunk>>

TouchScroll(delta) ==
  /\ ~in_chunk
  /\ term_scroll' = AtMost(AtLeast(term_scroll - delta, 0),
                           AtLeast(term_line_count - ROWS_PER_SCREEN, 0))
  /\ touched' = TRUE
  /\ UNCHANGED <<cursor, term_wrap_pending, term_line_count, region, screen, saved_cursor,
                 in_chunk>>

Byte ==
  \/ PutChar \/ NextLine \/ CarriageReturn \/ Backspace \/ Tab
  \/ ReverseIndex \/ IndexDown \/ RestoreCursor \/ EraseAll \/ EditRows
  \/ SetAlt1049 \/ SetAlt47 \/ ResetAlt1049 \/ ResetAlt47
  \/ \E csi \in BOOLEAN : SaveCursor(csi)
  \/ \E p \in Params :
       \/ CursorUp(p) \/ CursorDown(p) \/ CursorRight(p) \/ CursorLeft(p)
       \/ CursorNextLine(p) \/ CursorPrevLine(p) \/ CursorColumn(p) \/ CursorRow(p)
  \/ \E p0, p1 \in Params : CursorPosition(p0, p1) \/ SetRegion(p0, p1)

Next ==
  \/ Byte \/ terminalClear \/ EndChunk
  \/ \E delta \in -ROWS_PER_SCREEN .. ROWS_PER_SCREEN : TouchScroll(delta)

Spec == Init /\ [][Next]_vars

-----------------------------------------------------------------------------
(* Properties.                                                             *)

\* The scroll region is a range of at least two rows of the visible screen,
\* so terminalScrollRegionUp/Down never leave term_buf.
RegionInScreen ==
  /\ 0 <= scroll_region_top
  /\ scroll_region_top < scroll_region_bot
  /\ scroll_region_bot < ROWS_PER_SCREEN

\* The window the display snapshots lies in the buffer, for the current
\* screen and for the main screen saved under an alternate one.
ViewInBuffer ==
  /\ term_scroll \in 0 .. TERM_ROWS - ROWS_PER_SCREEN
  /\ saved_main.scroll \in 0 .. TERM_ROWS - ROWS_PER_SCREEN

\* A wrap is pending only after a character was put in the last column: no
\* cursor movement carries it along.
WrapAtLastColumn == term_wrap_pending => term_cursor_col = TERM_COLS - 1

\* What the emulator and the display address lies in the buffer, after any sequence of
\* control functions, chunks and touches.
AddressesInBuffer == RegionInScreen /\ ViewInBuffer /\ WrapAtLastColumn

\* While the alternate screen is up nothing overwrites the saved main screen,
\* so leaving it brings back what was there, however often it was "entered".
MainScreenKept == [][term_alt_active /\ term_alt_active' => UNCHANGED saved_main]_vars

\* Between two chunks the cursor is in the window, unless the user scrolled.
CursorInView ==
  ~in_chunk /\ ~touched =>
    /\ term_scroll <= term_cursor_row
    /\ term_cursor_row < term_scroll + ROWS_PER_SCREEN

=============================================================================
