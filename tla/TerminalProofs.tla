--------------------------- MODULE TerminalProofs ---------------------------
(***************************************************************************)
(* The terminal's geometry is safe for every buffer and screen size and    *)
(* every CSI parameter that overflows no sum with a cursor: cursors        *)
(* address cells, the scroll region and the display window lie in the      *)
(* buffer, and the saved main screen survives.  A parameter that does      *)
(* overflow takes the cursor out of the buffer (OverflowLeaves).           *)
(***************************************************************************)
EXTENDS Terminal, TLAPS

\* A saved main screen has at least one line (0 is only the initial value).
MainCounted == term_alt_active => saved_main.count >= 1

IInv ==
  /\ TypeOK
  /\ RegionInScreen
  /\ ViewInBuffer
  /\ WrapAtLastColumn
  /\ CursorInView
  /\ MainCounted

(* AtMost and AtLeast clamp an integer into a range. *)
LEMMA Clamps ==
  ASSUME NEW x \in Int, NEW limit \in Int
  PROVE  /\ AtMost(x, limit) \in Int /\ AtMost(x, limit) <= limit /\ AtMost(x, limit) <= x
         /\ AtMost(x, limit) \in {x, limit}
         /\ AtLeast(x, limit) \in Int /\ AtLeast(x, limit) >= limit /\ AtLeast(x, limit) >= x
         /\ AtLeast(x, limit) \in {x, limit}
  BY DEF AtMost, AtLeast

-----------------------------------------------------------------------------
(* The corners of the buffer. *)
LEMMA Corners ==
  /\ 0 \in Rows /\ 0 \in Cols /\ 1 \in 1 .. TERM_ROWS /\ 0 \in 0 .. TERM_ROWS
  /\ 0 \in 0 .. TERM_ROWS - ROWS_PER_SCREEN
  BY GeometryAssumption DEF Rows, Cols

(* The initial state satisfies the invariant. *)
LEMMA InitIInv == Init => IInv
  <1> SUFFICES ASSUME Init PROVE IInv
    OBVIOUS
  <1>1. /\ term_cursor_row = 0 /\ term_cursor_col = 0
        /\ term_line_count = 1 /\ term_scroll = 0
        /\ scroll_region_top = 0 /\ scroll_region_bot = ROWS_PER_SCREEN - 1
        /\ saved_main = [row |-> 0, col |-> 0, count |-> 0, scroll |-> 0]
        /\ saved_cursor = [row |-> 0, col |-> 0]
        /\ term_wrap_pending = FALSE /\ term_alt_active = FALSE
    BY DEF Init
  <1>2. /\ scroll_region_set \in BOOLEAN /\ term_alt_active \in BOOLEAN
        /\ in_chunk \in BOOLEAN /\ touched \in BOOLEAN /\ term_wrap_pending \in BOOLEAN
    BY DEF Init
  <1>3. TypeOK
    BY <1>1, <1>2, Corners, GeometryAssumption DEF TypeOK
  <1>4. RegionInScreen /\ ViewInBuffer
    BY <1>1, Corners, GeometryAssumption DEF RegionInScreen, ViewInBuffer
  <1>5. WrapAtLastColumn /\ CursorInView /\ MainCounted
    BY <1>1, GeometryAssumption DEF WrapAtLastColumn, CursorInView, MainCounted
  <1> QED BY <1>3, <1>4, <1>5 DEF IInv

(* A step that leaves a good cursor, view, region and saved state, with no
   wrap pending, preserves the invariant. *)
LEMMA Jump ==
  ASSUME IInv,
         term_cursor_row' \in Rows, term_cursor_col' \in Cols,
         term_wrap_pending' = FALSE,
         term_line_count' \in 1 .. TERM_ROWS,
         term_scroll' \in 0 .. TERM_ROWS - ROWS_PER_SCREEN,
         UNCHANGED region \/ FullRegion,
         term_alt_active' \in BOOLEAN,
         (UNCHANGED saved_main /\ (term_alt_active' => term_alt_active))
           \/ saved_main' = [row |-> term_cursor_row, col |-> term_cursor_col,
                             count |-> term_line_count, scroll |-> term_scroll],
         saved_cursor' \in [row : Rows, col : Cols],
         Output \/ (UNCHANGED in_chunk /\ term_cursor_row' = 0 /\ term_scroll' = 0),
         UNCHANGED touched
  PROVE  IInv'
  <1>1. RegionInScreen' /\ scroll_region_top' \in Int /\ scroll_region_bot' \in Int
    BY GeometryAssumption DEF IInv, TypeOK, RegionInScreen, region, FullRegion
  <1>2. scroll_region_set' \in BOOLEAN
    BY Zenon DEF IInv, TypeOK, region, FullRegion
  <1>3. in_chunk' \in BOOLEAN /\ touched' \in BOOLEAN /\ term_wrap_pending' \in BOOLEAN
    BY Zenon DEF IInv, TypeOK, Output
  <1>4. /\ saved_main' \in [row : Rows, col : Cols, count : 0 .. TERM_ROWS, scroll : Int]
        /\ saved_main'.scroll \in 0 .. TERM_ROWS - ROWS_PER_SCREEN
        /\ MainCounted'
    BY DEF IInv, TypeOK, ViewInBuffer, MainCounted
  <1>5. TypeOK'
    BY <1>1, <1>2, <1>3, <1>4, GeometryAssumption DEF TypeOK, Rows, Cols
  <1>6. ViewInBuffer'
    BY <1>4 DEF ViewInBuffer
  <1>7. WrapAtLastColumn'
    BY DEF WrapAtLastColumn
  <1>8. CursorInView'
    BY GeometryAssumption DEF CursorInView, Output
  <1> QED BY <1>1, <1>4, <1>5, <1>6, <1>7, <1>8 DEF IInv

(* Moving the cursor to any cell preserves the invariant. *)
LEMMA MoveIInv ==
  ASSUME IInv, NEW row \in Rows, NEW col \in Cols,
         MoveOnly(row, col) \/ MoveAndCount(row, col)
  PROVE  IInv'
  <1>1. Move(row, col)
    BY DEF MoveOnly, MoveAndCount
  <1>2. term_line_count' \in 1 .. TERM_ROWS /\ term_scroll' = term_scroll
    <2>1. CASE MoveOnly(row, col)
      BY <2>1 DEF MoveOnly, view, IInv, TypeOK
    <2>2. CASE MoveAndCount(row, col)
      BY <2>2, GeometryAssumption DEF MoveAndCount, AtLeast, IInv, TypeOK, Rows
    <2> QED BY <2>1, <2>2
  <1> QED
    BY <1>1, <1>2
    DEF Move, Output, IInv, TypeOK, RegionInScreen, ViewInBuffer, WrapAtLastColumn,
        CursorInView, MainCounted, region, screen

(* terminalCursorDown stays in the buffer and in the counted lines' range. *)
LEMMA CursorDownRange ==
  ASSUME IInv, terminalCursorDown
  PROVE  term_cursor_row' \in Rows /\ term_line_count' \in 1 .. TERM_ROWS
  <1>1. RowBelow \in Rows
    BY GeometryAssumption DEF RowBelow, AtMost, IInv, TypeOK, RegionInScreen, Rows
  <1> QED
    BY <1>1, GeometryAssumption DEF terminalCursorDown, AtLeast, IInv, TypeOK, Rows

(* Printing and line feeds preserve the invariant. *)
LEMMA PrintIInv == ASSUME IInv, PutChar \/ NextLine \/ IndexDown PROVE IInv'
  <1>1. /\ term_cursor_row' \in Rows /\ term_line_count' \in 1 .. TERM_ROWS
        /\ Output /\ UNCHANGED <<term_scroll, region, screen, saved_cursor, touched>>
    <2>1. CASE terminalCursorDown
      BY <2>1, CursorDownRange DEF PutChar, NextLine, IndexDown
    <2>2. CASE UNCHANGED <<term_cursor_row, term_line_count>>
      BY <2>2 DEF PutChar, NextLine, IndexDown, IInv, TypeOK
    <2> QED BY <2>1, <2>2 DEF PutChar, NextLine, IndexDown
  <1>2. /\ term_scroll' \in 0 .. TERM_ROWS - ROWS_PER_SCREEN
        /\ saved_cursor' \in [row : Rows, col : Cols]
        /\ term_alt_active' \in BOOLEAN /\ UNCHANGED saved_main /\ UNCHANGED region
        /\ UNCHANGED touched /\ (term_alt_active' => term_alt_active)
    BY <1>1 DEF IInv, TypeOK, ViewInBuffer, screen
  <1>3. CASE NextLine \/ IndexDown
    <2>1. term_cursor_col' \in Cols /\ term_wrap_pending' = FALSE
      BY <1>3, Corners DEF NextLine, IndexDown, IInv, TypeOK
    <2> QED BY <1>1, <1>2, <2>1, Jump
  <1>4. CASE PutChar
    <2> DEFINE col == IF term_wrap_pending THEN 0 ELSE term_cursor_col
    <2>1. col \in Cols
      BY Corners DEF IInv, TypeOK
    <2>2. IF col >= TERM_COLS - 1 THEN term_wrap_pending' = TRUE /\ term_cursor_col' = col
          ELSE term_wrap_pending' = FALSE /\ term_cursor_col' = col + 1
      BY <1>4 DEF PutChar
    <2> HIDE DEF col
    <2>3. term_wrap_pending' \in BOOLEAN
      BY <2>2
    <2>4. term_cursor_col' \in Cols /\ WrapAtLastColumn'
      BY <2>1, <2>2, GeometryAssumption DEF Cols, WrapAtLastColumn
    <2>5. /\ scroll_region_set' \in BOOLEAN /\ in_chunk' \in BOOLEAN
          /\ touched' \in BOOLEAN
      BY <1>1, <1>2, Zenon DEF region, IInv, TypeOK, Output
    <2>6. RegionInScreen' /\ scroll_region_top' \in Int /\ scroll_region_bot' \in Int
      BY <1>2 DEF region, IInv, TypeOK, RegionInScreen
    <2>7. TypeOK'
      BY <1>1, <1>2, <2>3, <2>4, <2>5, <2>6 DEF IInv, TypeOK
    <2>8. ViewInBuffer' /\ CursorInView' /\ MainCounted'
      BY <1>1, <1>2 DEF IInv, ViewInBuffer, CursorInView, MainCounted, Output
    <2> QED BY <2>4, <2>6, <2>7, <2>8 DEF IInv
  <1> QED BY <1>3, <1>4

(* Every control function that only moves the cursor preserves the invariant. *)
LEMMA MovesIInv ==
  ASSUME IInv, ParamsFit,
         NEW p \in Params, NEW p1 \in Params,
         \/ CarriageReturn \/ Backspace \/ ReverseIndex \/ RestoreCursor \/ EditRows
         \/ CursorUp(p) \/ CursorDown(p) \/ CursorRight(p) \/ CursorLeft(p)
         \/ CursorNextLine(p) \/ CursorPrevLine(p) \/ CursorColumn(p) \/ CursorRow(p)
         \/ CursorPosition(p, p1)
  PROVE  IInv'
  <1> DEFINE r == term_cursor_row
             c == term_cursor_col
  <1>1. r \in Rows /\ c \in Cols /\ saved_cursor.row \in Rows /\ saved_cursor.col \in Cols
    BY DEF IInv, TypeOK
  <1>2. /\ Count(p) \in Nat /\ Count(p) >= 1
        /\ Count(p) + (TERM_ROWS - 1) <= INT_MAX /\ Count(p) + (TERM_COLS - 1) <= INT_MAX
        /\ Index(p) \in Nat /\ Index(p1) \in Nat
    BY ParamAssumption, GeometryAssumption DEF ParamsFit, Count, Index
  <1>3. max_row \in Nat /\ 1 <= max_row /\ max_row <= TERM_ROWS
    BY GeometryAssumption DEF max_row
  <1>4. /\ 0 \in Cols
        /\ AtLeast(c - 1, 0) \in Cols
        /\ AtMost(IntSum(c, Count(p)), TERM_COLS - 1) \in Cols
        /\ AtLeast(c - Count(p), 0) \in Cols
        /\ AtMost(Index(p), TERM_COLS - 1) \in Cols
        /\ AtMost(Index(p1), TERM_COLS - 1) \in Cols
    BY <1>1, <1>2, GeometryAssumption DEF AtLeast, AtMost, IntSum, Cols
  <1>5. /\ AtLeast(r - 1, 0) \in Rows
        /\ AtLeast(r - Count(p), 0) \in Rows
        /\ AtMost(IntSum(r, Count(p)), max_row - 1) \in Rows
        /\ AtMost(Index(p), max_row - 1) \in Rows
    BY <1>1, <1>2, <1>3, GeometryAssumption DEF AtLeast, AtMost, IntSum, Rows
  <1>6. \E row \in Rows, col \in Cols : MoveOnly(row, col) \/ MoveAndCount(row, col)
    <2> HIDE DEF r, c
    <2>1. CASE CarriageReturn     BY <2>1, <1>1, <1>4 DEF CarriageReturn, r
    <2>2. CASE Backspace          BY <2>2, <1>1, <1>4 DEF Backspace, r, c
    <2>3. CASE ReverseIndex       BY <2>3, <1>1, <1>5 DEF ReverseIndex, r, c
    <2>4. CASE RestoreCursor      BY <2>4, <1>1 DEF RestoreCursor
    <2>5. CASE EditRows           BY <2>5, <1>1 DEF EditRows, r, c
    <2>6. CASE CursorUp(p)        BY <2>6, <1>1, <1>5 DEF CursorUp, r, c
    <2>7. CASE CursorDown(p)      BY <2>7, <1>1, <1>5 DEF CursorDown, r, c
    <2>8. CASE CursorRight(p)     BY <2>8, <1>1, <1>4 DEF CursorRight, r, c
    <2>9. CASE CursorLeft(p)      BY <2>9, <1>1, <1>4 DEF CursorLeft, r, c
    <2>10. CASE CursorNextLine(p) BY <2>10, <1>4, <1>5 DEF CursorNextLine, r
    <2>11. CASE CursorPrevLine(p) BY <2>11, <1>4, <1>5 DEF CursorPrevLine, r
    <2>12. CASE CursorColumn(p)   BY <2>12, <1>1, <1>4 DEF CursorColumn, r
    <2>13. CASE CursorRow(p)      BY <2>13, <1>1, <1>5 DEF CursorRow, c
    <2>14. CASE CursorPosition(p, p1)  BY <2>14, <1>4, <1>5 DEF CursorPosition
    <2> QED BY <2>1, <2>2, <2>3, <2>4, <2>5, <2>6, <2>7, <2>8, <2>9, <2>10, <2>11, <2>12,
               <2>13, <2>14
  <1> QED BY <1>6, MoveIInv

(* A tab goes to a column of the row or to the next line. *)
LEMMA TabIInv == ASSUME IInv, Tab PROVE IInv'
  <1>1. CASE NextTab < TERM_COLS /\ MoveOnly(term_cursor_row, NextTab)
    <2>1. term_cursor_row \in Rows /\ term_cursor_col \in Nat
      BY DEF IInv, TypeOK, Cols
    <2>2. term_cursor_col \div TabStop \in Nat
      BY <2>1, ParamAssumption
    <2>3. NextTab \in Nat
      BY <2>2, ParamAssumption DEF NextTab
    <2>4. NextTab \in Cols
      BY <2>3, <1>1, GeometryAssumption DEF Cols
    <2> QED BY <1>1, <2>1, <2>4, MoveIInv
  <1>2. CASE NextLine
    BY <1>2, PrintIInv
  <1> QED BY <1>1, <1>2 DEF Tab

(* CSI r leaves a region of at least two rows on the screen. *)
LEMMA RegionIInv ==
  ASSUME IInv, NEW p0 \in Params, NEW p1 \in Params, SetRegion(p0, p1)
  PROVE  IInv'
  <1>1. /\ RegionTop(p0) \in Int /\ RegionTop(p0) >= 0
        /\ RegionBot(p1) \in Int /\ RegionBot(p1) <= ROWS_PER_SCREEN - 1
    BY ParamAssumption, GeometryAssumption DEF RegionTop, RegionBot, Index, AtMost
  <1>2. /\ scroll_region_top' \in Int /\ scroll_region_bot' \in Int
        /\ RegionInScreen'
    BY <1>1, GeometryAssumption DEF SetRegion, RegionInScreen
  <1>3. /\ scroll_region_set' \in BOOLEAN
        /\ term_cursor_row' = 0 /\ term_cursor_col' = 0 /\ term_wrap_pending' = FALSE
        /\ in_chunk' = TRUE
        /\ UNCHANGED <<view, screen, saved_cursor, touched>>
    BY DEF SetRegion, Output
  <1>4. /\ term_line_count' \in 1 .. TERM_ROWS
        /\ term_scroll' \in 0 .. TERM_ROWS - ROWS_PER_SCREEN
        /\ saved_main' \in [row : Rows, col : Cols, count : 0 .. TERM_ROWS, scroll : Int]
        /\ saved_main'.scroll \in 0 .. TERM_ROWS - ROWS_PER_SCREEN
        /\ saved_cursor' \in [row : Rows, col : Cols]
        /\ term_alt_active' \in BOOLEAN /\ MainCounted'
    BY <1>3 DEF IInv, TypeOK, ViewInBuffer, MainCounted, view, screen
  <1>5. in_chunk' \in BOOLEAN /\ touched' \in BOOLEAN /\ term_wrap_pending' \in BOOLEAN
    BY <1>3, Zenon DEF IInv, TypeOK
  <1>6. TypeOK'
    BY <1>2, <1>3, <1>4, <1>5, Corners DEF TypeOK
  <1>7. ViewInBuffer' /\ WrapAtLastColumn' /\ CursorInView'
    BY <1>3, <1>4 DEF ViewInBuffer, WrapAtLastColumn, CursorInView
  <1> QED BY <1>2, <1>4, <1>6, <1>7 DEF IInv

(* Entering, leaving and clearing preserve the invariant. *)
LEMMA ScreenIInv ==
  ASSUME IInv,
         \/ SetAlt1049 \/ SetAlt47 \/ ResetAlt1049 \/ ResetAlt47 \/ terminalClear \/ EraseAll
  PROVE  IInv'
  <1>1. /\ term_cursor_row \in Rows /\ term_cursor_col \in Cols
        /\ term_line_count \in 1 .. TERM_ROWS
        /\ term_scroll \in 0 .. TERM_ROWS - ROWS_PER_SCREEN
        /\ term_alt_active \in BOOLEAN
        /\ saved_main.row \in Rows /\ saved_main.col \in Cols
        /\ term_alt_active => saved_main.count \in 1 .. TERM_ROWS
        /\ saved_main.scroll \in 0 .. TERM_ROWS - ROWS_PER_SCREEN
        /\ saved_cursor \in [row : Rows, col : Cols]
        /\ saved_cursor.row \in Rows /\ saved_cursor.col \in Cols
    BY DEF IInv, TypeOK, ViewInBuffer, MainCounted
  <1>2. CASE SetAlt1049 \/ SetAlt47
    <2>1. Output /\ term_wrap_pending' = FALSE /\ UNCHANGED touched /\ enterAltScreen
      BY <1>2 DEF SetAlt1049, SetAlt47
    <2>2. saved_cursor' \in [row : Rows, col : Cols]
      BY <1>1, <1>2 DEF SetAlt1049, SetAlt47, HereSaved
    <2>3. /\ term_cursor_row' \in Rows /\ term_cursor_col' \in Cols
          /\ term_line_count' \in 1 .. TERM_ROWS
          /\ term_scroll' \in 0 .. TERM_ROWS - ROWS_PER_SCREEN
          /\ UNCHANGED region \/ FullRegion
          /\ (UNCHANGED saved_main /\ (term_alt_active' => term_alt_active))
             \/ saved_main' = [row |-> term_cursor_row, col |-> term_cursor_col,
                               count |-> term_line_count, scroll |-> term_scroll]
      BY <1>1, <2>1, Corners DEF enterAltScreen, cursor, view
    <2>4. term_alt_active' \in BOOLEAN
      BY <1>1, <2>1, Zenon DEF enterAltScreen
    <2> QED BY <2>1, <2>2, <2>3, <2>4, Jump
  <1>3. CASE ResetAlt1049 \/ ResetAlt47
    <2>1. /\ Output /\ term_wrap_pending' = FALSE /\ leaveAltScreen
          /\ UNCHANGED touched /\ UNCHANGED saved_main /\ UNCHANGED saved_cursor
      BY <1>3 DEF ResetAlt1049, ResetAlt47
    <2>2. term_cursor_row' \in Rows /\ term_cursor_col' \in Cols
      BY <1>1, <1>3 DEF ResetAlt1049, ResetAlt47, cursor
    <2>3. /\ term_line_count' \in 1 .. TERM_ROWS
          /\ term_scroll' \in 0 .. TERM_ROWS - ROWS_PER_SCREEN
          /\ UNCHANGED region \/ FullRegion
          /\ term_alt_active' => term_alt_active
      BY <1>1, <2>1 DEF leaveAltScreen, view
    <2>4. term_alt_active' \in BOOLEAN
      BY <1>1, <2>1, Zenon DEF leaveAltScreen
    <2> QED BY <1>1, <2>1, <2>2, <2>3, <2>4, Jump
  <1>4. CASE terminalClear
    <2>1. /\ term_cursor_row' = 0 /\ term_cursor_col' = 0 /\ term_wrap_pending' = FALSE
          /\ term_line_count' = 1 /\ term_scroll' = 0 /\ FullRegion
          /\ term_alt_active' \in BOOLEAN /\ (term_alt_active' => term_alt_active)
          /\ UNCHANGED saved_main /\ UNCHANGED in_chunk /\ UNCHANGED touched
          /\ saved_cursor' \in [row : Rows, col : Cols]
      BY <1>4, Corners DEF terminalClear
    <2> QED BY <2>1, Corners, Jump
  <1>5. CASE EraseAll
    <2>1. /\ term_cursor_row' = 0 /\ term_cursor_col' = 0 /\ term_wrap_pending' = FALSE
          /\ term_line_count' = 1 /\ term_scroll' = 0
          /\ UNCHANGED region /\ UNCHANGED term_alt_active /\ UNCHANGED saved_main
          /\ UNCHANGED saved_cursor /\ Output /\ UNCHANGED touched
      BY <1>5 DEF EraseAll, Move, screen
    <2> QED BY <1>1, <2>1, Corners, Jump
  <1> QED BY <1>2, <1>3, <1>4, <1>5

(* Saving the cursor records a cell; a wrap pending stays where it is. *)
LEMMA SaveIInv == ASSUME IInv, NEW csi \in BOOLEAN, SaveCursor(csi) PROVE IInv'
  <1>1. /\ saved_cursor' = [row |-> term_cursor_row, col |-> term_cursor_col]
        /\ in_chunk' = TRUE
        /\ term_wrap_pending' = (term_wrap_pending /\ ~csi)
        /\ UNCHANGED <<cursor, view, region, screen, touched>>
    BY DEF SaveCursor, Output
  <1> USE DEF IInv, TypeOK, RegionInScreen, ViewInBuffer, WrapAtLastColumn,
              CursorInView, MainCounted, region, screen, view, cursor
  <1>2. /\ term_wrap_pending' \in BOOLEAN
        /\ WrapAtLastColumn'
    BY <1>1, Zenon
  <1> QED BY <1>1, <1>2

(* The view stays on the buffer at the end of a chunk and under the finger. *)
LEMMA ViewIInv ==
  ASSUME IInv, EndChunk \/ \E delta \in -ROWS_PER_SCREEN .. ROWS_PER_SCREEN : TouchScroll(delta)
  PROVE  IInv'
  <1>1. /\ term_cursor_row \in Rows /\ term_line_count \in 1 .. TERM_ROWS
        /\ term_scroll \in 0 .. TERM_ROWS - ROWS_PER_SCREEN
    BY DEF IInv, TypeOK, ViewInBuffer
  <1>2. /\ UNCHANGED <<cursor, term_wrap_pending, term_line_count, region, screen, saved_cursor>>
        /\ in_chunk' \in BOOLEAN /\ touched' \in BOOLEAN
    BY Zenon DEF EndChunk, TouchScroll, IInv, TypeOK
  <1>3. term_scroll' \in 0 .. TERM_ROWS - ROWS_PER_SCREEN /\ CursorInView'
    <2>1. CASE EndChunk
      <3>1. term_scroll' = IF term_cursor_row >= term_scroll + ROWS_PER_SCREEN
                           THEN term_cursor_row - ROWS_PER_SCREEN + 1
                           ELSE AtMost(term_scroll, term_cursor_row)
        BY <2>1 DEF EndChunk
      <3>2. /\ term_scroll' \in 0 .. TERM_ROWS - ROWS_PER_SCREEN
            /\ term_scroll' <= term_cursor_row
            /\ term_cursor_row < term_scroll' + ROWS_PER_SCREEN
        BY <1>1, <3>1, GeometryAssumption DEF AtMost, Rows
      <3> QED BY <1>2, <3>2 DEF CursorInView, cursor
    <2>2. ASSUME NEW delta \in -ROWS_PER_SCREEN .. ROWS_PER_SCREEN, TouchScroll(delta)
          PROVE  term_scroll' \in 0 .. TERM_ROWS - ROWS_PER_SCREEN /\ CursorInView'
      <3>1. /\ term_scroll' = AtMost(AtLeast(term_scroll - delta, 0),
                                     AtLeast(term_line_count - ROWS_PER_SCREEN, 0))
            /\ touched' = TRUE
        BY <2>2 DEF TouchScroll
      <3>2. delta \in Int /\ term_scroll - delta \in Int
        BY <1>1, GeometryAssumption
      <3>3. term_scroll' \in 0 .. TERM_ROWS - ROWS_PER_SCREEN
        BY <1>1, <3>1, <3>2, GeometryAssumption DEF AtMost, AtLeast
      <3> QED BY <3>1, <3>3 DEF CursorInView
    <2> QED BY <2>1, <2>2
  <1>4. TypeOK'
    BY <1>2, <1>3 DEF IInv, TypeOK, cursor, region, screen
  <1>5. RegionInScreen' /\ ViewInBuffer' /\ WrapAtLastColumn' /\ MainCounted'
    BY <1>2, <1>3
    DEF IInv, RegionInScreen, ViewInBuffer, WrapAtLastColumn, MainCounted, cursor, region, screen
  <1> QED BY <1>3, <1>4, <1>5 DEF IInv

(* Every step preserves the invariant. *)
LEMMA NextIInv == ParamsFit /\ IInv /\ [Next]_vars => IInv'
  <1> SUFFICES ASSUME ParamsFit, IInv, [Next]_vars PROVE IInv'
    OBVIOUS
  <1>1. CASE Byte
    <2>1. CASE PutChar \/ NextLine \/ IndexDown
      BY <2>1, PrintIInv
    <2>2. CASE Tab
      BY <2>2, TabIInv
    <2>3. CASE CarriageReturn \/ Backspace \/ ReverseIndex \/ RestoreCursor \/ EditRows
      <3>1. CASE Params = {}
        <4>1. \E row \in Rows, col \in Cols : MoveOnly(row, col)
          BY <2>3, GeometryAssumption
          DEF CarriageReturn, Backspace, ReverseIndex, RestoreCursor, EditRows, AtLeast,
              IInv, TypeOK, Rows, Cols
        <4> QED BY <4>1, MoveIInv
      <3>2. CASE Params # {}
        BY <2>3, <3>2, MovesIInv
      <3> QED BY <3>1, <3>2
    <2>4. ASSUME NEW p \in Params,
                 \/ CursorUp(p) \/ CursorDown(p) \/ CursorRight(p) \/ CursorLeft(p)
                 \/ CursorNextLine(p) \/ CursorPrevLine(p) \/ CursorColumn(p) \/ CursorRow(p)
          PROVE  IInv'
      BY <2>4, MovesIInv
    <2>5. ASSUME NEW p0 \in Params, NEW p1 \in Params, CursorPosition(p0, p1) PROVE IInv'
      BY <2>5, MovesIInv
    <2>6. ASSUME NEW p0 \in Params, NEW p1 \in Params, SetRegion(p0, p1) PROVE IInv'
      BY <2>6, RegionIInv
    <2>7. CASE SetAlt1049 \/ SetAlt47 \/ ResetAlt1049 \/ ResetAlt47 \/ EraseAll
      BY <2>7, ScreenIInv
    <2>8. ASSUME NEW csi \in BOOLEAN, SaveCursor(csi) PROVE IInv'
      BY <2>8, SaveIInv
    <2> QED BY <1>1, <2>1, <2>2, <2>3, <2>4, <2>5, <2>6, <2>7, <2>8 DEF Byte
  <1>2. CASE terminalClear
    BY <1>2, ScreenIInv
  <1>3. CASE EndChunk \/ \E delta \in -ROWS_PER_SCREEN .. ROWS_PER_SCREEN : TouchScroll(delta)
    BY <1>3, ViewIInv
  <1>4. CASE UNCHANGED vars
    BY <1>4 DEF vars, cursor, view, region, screen, IInv, TypeOK, RegionInScreen,
                ViewInBuffer, WrapAtLastColumn, CursorInView, MainCounted
  <1> QED BY <1>1, <1>2, <1>3, <1>4 DEF Next

(* The inductive invariant holds throughout, if no parameter overflows a sum. *)
THEOREM Invariance == ASSUME ParamsFit PROVE Spec => []IInv
  <1>1. IInv /\ [Next]_vars => IInv'
    BY NextIInv, ParamsFit
  <1> QED BY InitIInv, <1>1, PTL DEF Spec

(* Then every cursor, current or saved, addresses a cell of the buffer. *)
THEOREM Typing == ASSUME ParamsFit PROVE Spec => []TypeOK
  <1>1. IInv => TypeOK  BY DEF IInv
  <1> QED BY <1>1, Invariance, PTL

(* The scroll region is a proper range of screen rows, the window that is snapshot
   for the display lies in the buffer, and a pending wrap is at the last column, if
   no parameter overflows a sum. *)
THEOREM AddressesSafe == ASSUME ParamsFit PROVE Spec => []AddressesInBuffer
  <1>1. IInv => AddressesInBuffer  BY DEF IInv, AddressesInBuffer
  <1> QED BY <1>1, Invariance, PTL

(* After a chunk of output the cursor is on the screen, if no parameter overflows. *)
THEOREM CursorShown == ASSUME ParamsFit PROVE Spec => []CursorInView
  <1>1. IInv => CursorInView  BY DEF IInv
  <1> QED BY <1>1, Invariance, PTL

(* The condition on the parameters is needed: a count that overflows its sum with the
   cursor is not clamped at the far edge, and CSI B, C or E leaves the buffer. *)
THEOREM OverflowLeaves ==
  ASSUME TypeOK, NEW p \in Params, p > 0,
         \/ term_cursor_row + p > INT_MAX /\ (CursorDown(p) \/ CursorNextLine(p))
         \/ term_cursor_col + p > INT_MAX /\ CursorRight(p)
  PROVE  ~TypeOK'
  <1>1. /\ term_cursor_row \in 0 .. TERM_ROWS - 1 /\ term_cursor_col \in 0 .. TERM_COLS - 1
        /\ p \in 1 .. INT_MAX /\ Count(p) = p
        /\ max_row \in 1 .. TERM_ROWS
    BY ParamAssumption, GeometryAssumption DEF TypeOK, Rows, Cols, Count, max_row
  <1>2. CASE term_cursor_row + p > INT_MAX /\ (CursorDown(p) \/ CursorNextLine(p))
    <2>1. term_cursor_row' = AtMost(IntSum(term_cursor_row, p), max_row - 1)
      BY <1>1, <1>2 DEF CursorDown, CursorNextLine, MoveOnly, Move
    <2>2. AtMost(IntSum(term_cursor_row, p), max_row - 1) < 0
      BY <1>1, <1>2, GeometryAssumption DEF AtMost, IntSum
    <2> QED BY <2>1, <2>2, GeometryAssumption DEF TypeOK, Rows
  <1>3. CASE term_cursor_col + p > INT_MAX /\ CursorRight(p)
    <2>1. term_cursor_col' = AtMost(IntSum(term_cursor_col, p), TERM_COLS - 1)
      BY <1>1, <1>3 DEF CursorRight, MoveOnly, Move
    <2>2. AtMost(IntSum(term_cursor_col, p), TERM_COLS - 1) < 0
      BY <1>1, <1>3, GeometryAssumption DEF AtMost, IntSum
    <2> QED BY <2>1, <2>2, GeometryAssumption DEF TypeOK, Cols
  <1> QED BY <1>2, <1>3

(* Nothing overwrites the saved main screen while the alternate one is up. *)
THEOREM MainKept == Spec => MainScreenKept
  <1>1. [Next]_vars => [term_alt_active /\ term_alt_active' => UNCHANGED saved_main]_vars
    BY DEF Next, Byte, PutChar, NextLine, CarriageReturn, Backspace, Tab, ReverseIndex, IndexDown,
           RestoreCursor, EraseAll, EditRows, SetAlt1049, SetAlt47, ResetAlt1049, ResetAlt47,
           SaveCursor, CursorUp, CursorDown, CursorRight, CursorLeft, CursorNextLine,
           CursorPrevLine, CursorColumn, CursorRow, CursorPosition, SetRegion, MoveOnly,
           MoveAndCount, Move, enterAltScreen, terminalClear, EndChunk, TouchScroll, screen
  <1> QED BY <1>1, PTL DEF Spec, MainScreenKept
=============================================================================
