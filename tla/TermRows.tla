------------------------------ MODULE TermRows ------------------------------
(***************************************************************************)
(* What the terminal's control functions do to the rows of term_buf:       *)
(* scrolling, regions, insert/delete line, erase in display, alternate     *)
(* screen, and the scrollback the main screen keeps.  A row is one token   *)
(* (its text or blank); columns are in Terminal and TermCells.  Cursor and *)
(* region arithmetic is Terminal's, kept to the rows.                      *)
(***************************************************************************)
EXTENDS Integers, SequencesExt

CONSTANTS
  TERM_ROWS, ROWS_PER_SCREEN,
  Text, Blank,    \* the texts a row can hold, and the row of spaces
  INT_MAX,        \* the largest int: 2^31 - 1 on the device
  Counts,         \* bound: the values of a CSI count
  Addressing      \* the remote side moves the cursor by address, not only by lines

ASSUME RowsAssumption ==
  /\ ROWS_PER_SCREEN \in Nat /\ ROWS_PER_SCREEN >= 2
  /\ TERM_ROWS \in Nat /\ TERM_ROWS >= ROWS_PER_SCREEN
  /\ INT_MAX \in Nat /\ TERM_ROWS <= INT_MAX /\ Counts \subseteq 1 .. INT_MAX
  /\ Blank \notin Text /\ Addressing \in BOOLEAN

VARIABLES
  term_buf, term_alt_buf,
  term_cursor_row, term_line_count,
  scroll_region_top, scroll_region_bot, scroll_region_set,
  term_alt_active, saved_main,  \* saved_main_cursor_row, saved_main_line_count
  log   \* ghost: the last TERM_ROWS lines printed on the main screen; << >> once
        \* the remote side did something else there than print lines

region == <<scroll_region_top, scroll_region_bot, scroll_region_set>>
screen == <<term_alt_active, term_alt_buf, saved_main>>
vars == <<term_buf, term_cursor_row, term_line_count, region, screen, log>>

Rows == 0 .. TERM_ROWS - 1
Row == Text \cup {Blank}
BlankBuf == [r \in Rows |-> Blank]

TypeOK ==
  /\ term_buf \in [Rows -> Row] /\ term_alt_buf \in [Rows -> Row]
  /\ term_cursor_row \in Rows /\ term_line_count \in 1 .. TERM_ROWS
  /\ scroll_region_top \in 0 .. ROWS_PER_SCREEN - 2
  /\ scroll_region_bot \in scroll_region_top + 1 .. ROWS_PER_SCREEN - 1
  /\ scroll_region_set \in BOOLEAN /\ term_alt_active \in BOOLEAN
  /\ saved_main \in [row : Rows, count : 1 .. TERM_ROWS]
  /\ log \in Seq(Row) /\ Len(log) <= TERM_ROWS

FullRegion ==
  /\ scroll_region_top' = 0 /\ scroll_region_bot' = ROWS_PER_SCREEN - 1
  /\ scroll_region_set' = FALSE

Init ==
  /\ term_buf = BlankBuf /\ term_alt_buf = BlankBuf
  /\ term_cursor_row = 0 /\ term_line_count = 1
  /\ scroll_region_top = 0 /\ scroll_region_bot = ROWS_PER_SCREEN - 1
  /\ scroll_region_set = FALSE /\ term_alt_active = FALSE
  /\ saved_main = [row |-> 0, count |-> 1]
  /\ log = <<Blank>>

-----------------------------------------------------------------------------
(* Moving rows.                                                            *)

\* terminalScrollRegionUp, terminalScrollRegionDown.
ScrolledUp(buf, top, bot) ==
  [r \in Rows |-> IF r \in top .. bot - 1 THEN buf[r + 1] ELSE IF r = bot THEN Blank ELSE buf[r]]

ScrolledDown(buf, top, bot) ==
  [r \in Rows |-> IF r \in top + 1 .. bot THEN buf[r - 1] ELSE IF r = top THEN Blank ELSE buf[r]]

\* CSI S and CSI T scroll the region one row at a time.
ScrolledUpBy(buf, top, bot, n) ==
  LET f[k \in 0 .. n] == IF k = 0 THEN buf ELSE ScrolledUp(f[k - 1], top, bot) IN f[n]
ScrolledDownBy(buf, top, bot, n) ==
  LET f[k \in 0 .. n] == IF k = 0 THEN buf ELSE ScrolledDown(f[k - 1], top, bot) IN f[n]

max_row == IF term_alt_active THEN ROWS_PER_SCREEN ELSE TERM_ROWS
ScreenBounded == term_alt_active \/ scroll_region_set
EditBottom == IF ScreenBounded THEN scroll_region_bot ELSE max_row - 1

\* term_cursor_row + n is an int.
Fits(n) == term_cursor_row + n <= INT_MAX

\* Mutant: rows are copied from the top, so the first row is smeared down.
LinesInsertedForward(n) ==
  LET bot == EditBottom  cur == term_cursor_row IN
    [r \in Rows |-> IF r \in cur + n .. bot THEN term_buf[cur + ((r - cur) % n)]
                    ELSE IF r >= cur /\ r < cur + n /\ r <= bot THEN Blank ELSE term_buf[r]]

\* CSI L.
LinesInserted(n) ==
  LET bot == EditBottom  cur == term_cursor_row IN
    [r \in Rows |-> IF r \in cur + n .. bot THEN term_buf[r - n]
                    ELSE IF r >= cur /\ r < cur + n /\ r <= bot THEN Blank ELSE term_buf[r]]

\* CSI M: the rows below move up, then the last n rows to the bottom are
\* blanked, wherever the cursor is.
LinesDeleted(n) ==
  LET bot == EditBottom  cur == term_cursor_row IN
    [r \in Rows |-> IF r \in bot - n + 1 .. bot THEN Blank
                    ELSE IF r >= cur /\ r + n <= bot THEN term_buf[r + n] ELSE term_buf[r]]

-----------------------------------------------------------------------------
(* Printing lines.                                                         *)

Keep(s) == SubSeq(s, IF Len(s) > TERM_ROWS THEN Len(s) - TERM_ROWS + 1 ELSE 1, Len(s))
Logging == ~term_alt_active /\ log # << >>
ToLog(next) == log' = IF Logging THEN next ELSE log
NotALine == log' = IF term_alt_active THEN log ELSE << >>

\* Characters put on the cursor's row.
PutText(text) ==
  /\ term_buf' = [term_buf EXCEPT ![term_cursor_row] = text]
  /\ ToLog(SubSeq(log, 1, Len(log) - 1) \o <<text>>)
  /\ UNCHANGED <<term_cursor_row, term_line_count, region, screen>>

\* The cursor moves down, or the region (the full buffer) scrolls.
terminalCursorDown ==
  IF ScreenBounded
  THEN /\ IF term_cursor_row = scroll_region_bot
          THEN /\ term_buf' = ScrolledUp(term_buf, scroll_region_top, scroll_region_bot)
               /\ UNCHANGED term_cursor_row
          ELSE /\ term_cursor_row' = term_cursor_row + (IF term_cursor_row < scroll_region_bot THEN 1 ELSE 0)
               /\ UNCHANGED term_buf
       /\ UNCHANGED term_line_count
  ELSE /\ IF term_cursor_row + 1 >= TERM_ROWS
          THEN /\ term_buf' = ScrolledUp(term_buf, 0, TERM_ROWS - 1)
               /\ term_cursor_row' = TERM_ROWS - 1
          ELSE /\ term_cursor_row' = term_cursor_row + 1
               /\ UNCHANGED term_buf
       /\ term_line_count' = IF term_cursor_row' >= term_line_count THEN term_cursor_row' + 1
                             ELSE term_line_count

\* \n, ESC E, a wrap, a tab at the end of the row.
NextLine ==
  /\ terminalCursorDown
  /\ IF scroll_region_set THEN NotALine ELSE ToLog(Keep(log \o <<Blank>>))
  /\ UNCHANGED <<region, screen>>

-----------------------------------------------------------------------------
(* Control functions that address or edit rows.                            *)

\* CSI A B E F H d and the restored cursors.
MoveTo(row, counted) ==
  /\ Addressing /\ row < max_row
  /\ term_cursor_row' = row
  /\ term_line_count' = IF counted /\ row >= term_line_count THEN row + 1 ELSE term_line_count
  /\ NotALine
  /\ UNCHANGED <<term_buf, region, screen>>

\* Mutant: above the region the cursor is not stopped at row 0.
ReverseIndexUnclamped ==
  /\ Addressing
  /\ IF term_cursor_row = scroll_region_top
     THEN /\ term_buf' = ScrolledDown(term_buf, scroll_region_top, scroll_region_bot)
          /\ UNCHANGED term_cursor_row
     ELSE term_cursor_row' = term_cursor_row - 1 /\ UNCHANGED term_buf
  /\ NotALine
  /\ UNCHANGED <<term_line_count, region, screen>>

\* ESC M.
ReverseIndex ==
  /\ Addressing
  /\ IF term_cursor_row = scroll_region_top
     THEN /\ term_buf' = ScrolledDown(term_buf, scroll_region_top, scroll_region_bot)
          /\ UNCHANGED term_cursor_row
     ELSE /\ term_cursor_row' = IF term_cursor_row > 0 THEN term_cursor_row - 1 ELSE 0
          /\ UNCHANGED term_buf
  /\ NotALine
  /\ UNCHANGED <<term_line_count, region, screen>>

\* Mutant: index scrolls the whole screen.
IndexDownWholeScreen ==
  /\ Addressing
  /\ IF term_cursor_row = scroll_region_bot
     THEN /\ term_buf' = ScrolledUp(term_buf, 0, ROWS_PER_SCREEN - 1)
          /\ UNCHANGED <<term_cursor_row, term_line_count>>
     ELSE terminalCursorDown
  /\ NotALine
  /\ UNCHANGED <<region, screen>>

\* ESC D.
IndexDown ==
  /\ Addressing
  /\ IF term_cursor_row = scroll_region_bot
     THEN /\ term_buf' = ScrolledUp(term_buf, scroll_region_top, scroll_region_bot)
          /\ UNCHANGED <<term_cursor_row, term_line_count>>
     ELSE terminalCursorDown
  /\ NotALine
  /\ UNCHANGED <<region, screen>>

Edit(buf) ==
  /\ Addressing
  /\ term_buf' = buf
  /\ NotALine
  /\ UNCHANGED <<term_cursor_row, term_line_count, region, screen>>

InsertLines(n) == Fits(n) /\ Edit(LinesInserted(n))
DeleteLines(n) == Fits(n) /\ Edit(LinesDeleted(n))

\* CSI L and CSI M with a count that overflows the sum: a row some 2^31 rows away
\* is copied, which is no memory of the device, and it restarts.
LineCountOverflows(n) ==
  /\ Addressing
  /\ ~Fits(n)
  /\ term_buf' = BlankBuf /\ term_alt_buf' = BlankBuf
  /\ term_cursor_row' = 0 /\ term_line_count' = 1
  /\ FullRegion
  /\ term_alt_active' = FALSE /\ saved_main' = [row |-> 0, count |-> 1]
  /\ log' = <<Blank>>

ScrollUp(n)    == Edit(ScrolledUpBy(term_buf, scroll_region_top, scroll_region_bot, n))
ScrollDown(n)  == Edit(ScrolledDownBy(term_buf, scroll_region_top, scroll_region_bot, n))

\* CSI J: the cursor's own row is erased up to or from the column, as is one
\* row by CSI K.
EraseBelow(own) ==
  Edit([r \in Rows |-> IF r \in term_cursor_row + 1 .. max_row - 1 THEN Blank
                       ELSE IF r = term_cursor_row THEN own ELSE term_buf[r]])
EraseAbove(own) ==
  Edit([r \in Rows |-> IF r < term_cursor_row THEN Blank
                       ELSE IF r = term_cursor_row THEN own ELSE term_buf[r]])

EraseAll ==
  /\ Addressing
  /\ term_buf' = [r \in Rows |-> IF r < max_row THEN Blank ELSE term_buf[r]]
  /\ term_cursor_row' = 0 /\ term_line_count' = 1
  /\ ToLog(<<Blank>>)
  /\ UNCHANGED <<region, screen>>

\* CSI r, as normalised in Terminal!SetRegion; it homes the cursor.
SetRegion(top, bot, set) ==
  /\ Addressing
  /\ ~set => top = 0 /\ bot = ROWS_PER_SCREEN - 1
  /\ scroll_region_top' = top /\ scroll_region_bot' = bot /\ scroll_region_set' = set
  /\ term_cursor_row' = 0
  /\ NotALine
  /\ UNCHANGED <<term_buf, term_line_count, screen>>

enterAltScreen ==
  /\ ~term_alt_active
  /\ term_alt_buf' = term_buf
  /\ saved_main' = [row |-> term_cursor_row, count |-> term_line_count]
  /\ term_buf' = BlankBuf
  /\ term_cursor_row' = 0 /\ term_line_count' = 1
  /\ FullRegion
  /\ term_alt_active' = TRUE
  /\ log' = IF scroll_region_set THEN << >> ELSE log

\* Mutant: only the visible rows of the main screen come back.
leaveAltScreenVisible ==
  /\ term_alt_active
  /\ term_buf' = [r \in Rows |-> IF r < ROWS_PER_SCREEN THEN term_alt_buf[r] ELSE term_buf[r]]
  /\ term_cursor_row' = saved_main.row /\ term_line_count' = saved_main.count
  /\ FullRegion
  /\ term_alt_active' = FALSE
  /\ UNCHANGED <<term_alt_buf, saved_main, log>>

leaveAltScreen ==
  /\ term_alt_active
  /\ term_buf' = term_alt_buf
  /\ term_cursor_row' = saved_main.row /\ term_line_count' = saved_main.count
  /\ FullRegion
  /\ term_alt_active' = FALSE
  /\ UNCHANGED <<term_alt_buf, saved_main, log>>

terminalClear ==
  /\ term_buf' = BlankBuf
  /\ term_cursor_row' = 0 /\ term_line_count' = 1
  /\ FullRegion
  /\ term_alt_active' = FALSE
  /\ log' = <<Blank>>
  /\ UNCHANGED <<term_alt_buf, saved_main>>

Next ==
  \/ NextLine \/ ReverseIndex \/ IndexDown \/ EraseAll
  \/ enterAltScreen \/ leaveAltScreen \/ terminalClear
  \/ \E text \in Text : PutText(text)
  \/ \E row \in Rows, counted \in BOOLEAN : MoveTo(row, counted)
  \/ \E n \in Counts :
       InsertLines(n) \/ DeleteLines(n) \/ LineCountOverflows(n) \/ ScrollUp(n) \/ ScrollDown(n)
  \/ \E own \in {Blank, term_buf[term_cursor_row]} : EraseBelow(own) \/ EraseAbove(own)
  \/ \E top \in 0 .. ROWS_PER_SCREEN - 2, bot \in 1 .. ROWS_PER_SCREEN - 1, set \in BOOLEAN :
       top < bot /\ SetRegion(top, bot, set)

Spec == Init /\ [][Next]_vars

-----------------------------------------------------------------------------
(* Properties.                                                             *)

\* Output that only prints lines leaves the last TERM_ROWS lines printed in
\* the buffer, the newest on the cursor's row, also after the buffer scrolled
\* and after full-screen programs came and went.
Scrollback ==
  ~term_alt_active /\ log # << >> =>
    /\ term_cursor_row = Len(log) - 1
    /\ term_line_count = Len(log)
    /\ \A r \in 0 .. Len(log) - 1 : term_buf[r] = log[r + 1]

\* In screen-bounded mode line feeds, index, reverse index and CSI S / T never
\* touch a row outside the scroll region.
InRegion(r) == r \in scroll_region_top .. scroll_region_bot
OutsideKept ==
  [][ScreenBounded
     /\ (NextLine \/ IndexDown \/ ReverseIndex \/ \E n \in Counts : ScrollUp(n) \/ ScrollDown(n))
     => \A r \in Rows : InRegion(r) \/ term_buf'[r] = term_buf[r]]_vars

\* The reference: insert (delete) n lines scrolls the rows from the cursor to
\* the bottom down (up) n times, and ignores a cursor outside the region.
EditTop == IF ScreenBounded THEN scroll_region_top ELSE 0
CursorInEdit == term_cursor_row \in EditTop .. EditBottom
Inserted(n) == IF CursorInEdit THEN ScrolledDownBy(term_buf, term_cursor_row, EditBottom, n)
               ELSE term_buf
Deleted(n)  == IF CursorInEdit THEN ScrolledUpBy(term_buf, term_cursor_row, EditBottom, n)
               ELSE term_buf

\* CSI L with a count that fits is that reference wherever the cursor is not above
\* the region.
InsertScrollsDown ==
  \A n \in Counts : Fits(n) /\ term_cursor_row >= EditTop => LinesInserted(n) = Inserted(n)

\* CSI M is that reference when the cursor is in the region and at least n
\* rows are left under it.
DeleteScrollsUp ==
  \A n \in Counts : CursorInEdit /\ term_cursor_row + n <= EditBottom + 1 =>
    LinesDeleted(n) = Deleted(n)

\* Insert line and delete line are scrolls of the rows from the cursor down, for the
\* counts whose sum with the cursor's row is an int.
EditsScroll == InsertScrollsDown /\ DeleteScrollsUp

=============================================================================
