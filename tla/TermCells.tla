------------------------------ MODULE TermCells ------------------------------
(***************************************************************************)
(* The cells of the terminal's rows on the main screen: printing with the  *)
(* delayed wrap, backspace, tab, and the CSI functions that edit one row.  *)
(***************************************************************************)
EXTENDS Integers, SequencesExt

CONSTANTS
  TERM_ROWS, TERM_COLS,
  TabStop,         \* 8 in the source
  Char, Space,     \* the printable bytes of the model, and ' '
  INT_MAX,         \* the largest int: 2^31 - 1 on the device
  Counts           \* bound: the values of a CSI count

VARIABLES
  term_buf, term_cursor_row, term_cursor_col, term_wrap_pending,
  printed  \* ghost: the characters printed since the last control function

vars == <<term_buf, term_cursor_row, term_cursor_col, term_wrap_pending, printed>>

\* What the constants are.
CellsAssumption ==
  /\ TERM_ROWS \in Nat \ {0} /\ TERM_COLS \in Nat \ {0} /\ TabStop \in Nat \ {0}
  /\ INT_MAX \in Nat /\ TERM_COLS <= INT_MAX /\ Counts \subseteq 1 .. INT_MAX
  /\ Space \in Char

Rows == 0 .. TERM_ROWS - 1
Cols == 0 .. TERM_COLS - 1
Cells == TERM_ROWS * TERM_COLS

TypeOK ==
  /\ term_buf \in [Rows -> [Cols -> Char]]
  /\ term_cursor_row \in Rows /\ term_cursor_col \in Cols
  /\ term_wrap_pending \in BOOLEAN
  /\ printed \in Seq(Char) /\ Len(printed) <= Cells

Init ==
  /\ term_buf = [r \in Rows |-> [c \in Cols |-> Space]]
  /\ term_cursor_row = 0 /\ term_cursor_col = 0 /\ term_wrap_pending = FALSE
  /\ printed = << >>

\* terminalCursorDown on the main screen without a scroll region: the row below
\* and the buffer, which scrolls when it is full.
AtBottom == term_cursor_row + 1 >= TERM_ROWS
RowBelow == IF AtBottom THEN term_cursor_row ELSE term_cursor_row + 1
BufBelow(buf) ==
  IF AtBottom THEN [r \in Rows |-> IF r + 1 \in Rows THEN buf[r + 1] ELSE [c \in Cols |-> Space]]
  ELSE buf

Log(ch) == LET p == Append(printed, ch) IN
             printed' = SubSeq(p, IF Len(p) > Cells THEN 2 ELSE 1, Len(p))

Put(buf, row, col, ch) ==
  /\ term_buf' = [buf EXCEPT ![row][col] = ch]
  /\ term_cursor_row' = row
  /\ IF col >= TERM_COLS - 1 THEN term_wrap_pending' = TRUE /\ term_cursor_col' = col
     ELSE term_wrap_pending' = FALSE /\ term_cursor_col' = col + 1
  /\ Log(ch)

\* Mutant: the wrap is taken one column early.
PutCharWrapsEarly(ch) ==
  IF term_wrap_pending \/ term_cursor_col >= TERM_COLS - 1 THEN Put(BufBelow(term_buf), RowBelow, 0, ch)
  ELSE Put(term_buf, term_cursor_row, term_cursor_col, ch)

\* terminalPutChar.
PutChar(ch) ==
  IF term_wrap_pending THEN Put(BufBelow(term_buf), RowBelow, 0, ch)
  ELSE Put(term_buf, term_cursor_row, term_cursor_col, ch)

-----------------------------------------------------------------------------
Control(row, col) ==
  /\ term_cursor_row' = row /\ term_cursor_col' = col
  /\ term_wrap_pending' = FALSE
  /\ printed' = << >>

LineFeed == term_buf' = BufBelow(term_buf) /\ Control(RowBelow, 0)
CarriageReturn == Control(term_cursor_row, 0) /\ UNCHANGED term_buf

\* \b and DEL erase the cell they step back to.
Backspace ==
  IF term_cursor_col > 0
  THEN /\ term_buf' = [term_buf EXCEPT ![term_cursor_row][term_cursor_col - 1] = Space]
       /\ Control(term_cursor_row, term_cursor_col - 1)
  ELSE Control(term_cursor_row, 0) /\ UNCHANGED term_buf

TabEnd == LET stop == (term_cursor_col \div TabStop + 1) * TabStop IN
            IF stop > TERM_COLS THEN TERM_COLS ELSE stop
Tabbed == [term_buf EXCEPT ![term_cursor_row] =
             [c \in Cols |-> IF c \in term_cursor_col .. TabEnd - 1 THEN Space ELSE @[c]]]

\* Mutant: a tab that fills the row leaves the cursor beyond it.
TabPastEnd == term_buf' = Tabbed /\ Control(term_cursor_row, TabEnd)

\* \t writes spaces up to the tab stop, then maybe a line feed.
Tab ==
  IF TabEnd < TERM_COLS THEN term_buf' = Tabbed /\ Control(term_cursor_row, TabEnd)
  ELSE term_buf' = BufBelow(Tabbed) /\ Control(RowBelow, 0)

\* Every absolute or relative cursor movement.
MoveTo(row, col) == Control(row, col) /\ UNCHANGED term_buf

-----------------------------------------------------------------------------
(* Editing the cursor's row.                                               *)

Line == term_buf[term_cursor_row]

\* term_cursor_col + n is an int.
Fits(n) == term_cursor_col + n <= INT_MAX

Clipped(n) == IF term_cursor_col + n > TERM_COLS THEN TERM_COLS - term_cursor_col ELSE n

\* Mutant: the count is not clipped when the end of the row is blanked.
CharsDeletedUnclipped(n) ==
  [c \in Cols |-> IF c >= TERM_COLS - n THEN Space
                  ELSE IF c >= term_cursor_col THEN Line[c + n] ELSE Line[c]]

\* CSI P.
CharsDeleted(p) ==
  LET n == Clipped(p) IN
    [c \in Cols |-> IF c >= TERM_COLS - n THEN Space
                    ELSE IF c >= term_cursor_col THEN Line[c + n] ELSE Line[c]]

\* CSI @.
CharsInserted(p) ==
  LET n == Clipped(p) IN
    [c \in Cols |-> IF c >= term_cursor_col + n THEN Line[c - n]
                    ELSE IF c >= term_cursor_col THEN Space ELSE Line[c]]

\* CSI X.
CharsErased(p) ==
  [c \in Cols |-> IF c \in term_cursor_col .. term_cursor_col + Clipped(p) - 1 THEN Space
                  ELSE Line[c]]

\* CSI K and the cursor's row under CSI J, with parameter p.
LineErased(p) ==
  [c \in Cols |-> IF \/ p = 0 /\ c >= term_cursor_col
                     \/ p = 1 /\ c <= term_cursor_col
                     \/ p = 2
                  THEN Space ELSE Line[c]]

EditLine(line) ==
  /\ term_buf' = [term_buf EXCEPT ![term_cursor_row] = line]
  /\ Control(term_cursor_row, term_cursor_col)

EditChars(n) ==
  /\ Fits(n)
  /\ EditLine(CharsDeleted(n)) \/ EditLine(CharsInserted(n)) \/ EditLine(CharsErased(n))

\* A count that overflows the sum is not clipped: some 2^31 bytes are moved or
\* blanked, which the device does not have, and it restarts.
CharCountOverflows(n) ==
  /\ ~Fits(n)
  /\ term_buf' = [r \in Rows |-> [c \in Cols |-> Space]]
  /\ Control(0, 0)

Next ==
  \/ LineFeed \/ CarriageReturn \/ Backspace \/ Tab
  \/ \E ch \in Char : PutChar(ch)
  \/ \E row \in Rows, col \in Cols : MoveTo(row, col)
  \/ \E n \in Counts : EditChars(n) \/ CharCountOverflows(n)
  \/ \E p \in 0 .. 2 : EditLine(LineErased(p))

Spec == Init /\ [][Next]_vars

-----------------------------------------------------------------------------
(* Properties.                                                             *)

\* Text printed without control functions reads back from the screen in
\* order, with no cell skipped or written twice, across wraps and scrolling.
CellAt(k) == term_buf[k \div TERM_COLS][k % TERM_COLS]
LastPrinted == term_cursor_row * TERM_COLS + term_cursor_col - (IF term_wrap_pending THEN 0 ELSE 1)
PrintedReadsBack ==
  \A i \in 1 .. Len(printed) :
    LET k == LastPrinted - (Len(printed) - i) IN k >= 0 => CellAt(k) = printed[i]

\* The reference for CSI P and CSI @: cut the row at the cursor.
AsSeq(line)  == [i \in 1 .. TERM_COLS |-> line[i - 1]]
Left         == SubSeq(AsSeq(Line), 1, term_cursor_col)
Spaces(n)    == [i \in 1 .. n |-> Space]
CutTo(s, n)  == SubSeq(s, 1, n)

\* CSI P drops n characters at the cursor and fills the row with spaces.
DeleteCloses ==
  \A n \in Counts : Fits(n) =>
    AsSeq(CharsDeleted(n)) =
      CutTo(Left \o SubSeq(AsSeq(Line), term_cursor_col + n + 1, TERM_COLS) \o Spaces(n + TERM_COLS),
            TERM_COLS)

\* CSI @ puts n spaces at the cursor and drops what leaves the row.
InsertOpens ==
  \A n \in Counts : Fits(n) =>
    AsSeq(CharsInserted(n)) =
      CutTo(Left \o Spaces(n) \o SubSeq(AsSeq(Line), term_cursor_col + 1, TERM_COLS), TERM_COLS)

\* Delete and insert character shift the row from the cursor on, for the counts
\* whose sum with the cursor's column is an int.
EditsShift == DeleteCloses /\ InsertOpens

=============================================================================
