----------------------------- MODULE TermScreen -----------------------------
(***************************************************************************)
(* The rows and the cells of the terminal's screen.  They are two views of *)
(* one buffer, each with its own size: a behaviour follows one of them.    *)
(***************************************************************************)
EXTENDS TermRows

CONSTANTS CELL_ROWS, TERM_COLS, TabStop, Char, Space, CellCounts

VARIABLES part, cell_buf, cell_row, cell_col, cell_wrap, printed

cells == <<cell_buf, cell_row, cell_col, cell_wrap, printed>>
Cells == INSTANCE TermCells
           WITH TERM_ROWS <- CELL_ROWS, Counts <- CellCounts, term_buf <- cell_buf,
                term_cursor_row <- cell_row, term_cursor_col <- cell_col,
                term_wrap_pending <- cell_wrap

ASSUME ScreenAssumption == Cells!CellsAssumption

ScreenInit == part \in {"rows", "cells"} /\ Init /\ Cells!Init
ScreenNext ==
  /\ UNCHANGED part
  /\ \/ part = "rows" /\ Next /\ UNCHANGED cells
     \/ part = "cells" /\ Cells!Next /\ UNCHANGED vars
ScreenSpec == ScreenInit /\ [][ScreenNext]_<<part, vars, cells>>

\* The types of both views.
ScreenTypeOK == TypeOK /\ Cells!TypeOK

\* Text printed without control functions reads back from the screen in order.
PrintedReadsBack == Cells!PrintedReadsBack

\* Insert and delete line move the rows of the region, delete and insert character
\* the row from the cursor on.
EditsMove == EditsScroll /\ Cells!EditsShift
=============================================================================
