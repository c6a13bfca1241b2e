---------------------------- MODULE ScreenProofs ----------------------------
(***************************************************************************)
(* The terminal's screen, rows and cells, for every geometry: the          *)
(* scrollback, the text read back, and the edits against their references. *)
(***************************************************************************)
EXTENDS TermScreen, WellFoundedInduction, SequenceTheorems, TLAPS

(* Every non-empty set of naturals has a least element. *)
LEMMA Least ==
  ASSUME NEW T, T \subseteq Nat, T # {}
  PROVE \E m \in T : \A k \in T : m <= k
  <1>1. \E m \in T : \A k \in T : ~ (<<k, m>> \in OpToRel(<, Nat))
    BY NatLessThanWellFounded, WFMin
  <1>2. ASSUME NEW m \in T, NEW k \in T, ~ (<<k, m>> \in OpToRel(<, Nat)) PROVE m <= k
    BY <1>2 DEF OpToRel
  <1> QED BY <1>1, <1>2

(* Scrolling by n rows in one step. *)
UpBy(buf, top, bot, n) ==
  [r \in Rows |-> IF r \in top .. bot THEN IF r + n <= bot THEN buf[r + n] ELSE Blank ELSE buf[r]]
DownBy(buf, top, bot, n) ==
  [r \in Rows |-> IF r \in top .. bot THEN IF r - n >= top THEN buf[r - n] ELSE Blank ELSE buf[r]]

(* n times one row is n rows. *)
LEMMA UpByIs ==
  ASSUME RowsAssumption, NEW buf \in [Rows -> Row], NEW top \in Nat, NEW bot \in Rows, top <= bot, NEW n \in Nat
  PROVE  ScrolledUpBy(buf, top, bot, n) = UpBy(buf, top, bot, n)
  <1> DEFINE Follows(f) == f = [k \in 0 .. n |-> IF k = 0 THEN buf ELSE ScrolledUp(f[k - 1], top, bot)]
             f == CHOOSE g : Follows(g)
             h == [k \in 0 .. n |-> UpBy(buf, top, bot, k)]
  <1>1. UpBy(buf, top, bot, 0) = buf
    BY DEF UpBy, Rows, RowsAssumption
  <1>2. ASSUME NEW k \in Nat PROVE ScrolledUp(UpBy(buf, top, bot, k), top, bot) = UpBy(buf, top, bot, k + 1)
    BY DEF UpBy, ScrolledUp, Rows, RowsAssumption
  <1>3. Follows(h)
    <2>1. ASSUME NEW k \in 0 .. n, k # 0 PROVE h[k] = ScrolledUp(h[k - 1], top, bot)
      <3>1. k - 1 \in 0 .. n /\ k - 1 \in Nat /\ (k - 1) + 1 = k
        BY <2>1
      <3> QED BY <3>1, <1>2
    <2>2. 0 \in 0 .. n => h[0] = buf
      BY <1>1
    <2> HIDE DEF h
    <2>3. h = [k \in 0 .. n |-> h[k]]
      BY DEF h
    <2> QED BY <2>1, <2>2, <2>3
  <1>4. Follows(f)
    BY <1>3, Zenon
  <1>5. ScrolledUpBy(buf, top, bot, n) = f[n]
    BY DEF ScrolledUpBy
  <1> HIDE DEF h, f
  <1>6. \A k \in 0 .. n : f[k] = UpBy(buf, top, bot, k)
    <2> DEFINE wrong == {k \in 0 .. n : f[k] # UpBy(buf, top, bot, k)}
    <2>1. SUFFICES ASSUME wrong # {} PROVE FALSE
      OBVIOUS
    <2>2. PICK k \in wrong : \A j \in wrong : k <= j
      <3>1. wrong \subseteq Nat
        OBVIOUS
      <3> HIDE DEF wrong
      <3> QED BY <2>1, <3>1, Least
    <2>3. k # 0
      BY <1>1, <1>4
    <2>4. k - 1 \in 0 .. n /\ k - 1 \in Nat /\ (k - 1) + 1 = k /\ k - 1 \notin wrong
      BY <2>2, <2>3
    <2>5. f[k - 1] = UpBy(buf, top, bot, k - 1)
      BY <2>4
    <2>6. f[k] = ScrolledUp(f[k - 1], top, bot)
      BY <1>4, <2>3
    <2> QED BY <1>2, <2>4, <2>5, <2>6
  <1> QED BY <1>5, <1>6

(* And downwards. *)
LEMMA DownByIs ==
  ASSUME RowsAssumption, NEW buf \in [Rows -> Row], NEW top \in Nat, NEW bot \in Rows, top <= bot, NEW n \in Nat
  PROVE  ScrolledDownBy(buf, top, bot, n) = DownBy(buf, top, bot, n)
  <1> DEFINE Follows(f) == f = [k \in 0 .. n |-> IF k = 0 THEN buf ELSE ScrolledDown(f[k - 1], top, bot)]
             f == CHOOSE g : Follows(g)
             h == [k \in 0 .. n |-> DownBy(buf, top, bot, k)]
  <1>1. DownBy(buf, top, bot, 0) = buf
    BY DEF DownBy, Rows, RowsAssumption
  <1>2. ASSUME NEW k \in Nat PROVE ScrolledDown(DownBy(buf, top, bot, k), top, bot) = DownBy(buf, top, bot, k + 1)
    BY DEF DownBy, ScrolledDown, Rows, RowsAssumption
  <1>3. Follows(h)
    <2>1. ASSUME NEW k \in 0 .. n, k # 0 PROVE h[k] = ScrolledDown(h[k - 1], top, bot)
      <3>1. k - 1 \in 0 .. n /\ k - 1 \in Nat /\ (k - 1) + 1 = k
        BY <2>1
      <3> QED BY <3>1, <1>2
    <2>2. 0 \in 0 .. n => h[0] = buf
      BY <1>1
    <2> HIDE DEF h
    <2>3. h = [k \in 0 .. n |-> h[k]]
      BY DEF h
    <2> QED BY <2>1, <2>2, <2>3
  <1>4. Follows(f)
    BY <1>3, Zenon
  <1>5. ScrolledDownBy(buf, top, bot, n) = f[n]
    BY DEF ScrolledDownBy
  <1> HIDE DEF h, f
  <1>6. \A k \in 0 .. n : f[k] = DownBy(buf, top, bot, k)
    <2> DEFINE wrong == {k \in 0 .. n : f[k] # DownBy(buf, top, bot, k)}
    <2>1. SUFFICES ASSUME wrong # {} PROVE FALSE
      OBVIOUS
    <2>2. PICK k \in wrong : \A j \in wrong : k <= j
      <3>1. wrong \subseteq Nat
        OBVIOUS
      <3> HIDE DEF wrong
      <3> QED BY <2>1, <3>1, Least
    <2>3. k # 0
      BY <1>1, <1>4
    <2>4. k - 1 \in 0 .. n /\ k - 1 \in Nat /\ (k - 1) + 1 = k /\ k - 1 \notin wrong
      BY <2>2, <2>3
    <2>5. f[k - 1] = DownBy(buf, top, bot, k - 1)
      BY <2>4
    <2>6. f[k] = ScrolledDown(f[k - 1], top, bot)
      BY <1>4, <2>3
    <2> QED BY <1>2, <2>4, <2>5, <2>6
  <1> QED BY <1>5, <1>6

-----------------------------------------------------------------------------
(* The last row an edit can reach is a row. *)
LEMMA Bottoms ==
  ASSUME RowsAssumption, TypeOK
  PROVE  /\ EditBottom \in Rows /\ max_row - 1 \in Rows
         /\ scroll_region_top \in Rows /\ scroll_region_bot \in Rows
         /\ scroll_region_top \in Nat /\ scroll_region_top < scroll_region_bot
         /\ TERM_ROWS - 1 \in Rows /\ 0 \in Rows
  BY DEF RowsAssumption, TypeOK, EditBottom, max_row, Rows

(* Insert line is a scroll down of the rows from the cursor on. *)
LEMMA Inserting == ASSUME RowsAssumption, TypeOK PROVE InsertScrollsDown
  <1> SUFFICES ASSUME NEW n \in Counts, term_cursor_row >= EditTop PROVE LinesInserted(n) = Inserted(n)
    BY DEF InsertScrollsDown
  <1>1. /\ n \in Nat \ {0} /\ term_buf \in [Rows -> Row] /\ term_cursor_row \in Nat
        /\ EditBottom \in Rows /\ term_cursor_row \in Rows
    BY Bottoms DEF TypeOK, Rows, RowsAssumption
  <1>2. CASE term_cursor_row <= EditBottom
    <2>1. CursorInEdit
      BY <1>1, <1>2, Bottoms DEF CursorInEdit, EditTop, Rows
    <2>2. Inserted(n) = DownBy(term_buf, term_cursor_row, EditBottom, n)
      BY <1>1, <1>2, <2>1, DownByIs DEF Inserted
    <2>3. LinesInserted(n) = DownBy(term_buf, term_cursor_row, EditBottom, n)
      BY <1>1, <1>2, SMTT(20) DEF LinesInserted, DownBy, Rows, RowsAssumption
    <2> QED BY <2>2, <2>3
  <1>3. CASE term_cursor_row > EditBottom
    <2>1. Inserted(n) = term_buf
      BY <1>1, <1>3, Bottoms DEF Inserted, CursorInEdit, EditTop, Rows
    <2>2. LinesInserted(n) = [r \in Rows |-> term_buf[r]]
      BY <1>1, <1>3 DEF LinesInserted, Rows, RowsAssumption
    <2> QED BY <1>1, <2>1, <2>2
  <1> QED BY <1>1, <1>2, <1>3, Bottoms DEF Rows, RowsAssumption

(* Delete line is a scroll up of the rows from the cursor on. *)
LEMMA Deleting == ASSUME RowsAssumption, TypeOK PROVE DeleteScrollsUp
  <1> SUFFICES ASSUME NEW n \in Counts, CursorInEdit, term_cursor_row + n <= EditBottom + 1
               PROVE  LinesDeleted(n) = Deleted(n)
    BY DEF DeleteScrollsUp
  <1>1. /\ n \in Nat \ {0} /\ term_buf \in [Rows -> Row] /\ term_cursor_row \in Nat
        /\ EditBottom \in Rows /\ term_cursor_row \in Rows /\ term_cursor_row <= EditBottom
    BY Bottoms DEF TypeOK, Rows, RowsAssumption, CursorInEdit, EditTop
  <1>2. Deleted(n) = UpBy(term_buf, term_cursor_row, EditBottom, n)
    BY <1>1, UpByIs DEF Deleted
  <1>3. LinesDeleted(n) = UpBy(term_buf, term_cursor_row, EditBottom, n)
    BY <1>1, SMTT(20) DEF LinesDeleted, UpBy, Rows, RowsAssumption
  <1> QED BY <1>2, <1>3

-----------------------------------------------------------------------------
(* The buffer shows the lines of the log, newest last, and blank rows below. *)
Shows(buf, row, count) ==
  /\ row = Len(log) - 1 /\ count = Len(log)
  /\ \A r \in Rows : buf[r] = IF r < Len(log) THEN log[r + 1] ELSE Blank

\* The main screen's lines: on the screen, or saved by the alternate screen.
LinesKept ==
  log # << >> => IF term_alt_active THEN Shows(term_alt_buf, saved_main.row, saved_main.count)
                 ELSE Shows(term_buf, term_cursor_row, term_line_count)

RowsInv == TypeOK /\ LinesKept

(* Replacing the last line of a log. *)
LEMMA LastLine ==
  ASSUME NEW S, NEW s \in Seq(S), s # << >>, NEW text \in S
  PROVE  /\ SubSeq(s, 1, Len(s) - 1) \o <<text>> \in Seq(S)
         /\ Len(SubSeq(s, 1, Len(s) - 1) \o <<text>>) = Len(s)
         /\ \A i \in 1 .. Len(s) : (SubSeq(s, 1, Len(s) - 1) \o <<text>>)[i] = IF i = Len(s) THEN text ELSE s[i]
  OBVIOUS

(* A line more, the oldest dropped when there are too many. *)
LEMMA LineMore ==
  ASSUME RowsAssumption, NEW s \in Seq(Row), s # << >>, Len(s) <= TERM_ROWS
  PROVE  LET next == Keep(s \o <<Blank>>) IN
           /\ next \in Seq(Row) /\ next # << >>
           /\ Len(next) = IF Len(s) = TERM_ROWS THEN TERM_ROWS ELSE Len(s) + 1
           /\ \A i \in 1 .. Len(next) :
                next[i] = IF i = Len(next) THEN Blank ELSE IF Len(s) = TERM_ROWS THEN s[i + 1] ELSE s[i]
  <1> DEFINE more == s \o <<Blank>>
  <1>1. /\ more \in Seq(Row) /\ Len(more) = Len(s) + 1
        /\ \A i \in 1 .. Len(s) + 1 : more[i] = IF i = Len(s) + 1 THEN Blank ELSE s[i]
    BY DEF Row
  <1> HIDE DEF more
  <1>2. TERM_ROWS \in Nat \ {0} /\ Len(s) \in Nat \ {0}
    BY DEF RowsAssumption
  <1>3. ASSUME NEW k \in 1 .. 2
        PROVE  LET next == SubSeq(more, k, Len(more)) IN
                 /\ next \in Seq(Row) /\ Len(next) = Len(s) + 2 - k
                 /\ \A i \in 1 .. Len(s) + 2 - k : next[i] = more[i + k - 1]
    <2>1. \A i \in k .. Len(more) : more[i] \in Row
      BY <1>1, <1>2 DEF Row
    <2> QED BY <1>1, <1>2, <2>1
  <1> DEFINE first == IF Len(more) > TERM_ROWS THEN Len(more) - TERM_ROWS + 1 ELSE 1
             next == SubSeq(more, first, Len(more))
  <1>4. first = (IF Len(s) = TERM_ROWS THEN 2 ELSE 1) /\ first \in 1 .. 2
    BY <1>1, <1>2
  <1>5. Keep(more) = next
    BY DEF Keep
  <1> HIDE DEF first
  <1>6. /\ next \in Seq(Row) /\ Len(next) = Len(s) + 2 - first
        /\ \A i \in 1 .. Len(s) + 2 - first : next[i] = more[i + first - 1]
    BY <1>3, <1>4
  <1> HIDE DEF next
  <1>7. next # << >>
    <2>1. Len(next) = Len(s) + 2 - first  BY <1>6
    <2>2. Len(next) # 0                   BY <1>2, <1>4, <2>1
    <2> QED BY <2>2
  <1>8. \A i \in 1 .. Len(next) :
          next[i] = IF i = Len(next) THEN Blank ELSE IF Len(s) = TERM_ROWS THEN s[i + 1] ELSE s[i]
    <2> TAKE i \in 1 .. Len(next)
    <2>1. i \in Nat /\ i <= Len(s) + 2 - first /\ next[i] = more[i + first - 1]
      <3>1. Len(next) = Len(s) + 2 - first  BY <1>6
      <3>2. i \in 1 .. Len(s) + 2 - first   BY <3>1
      <3>3. i \in Nat /\ i <= Len(s) + 2 - first  BY <1>2, <1>4, <3>2
      <3> QED BY <1>6, <3>2, <3>3
    <2>2. more[i + first - 1] = IF i + first - 1 = Len(s) + 1 THEN Blank ELSE s[i + first - 1]
      BY <1>1, <1>2, <1>4, <2>1
    <2> QED BY <1>2, <1>4, <1>6, <2>1, <2>2
  <1>9. Len(next) = IF Len(s) = TERM_ROWS THEN TERM_ROWS ELSE Len(s) + 1
    <2>1. Len(next) = Len(s) + 2 - first  BY <1>6
    <2> QED BY <1>2, <1>4, <2>1
  <1> QED BY <1>5, <1>6, <1>7, <1>8, <1>9 DEF more

-----------------------------------------------------------------------------
(* The initial buffer shows the initial log. *)
LEMMA RowsStart == ASSUME RowsAssumption, Init PROVE RowsInv
  <1>1. /\ BlankBuf \in [Rows -> Row] /\ \A r \in Rows : BlankBuf[r] = Blank
        /\ 0 \in Rows /\ 1 \in 1 .. TERM_ROWS /\ log = <<Blank>> /\ log \in Seq(Row) /\ Len(log) = 1
    BY DEF BlankBuf, Row, Rows, RowsAssumption, Init
  <1>2. scroll_region_set \in BOOLEAN /\ term_alt_active \in BOOLEAN
    BY Zenon DEF Init
  <1>3. TypeOK
    BY <1>1, <1>2 DEF Init, TypeOK, RowsAssumption
  <1>4. LinesKept
    BY <1>1 DEF Init, LinesKept, Shows, Rows
  <1> QED BY <1>3, <1>4 DEF RowsInv

(* What is done to the screen besides printing lines ends the log of the
   main screen, or leaves the saved lines alone. *)
LEMMA NoLineKeeps ==
  ASSUME RowsAssumption, RowsInv, NotALine, UNCHANGED screen
  PROVE  LinesKept' /\ log' \in Seq(Row) /\ Len(log') <= TERM_ROWS
  <1>1. CASE term_alt_active
    BY <1>1 DEF NotALine, screen, RowsInv, TypeOK, LinesKept, Shows
  <1>2. CASE ~term_alt_active
    <2>1. log' = << >> /\ << >> \in Seq(Row) /\ Len(<< >>) = 0 /\ 0 <= TERM_ROWS
      BY <1>2 DEF NotALine, RowsAssumption
    <2> QED BY <2>1 DEF LinesKept
  <1> QED BY <1>1, <1>2

(* Text on the cursor's row. *)
LEMMA TextStep == ASSUME RowsAssumption, RowsInv, NEW text \in Text, PutText(text) PROVE RowsInv'
  <1>1. /\ term_buf \in [Rows -> Row] /\ term_cursor_row \in Rows
        /\ term_buf' = [term_buf EXCEPT ![term_cursor_row] = text]
        /\ UNCHANGED <<term_cursor_row, term_line_count, region, screen>>
    BY DEF PutText, RowsInv, TypeOK
  <1>2. /\ log' \in Seq(Row) /\ Len(log') = Len(log) /\ (log # << >> <=> log' # << >>)
        /\ Logging => \A i \in 1 .. Len(log) : log'[i] = IF i = Len(log) THEN text ELSE log[i]
        /\ ~Logging => log' = log
    <2>1. CASE Logging
      <3>1. /\ log \in Seq(Row) /\ log # << >> /\ text \in Row
            /\ log' = SubSeq(log, 1, Len(log) - 1) \o <<text>>
        BY <2>1 DEF PutText, ToLog, Logging, RowsInv, TypeOK, Row
      <3>2. Len(log) \in Nat \ {0}
        BY <3>1
      <3>3. /\ log' \in Seq(Row) /\ Len(log') = Len(log)
            /\ \A i \in 1 .. Len(log) : log'[i] = IF i = Len(log) THEN text ELSE log[i]
        BY <3>1, LastLine
      <3> QED BY <2>1, <3>1, <3>2, <3>3
    <2>2. CASE ~Logging
      BY <2>2 DEF PutText, ToLog, RowsInv, TypeOK
    <2> QED BY <2>1, <2>2
  <1>3. TypeOK'
    BY <1>1, <1>2 DEF RowsInv, TypeOK, region, screen, Row
  <1>4. LinesKept'
    <2>1. CASE Logging
      <3>1. /\ Len(log) \in Nat /\ log # << >> /\ ~term_alt_active /\ ~term_alt_active'
            /\ term_cursor_row = Len(log) - 1 /\ term_line_count = Len(log)
            /\ \A r \in Rows : term_buf[r] = IF r < Len(log) THEN log[r + 1] ELSE Blank
        BY <1>1, <2>1 DEF Logging, RowsInv, TypeOK, LinesKept, Shows, screen
      <3>2. \A r \in Rows : term_buf'[r] = IF r < Len(log') THEN log'[r + 1] ELSE Blank
        <4> SUFFICES ASSUME NEW r \in Rows PROVE term_buf'[r] = IF r < Len(log') THEN log'[r + 1] ELSE Blank
          OBVIOUS
        <4>1. r \in Nat /\ (r < Len(log) => r + 1 \in 1 .. Len(log))
          BY <3>1 DEF Rows, RowsAssumption
        <4>2. term_buf'[r] = IF r = Len(log) - 1 THEN text ELSE term_buf[r]
          BY <1>1, <3>1
        <4>3. r < Len(log) => log'[r + 1] = IF r = Len(log) - 1 THEN text ELSE log[r + 1]
          BY <1>2, <2>1, <3>1, <4>1
        <4> QED BY <1>2, <3>1, <4>1, <4>2, <4>3
      <3> QED BY <1>1, <1>2, <3>1, <3>2 DEF LinesKept, Shows
    <2>2. CASE ~Logging
      BY <1>1, <1>2, <2>2 DEF Logging, RowsInv, LinesKept, Shows, region, screen
    <2> QED BY <2>1, <2>2
  <1> QED BY <1>3, <1>4 DEF RowsInv

(* Scrolling one row keeps the buffer a buffer. *)
LEMMA ScrolledRows ==
  ASSUME RowsAssumption, NEW buf \in [Rows -> Row], NEW top \in Rows, NEW bot \in Rows
  PROVE  ScrolledUp(buf, top, bot) \in [Rows -> Row] /\ ScrolledDown(buf, top, bot) \in [Rows -> Row]
  BY DEF ScrolledUp, ScrolledDown, Rows, Row, RowsAssumption

(* The cursor goes down, or the rows up. *)
LEMMA CursorDownTypes ==
  ASSUME RowsAssumption, TypeOK, terminalCursorDown
  PROVE  term_buf' \in [Rows -> Row] /\ term_cursor_row' \in Rows /\ term_line_count' \in 1 .. TERM_ROWS
  <1>1. /\ term_buf \in [Rows -> Row] /\ term_cursor_row \in Rows /\ term_line_count \in 1 .. TERM_ROWS
        /\ scroll_region_bot \in Rows /\ TERM_ROWS \in Nat
    BY Bottoms DEF TypeOK, RowsAssumption
  <1>2. /\ ScrolledUp(term_buf, scroll_region_top, scroll_region_bot) \in [Rows -> Row]
        /\ ScrolledUp(term_buf, 0, TERM_ROWS - 1) \in [Rows -> Row]
    BY <1>1, ScrolledRows, Bottoms
  <1>3. CASE ScreenBounded
    <2>1. term_line_count' = term_line_count
      BY <1>3 DEF terminalCursorDown
    <2>2. term_buf' \in [Rows -> Row]
      BY <1>1, <1>2, <1>3 DEF terminalCursorDown
    <2>3. term_cursor_row' \in Rows
      BY <1>1, <1>3 DEF terminalCursorDown, Rows
    <2> QED BY <1>1, <2>1, <2>2, <2>3
  <1>4. CASE ~ScreenBounded
    <2>1. term_buf' \in [Rows -> Row]
      BY <1>1, <1>2, <1>4 DEF terminalCursorDown
    <2>2. term_cursor_row' \in Rows
      BY <1>1, <1>4 DEF terminalCursorDown, Rows
    <2>3. term_line_count' = IF term_cursor_row' >= term_line_count THEN term_cursor_row' + 1 ELSE term_line_count
      BY <1>4 DEF terminalCursorDown
    <2>4. TERM_ROWS \in Nat /\ term_line_count \in 1 .. TERM_ROWS /\ term_cursor_row' \in 0 .. TERM_ROWS - 1
      BY <1>1, <2>2 DEF Rows
    <2>5. term_line_count' \in 1 .. TERM_ROWS
      <3>1. CASE term_cursor_row' >= term_line_count
        <4>1. term_line_count' = term_cursor_row' + 1
          BY <2>3, <3>1
        <4>2. \A row \in 0 .. TERM_ROWS - 1 : row + 1 \in 1 .. TERM_ROWS
          BY DEF RowsAssumption
        <4> QED BY <2>4, <4>1, <4>2
      <3>2. CASE ~(term_cursor_row' >= term_line_count)
        BY <2>3, <2>4, <3>2
      <3> QED BY <3>1, <3>2
    <2> QED BY <2>1, <2>2, <2>5
  <1> QED BY <1>3, <1>4

(* A new line. *)
LEMMA LineStep == ASSUME RowsAssumption, RowsInv, NextLine PROVE RowsInv'
  <1>1. /\ terminalCursorDown /\ UNCHANGED <<region, screen>>
        /\ log' = IF scroll_region_set \/ ~Logging THEN IF term_alt_active \/ ~scroll_region_set THEN log ELSE << >>
                  ELSE Keep(log \o <<Blank>>)
    BY DEF NextLine, NotALine, ToLog
  <1>2. /\ term_buf' \in [Rows -> Row] /\ term_cursor_row' \in Rows /\ term_line_count' \in 1 .. TERM_ROWS
        /\ term_cursor_row \in Rows /\ TERM_ROWS \in Nat /\ TERM_ROWS >= 2 /\ term_buf \in [Rows -> Row]
        /\ log \in Seq(Row) /\ Len(log) \in Nat /\ Len(log) <= TERM_ROWS
        /\ Len(<< >>) = 0 /\ << >> \in Seq(Row)
    BY <1>1, CursorDownTypes DEF RowsInv, TypeOK, RowsAssumption
  <1>3. CASE Logging /\ ~scroll_region_set
    <2> DEFINE next == Keep(log \o <<Blank>>)
    <2>1. log' = next /\ log # << >> /\ ~term_alt_active /\ ~term_alt_active' /\ ~ScreenBounded
      BY <1>1, <1>3 DEF Logging, ScreenBounded, screen
    <2>2. /\ next \in Seq(Row) /\ next # << >>
          /\ Len(next) = IF Len(log) = TERM_ROWS THEN TERM_ROWS ELSE Len(log) + 1
          /\ \A i \in 1 .. Len(next) :
               next[i] = IF i = Len(next) THEN Blank ELSE IF Len(log) = TERM_ROWS THEN log[i + 1] ELSE log[i]
      BY <1>2, <2>1, LineMore
    <2> HIDE DEF next
    <2>3. /\ term_cursor_row = Len(log) - 1 /\ term_line_count = Len(log)
          /\ \A r \in Rows : term_buf[r] = IF r < Len(log) THEN log[r + 1] ELSE Blank
      BY <2>1 DEF RowsInv, LinesKept, Shows
    <2>4. Len(log) \in 1 .. TERM_ROWS /\ TERM_ROWS \in Nat /\ Rows = 0 .. TERM_ROWS - 1
      BY <1>2, <2>1 DEF Rows
    <2>5. /\ term_cursor_row' = Len(next) - 1 /\ term_line_count' = Len(next)
          /\ term_buf' = IF Len(log) = TERM_ROWS THEN ScrolledUp(term_buf, 0, TERM_ROWS - 1) ELSE term_buf
      <3>1. term_cursor_row + 1 >= TERM_ROWS <=> Len(log) = TERM_ROWS
        BY <2>3, <2>4
      <3>2. term_cursor_row' = IF Len(log) = TERM_ROWS THEN TERM_ROWS - 1 ELSE Len(log)
        BY <1>1, <2>1, <2>3, <2>4, <3>1 DEF terminalCursorDown
      <3>3. term_line_count' = IF term_cursor_row' >= term_line_count THEN term_cursor_row' + 1 ELSE term_line_count
        BY <1>1, <2>1 DEF terminalCursorDown
      <3>4. term_buf' = IF Len(log) = TERM_ROWS THEN ScrolledUp(term_buf, 0, TERM_ROWS - 1) ELSE term_buf
        BY <1>1, <2>1, <3>1 DEF terminalCursorDown
      <3>5. Len(next) = IF Len(log) = TERM_ROWS THEN TERM_ROWS ELSE Len(log) + 1
        BY <2>2
      <3>6. term_cursor_row' = Len(next) - 1 /\ term_line_count' = Len(next)
        BY ONLY <2>3, <2>4, <3>2, <3>3, <3>5
      <3> QED BY <3>4, <3>6
    <2>6. ASSUME NEW r \in Rows PROVE term_buf'[r] = IF r < Len(next) THEN next[r + 1] ELSE Blank
      <3>1. r \in 0 .. TERM_ROWS - 1 /\ (r + 1 <= TERM_ROWS - 1 => r + 1 \in Rows)
        BY <2>4
      <3>2. r < Len(next) => r + 1 \in 1 .. Len(next)
        BY <2>2, <2>4, <3>1
      <3>3. CASE Len(log) = TERM_ROWS
        <4>1. term_buf'[r] = IF r = TERM_ROWS - 1 THEN Blank ELSE term_buf[r + 1]
          BY <2>4, <2>5, <3>1, <3>3 DEF ScrolledUp
        <4>2. r # TERM_ROWS - 1 => term_buf[r + 1] = log[r + 2]
          BY <2>3, <2>4, <3>1, <3>3
        <4> QED BY <2>2, <2>4, <3>1, <3>2, <3>3, <4>1, <4>2
      <3>4. CASE Len(log) # TERM_ROWS
        BY <2>2, <2>3, <2>4, <2>5, <3>1, <3>2, <3>4
      <3> QED BY <3>3, <3>4
    <2>7. LinesKept'
      BY <2>1, <2>5, <2>6 DEF LinesKept, Shows
    <2>8. log' \in Seq(Row) /\ Len(log') <= TERM_ROWS
      BY <2>1, <2>2, <2>4
    <2> QED BY <1>1, <1>2, <2>7, <2>8 DEF RowsInv, TypeOK, region, screen
  <1>4. CASE ~(Logging /\ ~scroll_region_set)
    <2>1. (log' = log /\ (term_alt_active \/ log = << >>)) \/ log' = << >>
      BY <1>1, <1>4 DEF Logging
    <2>2. log' \in Seq(Row) /\ Len(log') <= TERM_ROWS
      <3>1. CASE log' = log
        BY <1>2, <3>1
      <3>2. CASE log' = << >>
        BY <1>2, <3>2
      <3> QED BY <2>1, <3>1, <3>2
    <2>3. LinesKept'
      BY <1>1, <2>1 DEF RowsInv, LinesKept, Shows, screen
    <2> QED BY <1>1, <1>2, <2>2, <2>3 DEF RowsInv, TypeOK, region, screen
  <1> QED BY <1>3, <1>4

(* Cursor movements, and edits of the rows, which end the log. *)
LEMMA MoveStep ==
  ASSUME RowsAssumption, RowsInv, NEW row \in Rows, NEW counted \in BOOLEAN, MoveTo(row, counted)
  PROVE  RowsInv'
  <1>1. /\ term_cursor_row' = row /\ NotALine /\ UNCHANGED <<term_buf, region, screen>>
        /\ term_line_count' = IF counted /\ row >= term_line_count THEN row + 1 ELSE term_line_count
    BY DEF MoveTo
  <1>2. LinesKept' /\ log' \in Seq(Row) /\ Len(log') <= TERM_ROWS
    BY <1>1, NoLineKeeps
  <1>3. TERM_ROWS \in Nat /\ term_line_count \in 1 .. TERM_ROWS /\ row \in 0 .. TERM_ROWS - 1
    BY DEF RowsInv, TypeOK, Rows, RowsAssumption
  <1>4. term_line_count' \in 1 .. TERM_ROWS
    <2>1. CASE counted /\ row >= term_line_count
      BY <1>1, <1>3, <2>1
    <2>2. CASE ~(counted /\ row >= term_line_count)
      BY <1>1, <1>3, <2>2
    <2> QED BY <2>1, <2>2
  <1>5. TypeOK'
    BY <1>1, <1>2, <1>4 DEF RowsInv, TypeOK, region, screen
  <1> QED BY <1>2, <1>5 DEF RowsInv

(* Index and reverse index. *)
LEMMA IndexStep == ASSUME RowsAssumption, RowsInv, ReverseIndex \/ IndexDown PROVE RowsInv'
  <1>1. NotALine /\ UNCHANGED <<region, screen>>
    BY DEF ReverseIndex, IndexDown
  <1>2. LinesKept' /\ log' \in Seq(Row) /\ Len(log') <= TERM_ROWS
    BY <1>1, NoLineKeeps
  <1>3. /\ term_buf \in [Rows -> Row] /\ term_cursor_row \in Rows /\ term_line_count \in 1 .. TERM_ROWS
        /\ ScrolledUp(term_buf, scroll_region_top, scroll_region_bot) \in [Rows -> Row]
        /\ ScrolledDown(term_buf, scroll_region_top, scroll_region_bot) \in [Rows -> Row]
    BY ScrolledRows, Bottoms DEF RowsInv, TypeOK
  <1>4. term_buf' \in [Rows -> Row] /\ term_cursor_row' \in Rows /\ term_line_count' \in 1 .. TERM_ROWS
    <2>1. CASE terminalCursorDown
      BY <2>1, CursorDownTypes DEF RowsInv
    <2>2. CASE ReverseIndex
      <3>1. term_cursor_row' \in Rows
        BY <1>3, <2>2 DEF ReverseIndex, Rows, RowsAssumption
      <3>2. term_buf' \in [Rows -> Row] /\ term_line_count' = term_line_count
        BY <1>3, <2>2 DEF ReverseIndex
      <3> QED BY <1>3, <3>1, <3>2
    <2>3. CASE IndexDown /\ ~terminalCursorDown
      BY <1>3, <2>3 DEF IndexDown
    <2> QED BY <2>1, <2>2, <2>3
  <1>5. TypeOK'
    BY <1>1, <1>2, <1>4 DEF RowsInv, TypeOK, region, screen
  <1> QED BY <1>2, <1>5 DEF RowsInv

(* Any edit of the rows of the screen. *)
LEMMA EditStep == ASSUME RowsAssumption, RowsInv, NEW buf \in [Rows -> Row], Edit(buf) PROVE RowsInv'
  <1>1. /\ term_buf' = buf /\ NotALine
        /\ UNCHANGED <<term_cursor_row, term_line_count, region, screen>>
    BY DEF Edit
  <1>2. LinesKept' /\ log' \in Seq(Row) /\ Len(log') <= TERM_ROWS
    BY <1>1, NoLineKeeps
  <1>3. TypeOK'
    BY <1>1, <1>2 DEF RowsInv, TypeOK, region, screen
  <1> QED BY <1>2, <1>3 DEF RowsInv

(* The edits make buffers of buffers. *)
LEMMA EditedRows ==
  ASSUME RowsAssumption, TypeOK, NEW n \in Counts
  PROVE  /\ LinesInserted(n) \in [Rows -> Row] /\ LinesDeleted(n) \in [Rows -> Row]
         /\ ScrolledUpBy(term_buf, scroll_region_top, scroll_region_bot, n) \in [Rows -> Row]
         /\ ScrolledDownBy(term_buf, scroll_region_top, scroll_region_bot, n) \in [Rows -> Row]
  <1>1. /\ n \in Nat \ {0} /\ term_buf \in [Rows -> Row] /\ term_cursor_row \in 0 .. TERM_ROWS - 1
        /\ EditBottom \in 0 .. TERM_ROWS - 1 /\ TERM_ROWS \in Nat /\ Blank \in Row
    BY Bottoms DEF TypeOK, RowsAssumption, Rows, Row
  <1>2. LinesInserted(n) \in [Rows -> Row]
    BY <1>1 DEF LinesInserted, Rows
  <1>3. LinesDeleted(n) \in [Rows -> Row]
    BY <1>1 DEF LinesDeleted, Rows
  <1>8. /\ scroll_region_top \in Nat /\ scroll_region_bot \in Rows
        /\ scroll_region_top <= scroll_region_bot
    BY Bottoms DEF Rows, RowsAssumption
  <1>4. ScrolledUpBy(term_buf, scroll_region_top, scroll_region_bot, n)
        = UpBy(term_buf, scroll_region_top, scroll_region_bot, n)
    BY <1>1, <1>8, UpByIs
  <1>5. ScrolledDownBy(term_buf, scroll_region_top, scroll_region_bot, n)
        = DownBy(term_buf, scroll_region_top, scroll_region_bot, n)
    BY <1>1, <1>8, DownByIs
  <1>6. \A top \in Nat, bot \in Rows : UpBy(term_buf, top, bot, n) \in [Rows -> Row]
    BY <1>1 DEF UpBy, Rows
  <1>7. \A top \in Nat, bot \in Rows : DownBy(term_buf, top, bot, n) \in [Rows -> Row]
    BY <1>1 DEF DownBy, Rows
  <1> QED BY <1>2, <1>3, <1>4, <1>5, <1>6, <1>7, <1>8

(* Erasing from the cursor. *)
LEMMA EraseStep ==
  ASSUME RowsAssumption, RowsInv, NEW own \in {Blank, term_buf[term_cursor_row]},
         EraseBelow(own) \/ EraseAbove(own)
  PROVE  RowsInv'
  <1>1. term_buf \in [Rows -> Row] /\ own \in Row /\ Blank \in Row
    BY DEF RowsInv, TypeOK, Row
  <1>2. \E buf \in [Rows -> Row] : Edit(buf)
    BY <1>1 DEF EraseBelow, EraseAbove
  <1> QED BY <1>2, EditStep

(* Everything erased: one blank line. *)
LEMMA EraseAllStep == ASSUME RowsAssumption, RowsInv, EraseAll PROVE RowsInv'
  <1>1. /\ term_buf \in [Rows -> Row] /\ Blank \in Row /\ 0 \in Rows /\ 1 \in 1 .. TERM_ROWS /\ TERM_ROWS \in Nat
        /\ <<Blank>> \in Seq(Row) /\ Len(<<Blank>>) = 1 /\ <<Blank>>[1] = Blank /\ <<Blank>> # << >>
        /\ 1 <= TERM_ROWS
    BY DEF RowsInv, TypeOK, Row, Rows, RowsAssumption
  <1>2. /\ term_buf' = [r \in Rows |-> IF r < max_row THEN Blank ELSE term_buf[r]]
        /\ term_cursor_row' = 0 /\ term_line_count' = 1
        /\ log' = (IF Logging THEN <<Blank>> ELSE log) /\ UNCHANGED <<region, screen>>
    BY DEF EraseAll, ToLog
  <1>3. term_buf' \in [Rows -> Row] /\ log' \in Seq(Row) /\ Len(log') <= TERM_ROWS
    <2>1. term_buf' \in [Rows -> Row]
      BY <1>1, <1>2
    <2>2. log' \in Seq(Row) /\ Len(log') <= TERM_ROWS
      BY <1>1, <1>2 DEF RowsInv, TypeOK
    <2> QED BY <2>1, <2>2
  <1>4. TypeOK'
    BY <1>1, <1>2, <1>3 DEF RowsInv, TypeOK, region, screen
  <1>5. LinesKept'
    <2>1. CASE Logging
      <3>1. log' = <<Blank>> /\ Len(log') = 1 /\ log'[1] = Blank /\ ~term_alt_active' /\ max_row = TERM_ROWS
        BY <1>1, <1>2, <2>1 DEF Logging, screen, max_row
      <3>2. \A r \in Rows : term_buf'[r] = Blank /\ (r < 1 => r + 1 = 1)
        BY <1>1, <1>2, <3>1 DEF Rows
      <3>3. Shows(term_buf, term_cursor_row, term_line_count)'
        BY <1>2, <3>1, <3>2 DEF Shows, Rows, RowsAssumption
      <3> QED BY <3>1, <3>3 DEF LinesKept
    <2>2. CASE ~Logging
      BY <1>2, <2>2 DEF Logging, RowsInv, LinesKept, Shows, screen
    <2> QED BY <2>1, <2>2
  <1> QED BY <1>4, <1>5 DEF RowsInv

(* A new region. *)
LEMMA RegionStep ==
  ASSUME RowsAssumption, RowsInv, NEW top \in 0 .. ROWS_PER_SCREEN - 2, NEW bot \in 1 .. ROWS_PER_SCREEN - 1,
         NEW set \in BOOLEAN, top < bot, SetRegion(top, bot, set)
  PROVE  RowsInv'
  <1>1. /\ scroll_region_top' = top /\ scroll_region_bot' = bot /\ scroll_region_set' = set
        /\ term_cursor_row' = 0 /\ NotALine /\ UNCHANGED <<term_buf, term_line_count, screen>>
    BY DEF SetRegion
  <1>2. LinesKept' /\ log' \in Seq(Row) /\ Len(log') <= TERM_ROWS
    BY <1>1, NoLineKeeps
  <1>3. 0 \in Rows /\ bot \in top + 1 .. ROWS_PER_SCREEN - 1
    BY DEF Rows, RowsAssumption
  <1>4. TypeOK'
    BY <1>1, <1>2, <1>3 DEF RowsInv, TypeOK, screen
  <1> QED BY <1>2, <1>4 DEF RowsInv

(* The whole screen is a region. *)
LEMMA FullTypes ==
  ASSUME RowsAssumption, FullRegion
  PROVE  /\ scroll_region_top' \in 0 .. ROWS_PER_SCREEN - 2
         /\ scroll_region_bot' \in scroll_region_top' + 1 .. ROWS_PER_SCREEN - 1
         /\ scroll_region_set' \in BOOLEAN
  <1>1. scroll_region_top' = 0 /\ scroll_region_bot' = ROWS_PER_SCREEN - 1
    BY DEF FullRegion
  <1>2. scroll_region_set' \in BOOLEAN
    BY Zenon DEF FullRegion
  <1> QED BY <1>1, <1>2 DEF RowsAssumption

(* Blank buffers are buffers. *)
LEMMA BlankRows ==
  ASSUME RowsAssumption
  PROVE  /\ BlankBuf \in [Rows -> Row] /\ (\A r \in Rows : BlankBuf[r] = Blank)
         /\ 0 \in Rows /\ 1 \in 1 .. TERM_ROWS /\ 1 <= TERM_ROWS
         /\ << >> \in Seq(Row) /\ Len(<< >>) <= TERM_ROWS
         /\ <<Blank>> \in Seq(Row) /\ Len(<<Blank>>) = 1 /\ <<Blank>>[1] = Blank /\ <<Blank>> # << >>
  BY DEF BlankBuf, Row, Rows, RowsAssumption

(* The alternate screen saves the lines of the main screen. *)
LEMMA EnterStep == ASSUME RowsAssumption, RowsInv, enterAltScreen PROVE RowsInv'
  <1>1. /\ ~term_alt_active /\ term_alt_active' = TRUE /\ term_alt_buf' = term_buf
        /\ saved_main' = [row |-> term_cursor_row, count |-> term_line_count]
        /\ term_buf' = BlankBuf /\ term_cursor_row' = 0 /\ term_line_count' = 1 /\ FullRegion
        /\ log' = IF scroll_region_set THEN << >> ELSE log
    BY DEF enterAltScreen
  <1>2. log' \in Seq(Row) /\ Len(log') <= TERM_ROWS
    BY <1>1, BlankRows DEF RowsInv, TypeOK
  <1>3. term_alt_active' \in BOOLEAN
    BY <1>1, Zenon
  <1>4. TypeOK'
    BY <1>1, <1>2, <1>3, BlankRows, FullTypes DEF RowsInv, TypeOK
  <1>5. LinesKept'
    BY <1>1 DEF RowsInv, LinesKept, Shows
  <1> QED BY <1>4, <1>5 DEF RowsInv

(* And gives them back. *)
LEMMA LeaveStep == ASSUME RowsAssumption, RowsInv, leaveAltScreen PROVE RowsInv'
  <1>1. /\ term_alt_active /\ term_alt_active' = FALSE /\ term_buf' = term_alt_buf
        /\ term_cursor_row' = saved_main.row /\ term_line_count' = saved_main.count /\ FullRegion
        /\ UNCHANGED <<term_alt_buf, saved_main, log>>
    BY DEF leaveAltScreen
  <1>2. term_alt_active' \in BOOLEAN
    BY <1>1, Zenon
  <1>3. TypeOK'
    BY <1>1, <1>2, FullTypes DEF RowsInv, TypeOK
  <1>4. LinesKept'
    BY <1>1 DEF RowsInv, LinesKept, Shows
  <1> QED BY <1>3, <1>4 DEF RowsInv

(* A cleared terminal. *)
LEMMA ClearStep == ASSUME RowsAssumption, RowsInv, terminalClear PROVE RowsInv'
  <1>1. /\ term_alt_active' = FALSE /\ term_buf' = BlankBuf /\ term_cursor_row' = 0 /\ term_line_count' = 1
        /\ FullRegion /\ log' = <<Blank>> /\ UNCHANGED <<term_alt_buf, saved_main>>
    BY DEF terminalClear
  <1>2. term_alt_active' \in BOOLEAN
    BY <1>1, Zenon
  <1>3. TypeOK'
    BY <1>1, <1>2, BlankRows, FullTypes DEF RowsInv, TypeOK
  <1>4. \A r \in Rows : r < 1 => r + 1 = 1
    BY DEF Rows, RowsAssumption
  <1>5. LinesKept'
    BY <1>1, <1>4, BlankRows DEF LinesKept, Shows
  <1> QED BY <1>3, <1>5 DEF RowsInv

(* So does the restart an overflowing count ends in. *)
LEMMA OverflowStep ==
  ASSUME RowsAssumption, RowsInv, NEW n \in Counts, LineCountOverflows(n)
  PROVE  RowsInv'
  <1>1. /\ term_alt_active' = FALSE /\ term_buf' = BlankBuf /\ term_alt_buf' = BlankBuf
        /\ term_cursor_row' = 0 /\ term_line_count' = 1 /\ saved_main' = [row |-> 0, count |-> 1]
        /\ FullRegion /\ log' = <<Blank>>
    BY DEF LineCountOverflows
  <1>2. term_alt_active' \in BOOLEAN
    BY <1>1, Zenon
  <1>3. saved_main' \in [row : Rows, count : 1 .. TERM_ROWS]
    BY <1>1 DEF Rows, RowsAssumption
  <1>4. TypeOK'
    BY <1>1, <1>2, <1>3, BlankRows, FullTypes DEF RowsInv, TypeOK
  <1>5. \A r \in Rows : r < 1 => r + 1 = 1
    BY DEF Rows, RowsAssumption
  <1>6. LinesKept'
    BY <1>1, <1>5, BlankRows DEF LinesKept, Shows
  <1> QED BY <1>4, <1>6 DEF RowsInv

(* Every step keeps the lines. *)
LEMMA RowsStep == ASSUME RowsAssumption, RowsInv, [Next]_vars PROVE RowsInv'
  <1>1. CASE UNCHANGED vars
    BY <1>1 DEF vars, region, screen, RowsInv, TypeOK, LinesKept, Shows
  <1>2. ASSUME NEW n \in Counts, InsertLines(n) \/ DeleteLines(n) \/ ScrollUp(n) \/ ScrollDown(n) PROVE RowsInv'
    BY <1>2, EditedRows, EditStep DEF RowsInv, InsertLines, DeleteLines, ScrollUp, ScrollDown
  <1>3. CASE Next
    BY <1>2, <1>3, OverflowStep, TextStep, LineStep, MoveStep, IndexStep, EraseStep, EraseAllStep, RegionStep, EnterStep,
       LeaveStep, ClearStep DEF Next
  <1> QED BY <1>1, <1>3

(* The scrollback. *)
LEMMA LinesScrolled == ASSUME RowsAssumption, RowsInv PROVE Scrollback
  <1> SUFFICES ASSUME ~term_alt_active, log # << >>
               PROVE  /\ term_cursor_row = Len(log) - 1 /\ term_line_count = Len(log)
                      /\ \A r \in 0 .. Len(log) - 1 : term_buf[r] = log[r + 1]
    BY DEF Scrollback
  <1>1. /\ term_cursor_row = Len(log) - 1 /\ term_line_count = Len(log)
        /\ \A r \in Rows : term_buf[r] = IF r < Len(log) THEN log[r + 1] ELSE Blank
        /\ Len(log) \in Nat /\ Len(log) <= TERM_ROWS /\ TERM_ROWS \in Nat
    BY DEF RowsInv, TypeOK, LinesKept, Shows, RowsAssumption
  <1> QED BY <1>1 DEF Rows

(* What scrolls stays in the region. *)
LEMMA RegionOnly ==
  ASSUME RowsAssumption, TypeOK, ScreenBounded,
         NextLine \/ IndexDown \/ ReverseIndex \/ \E n \in Counts : ScrollUp(n) \/ ScrollDown(n),
         NEW r \in Rows, ~InRegion(r)
  PROVE  term_buf'[r] = term_buf[r]
  <1>1. /\ r \notin scroll_region_top .. scroll_region_bot /\ term_buf \in [Rows -> Row]
        /\ scroll_region_top \in Nat /\ scroll_region_bot \in Rows /\ scroll_region_top <= scroll_region_bot
        /\ scroll_region_bot \in Nat /\ r \in Nat
    BY Bottoms DEF InRegion, TypeOK, Rows, RowsAssumption
  <1>2. /\ ScrolledUp(term_buf, scroll_region_top, scroll_region_bot)[r] = term_buf[r]
        /\ ScrolledDown(term_buf, scroll_region_top, scroll_region_bot)[r] = term_buf[r]
    BY <1>1 DEF ScrolledUp, ScrolledDown
  <1>3. CASE NextLine
    BY <1>2, <1>3 DEF NextLine, terminalCursorDown
  <1>4. CASE IndexDown
    BY <1>2, <1>4 DEF IndexDown, terminalCursorDown
  <1>5. CASE ReverseIndex
    BY <1>2, <1>5 DEF ReverseIndex
  <1>6. ASSUME NEW n \in Counts, ScrollUp(n) PROVE term_buf'[r] = term_buf[r]
    <2>1. term_buf' = UpBy(term_buf, scroll_region_top, scroll_region_bot, n)
      BY <1>1, <1>6, UpByIs DEF ScrollUp, Edit, RowsAssumption
    <2> QED BY <1>1, <2>1 DEF UpBy
  <1>7. ASSUME NEW n \in Counts, ScrollDown(n) PROVE term_buf'[r] = term_buf[r]
    <2>1. term_buf' = DownBy(term_buf, scroll_region_top, scroll_region_bot, n)
      BY <1>1, <1>7, DownByIs DEF ScrollDown, Edit, RowsAssumption
    <2> QED BY <1>1, <2>1 DEF DownBy
  <1> QED BY <1>3, <1>4, <1>5, <1>6, <1>7

-----------------------------------------------------------------------------


(* The row and the column of a cell's number. *)
LEMMA Division ==
  ASSUME NEW k \in Nat, NEW C \in Nat \ {0}
  PROVE  k = (k \div C) * C + (k % C) /\ k % C \in 0 .. C - 1 /\ k \div C \in Nat
  <1> DEFINE q == k \div C
             m == k % C
  <1>1. q \in Nat /\ m \in 0 .. C - 1
    OBVIOUS
  <1>2. m = k - C * q
    BY Z3
  <1> HIDE DEF q, m
  <1>3. k = q * C + m
    <2>1. C * q = q * C /\ q * C \in Nat
      BY <1>1
    <2> QED BY <1>1, <1>2, <2>1
  <1> QED BY <1>1, <1>3, Zenon DEF q, m

(* A cell's number has its row and its column. *)
LEMMA Number ==
  ASSUME NEW r \in Nat, NEW C \in Nat \ {0}, NEW c \in 0 .. C - 1
  PROVE  r * C + c \in Nat /\ (r * C + c) \div C = r /\ (r * C + c) % C = c
  OBVIOUS

(* A cell's number is no larger than the last one of its row. *)
LEMMA RowOf ==
  ASSUME NEW k \in Nat, NEW C \in Nat \ {0}, NEW r \in Nat, NEW c \in 0 .. C - 1, k <= r * C + c
  PROVE  k \div C <= r
  <1>1. SUFFICES ASSUME k \div C > r PROVE FALSE
    BY Division
  <1>2. (k \div C - r) * C >= C
    <2>1. ASSUME NEW d \in Nat, d >= 1 PROVE d * C >= C
      <3>1. (d - 1) * C >= 0
        BY <2>1
      <3> QED BY <3>1
    <2>2. k \div C - r \in Nat /\ k \div C - r >= 1
      BY <1>1, Division
    <2> QED BY <2>1, <2>2
  <1>3. k = (k \div C) * C + (k % C) /\ k % C \in 0 .. C - 1 /\ k \div C \in Nat
    BY Division
  <1> QED BY <1>2, <1>3

(* One row further up. *)
LEMMA RowUp ==
  ASSUME NEW k \in Nat, NEW C \in Nat \ {0}
  PROVE  (k + C) \div C = k \div C + 1 /\ (k + C) % C = k % C
  <1> DEFINE q == k \div C
             m == k % C
  <1>1. k = q * C + m /\ m \in 0 .. C - 1 /\ q \in Nat
    BY Division
  <1> HIDE DEF q, m
  <1>2. (q + 1) * C = q * C + C /\ q * C \in Nat
    BY <1>1
  <1>3. k + C = (q + 1) * C + m /\ q + 1 \in Nat
    BY <1>1, <1>2
  <1>4. ((q + 1) * C + m) \div C = q + 1 /\ ((q + 1) * C + m) % C = m
    BY <1>1, <1>3, Number
  <1> QED BY <1>3, <1>4 DEF q, m

(* A pending wrap is at the end of a row. *)
WrapAtEnd == cell_wrap => cell_col = TERM_COLS - 1
CellsInv == Cells!TypeOK /\ WrapAtEnd /\ Cells!PrintedReadsBack

-----------------------------------------------------------------------------
(* The rows below a full buffer are blank. *)
LEMMA Below ==
  ASSUME Cells!CellsAssumption, NEW buf \in [Cells!Rows -> [Cells!Cols -> Char]], cell_row \in Cells!Rows
  PROVE  Cells!BufBelow(buf) \in [Cells!Rows -> [Cells!Cols -> Char]] /\ Cells!RowBelow \in Cells!Rows
  <1>1. [c \in Cells!Cols |-> Space] \in [Cells!Cols -> Char]
    BY DEF Cells!CellsAssumption
  <1>2. Cells!BufBelow(buf) \in [Cells!Rows -> [Cells!Cols -> Char]]
    BY <1>1 DEF Cells!BufBelow
  <1>3. Cells!RowBelow \in Cells!Rows
    BY DEF Cells!RowBelow, Cells!AtBottom, Cells!Rows, Cells!CellsAssumption
  <1> QED BY <1>2, <1>3

(* A character is put, and logged. *)
LEMMA Logged ==
  ASSUME Cells!CellsAssumption, Cells!TypeOK, NEW ch \in Char, Cells!Log(ch)
  PROVE  /\ printed' \in Seq(Char) /\ Len(printed') <= Cells!Cells /\ Len(printed') \in Nat \ {0}
         /\ printed'[Len(printed')] = ch
         /\ Len(printed') \in {Len(printed), Len(printed) + 1}
         /\ \A i \in 1 .. Len(printed') - 1 :
              printed'[i] = printed[i + Len(printed) - (Len(printed') - 1)]
  <1> DEFINE p == Append(printed, ch)
             first == IF Len(p) > Cells!Cells THEN 2 ELSE 1
  <1>1. /\ p \in Seq(Char) /\ Len(p) = Len(printed) + 1 /\ Len(printed) \in Nat /\ Len(printed) <= Cells!Cells
        /\ \A i \in 1 .. Len(printed) + 1 : p[i] = IF i = Len(printed) + 1 THEN ch ELSE printed[i]
        /\ Cells!Cells \in Nat \ {0}
    <2>1. Cells!Cells \in Nat \ {0}
      BY DEF Cells!Cells, Cells!CellsAssumption
    <2> QED BY <2>1 DEF Cells!TypeOK
  <1>2. printed' = SubSeq(p, first, Len(p))
    BY DEF Cells!Log
  <1> HIDE DEF p
  <1>3. first \in 1 .. 2 /\ (first = 1 => Len(printed) < Cells!Cells) /\ (first = 2 => Len(printed) = Cells!Cells)
    BY <1>1
  <1> HIDE DEF first
  <1>4. \A i \in first .. Len(p) : p[i] \in Char
    BY <1>1, <1>3
  <1>5. /\ printed' \in Seq(Char) /\ Len(printed') = Len(printed) + 2 - first
        /\ \A i \in 1 .. Len(printed) + 2 - first : printed'[i] = p[i + first - 1]
    BY <1>1, <1>2, <1>3, <1>4
  <1>6. Len(printed') <= Cells!Cells /\ Len(printed') \in Nat \ {0} /\ Len(printed') \in {Len(printed), Len(printed) + 1}
    BY <1>1, <1>3, <1>5
  <1>7. printed'[Len(printed')] = ch
    BY <1>1, <1>3, <1>5
  <1>8. \A i \in 1 .. Len(printed') - 1 : printed'[i] = printed[i + Len(printed) - (Len(printed') - 1)]
    BY <1>1, <1>3, <1>5
  <1> QED BY <1>5, <1>6, <1>7, <1>8

(* Cell p comes after the last one printed, and in buf the cells before it
   hold what they held. *)
Follows(buf, p) ==
  \A k \in Nat : k < p => /\ Cells!LastPrinted - (p - 1) + k >= 0
                          /\ buf[k \div TERM_COLS][k % TERM_COLS] = Cells!CellAt(Cells!LastPrinted - (p - 1) + k)

(* A character keeps the types, and what was printed reads back. *)
LEMMA CharStep ==
  ASSUME Cells!CellsAssumption, CellsInv, NEW ch \in Char, NEW buf \in [Cells!Rows -> [Cells!Cols -> Char]],
         NEW row \in Cells!Rows, NEW col \in Cells!Cols, Cells!Put(buf, row, col, ch),
         NEW p \in Nat, p = row * TERM_COLS + col,
         Follows(buf, p)
  PROVE  CellsInv'
  <1> DEFINE NextCell(n) == cell_buf'[n \div TERM_COLS][n % TERM_COLS]
  <1>1. /\ row \in Nat /\ col \in 0 .. TERM_COLS - 1 /\ TERM_COLS \in Nat \ {0} /\ CELL_ROWS \in Nat \ {0}
        /\ Cells!Rows = 0 .. CELL_ROWS - 1 /\ Cells!Cols = 0 .. TERM_COLS - 1
    BY DEF Cells!Rows, Cells!Cols, Cells!CellsAssumption
  <1>2. p \in Nat /\ p \div TERM_COLS = row /\ p % TERM_COLS = col
    BY <1>1, Number
  <1>3. /\ cell_buf' = [buf EXCEPT ![row][col] = ch] /\ cell_row' = row /\ Cells!Log(ch)
        /\ IF col = TERM_COLS - 1 THEN cell_wrap' = TRUE /\ cell_col' = col
           ELSE cell_wrap' = FALSE /\ cell_col' = col + 1
    <2>1. col >= TERM_COLS - 1 <=> col = TERM_COLS - 1
      BY <1>1
    <2> QED BY <2>1 DEF Cells!Put
  <1>4. /\ printed' \in Seq(Char) /\ Len(printed') <= Cells!Cells /\ Len(printed') \in Nat \ {0}
        /\ printed'[Len(printed')] = ch
        /\ Len(printed') \in {Len(printed), Len(printed) + 1} /\ Len(printed) \in Nat
        /\ \A i \in 1 .. Len(printed') - 1 : printed'[i] = printed[i + Len(printed) - (Len(printed') - 1)]
    <2>1. Cells!TypeOK /\ Len(printed) \in Nat
      BY DEF CellsInv, Cells!TypeOK
    <2> QED BY <1>3, <2>1, Logged
  <1>5. Cells!TypeOK' /\ WrapAtEnd'
    <2>1. cell_buf' \in [Cells!Rows -> [Cells!Cols -> Char]]
      BY <1>3
    <2>2. cell_wrap' \in BOOLEAN
      BY <1>3, Zenon
    <2>3. cell_col' \in Cells!Cols /\ (cell_wrap' => cell_col' = TERM_COLS - 1)
      <3>1. CASE col = TERM_COLS - 1
        BY <1>1, <1>3, <3>1
      <3>2. CASE col # TERM_COLS - 1
        <4>1. ~cell_wrap' /\ cell_col' = col + 1
          BY <1>3, <3>2
        <4> QED BY <1>1, <3>2, <4>1
      <3> QED BY <3>1, <3>2
    <2> QED BY <1>3, <1>4, <2>1, <2>2, <2>3 DEF Cells!TypeOK, WrapAtEnd, Cells!Cells
  <1>6. Cells!LastPrinted' = p
    <2>1. Cells!LastPrinted' = row * TERM_COLS + cell_col' - (IF cell_wrap' THEN 0 ELSE 1)
      BY <1>3 DEF Cells!LastPrinted
    <2>2. row * TERM_COLS \in Nat
      BY <1>1
    <2>4. row * TERM_COLS + cell_col' - (IF cell_wrap' THEN 0 ELSE 1) = row * TERM_COLS + col
      <3>1. CASE col = TERM_COLS - 1
        <4>1. cell_wrap' /\ cell_col' = col
          BY <1>3, <3>1
        <4> QED BY <1>1, <2>2, <4>1
      <3>2. CASE col # TERM_COLS - 1
        <4>1. ~cell_wrap' /\ cell_col' = col + 1
          BY <1>3, <3>2
        <4> QED BY <1>1, <2>2, <4>1
      <3> QED BY <3>1, <3>2
    <2> QED BY <2>1, <2>4
  <1>7. ASSUME NEW k \in Nat, k <= p
        PROVE  NextCell(k) = IF k = p THEN ch ELSE buf[k \div TERM_COLS][k % TERM_COLS]
    <2>1. k \div TERM_COLS \in Cells!Rows /\ k % TERM_COLS \in Cells!Cols
      <3>1. k \div TERM_COLS <= row
        BY <1>1, <1>7, RowOf
      <3>2. k \div TERM_COLS \in Nat /\ k % TERM_COLS \in 0 .. TERM_COLS - 1
        BY <1>1, Division
      <3>3. \A x \in Nat : x <= row => x \in Cells!Rows
        BY <1>1
      <3> QED BY <1>1, <3>1, <3>2, <3>3
    <2>2. CASE k = p
      BY <1>2, <1>3, <2>1, <2>2
    <2>3. CASE k # p
      <3>1. ~(k \div TERM_COLS = row /\ k % TERM_COLS = col)
        BY <1>1, <2>3, Division, Zenon
      <3> DEFINE q == k \div TERM_COLS
                 m == k % TERM_COLS
      <3>2. q \in Cells!Rows /\ m \in Cells!Cols /\ ~(q = row /\ m = col) /\ NextCell(k) = cell_buf'[q][m]
        BY <2>1, <3>1
      <3> HIDE DEF q, m
      <3>3. cell_buf'[q][m] = buf[q][m]
        BY <1>3, <3>2
      <3> QED BY <2>3, <3>2, <3>3, Zenon DEF q, m
    <2> QED BY <2>2, <2>3
  <1> HIDE DEF NextCell
  <1>8. ASSUME NEW i \in 1 .. Len(printed'), p - (Len(printed') - i) >= 0
        PROVE  NextCell(p - (Len(printed') - i)) = printed'[i]
    <2> DEFINE k == p - (Len(printed') - i)
               j == i + Len(printed) - (Len(printed') - 1)
               moved == Cells!LastPrinted - (p - 1) + k
    <2>1. k \in Nat /\ k <= p /\ (k = p <=> i = Len(printed'))
      <3>1. \A len \in Nat \ {0} : \A n \in 1 .. len :
              p - (len - n) >= 0 => /\ p - (len - n) \in Nat /\ p - (len - n) <= p
                                    /\ (p - (len - n) = p <=> n = len)
        BY <1>2
      <3>2. Len(printed') \in Nat \ {0}
        BY <1>4
      <3> QED BY <1>8, <3>1, <3>2
    <2>2. CASE k = p
      <3>1. i = Len(printed') /\ printed'[i] = ch
        BY <1>4, <2>1, <2>2
      <3>2. NextCell(k) = ch
        BY <1>7, <2>1, <2>2
      <3> QED BY <3>1, <3>2
    <2>3. CASE k # p
      <3>1. i \in 1 .. Len(printed') - 1 /\ k < p
        BY <1>2, <1>4, <2>1, <2>3
      <3>2. Cells!LastPrinted \in Int
        <4>1. \A r \in Nat : r * TERM_COLS \in Nat
          BY <1>1
        <4> QED BY <1>1, <4>1 DEF Cells!LastPrinted, CellsInv, Cells!TypeOK
      <3>3. moved >= 0 /\ NextCell(k) = Cells!CellAt(moved)
        <4>1. moved >= 0 /\ buf[k \div TERM_COLS][k % TERM_COLS] = Cells!CellAt(moved)
          BY <2>1, <3>1 DEF Follows
        <4>2. NextCell(k) = buf[k \div TERM_COLS][k % TERM_COLS]
          BY <1>7, <2>1, <2>3
        <4> QED BY <4>1, <4>2
      <3>4. j \in 1 .. Len(printed) /\ moved = Cells!LastPrinted - (Len(printed) - j)
        BY <1>2, <1>4, <3>1, <3>2
      <3>5. Cells!CellAt(moved) = printed[j]
        BY <3>3, <3>4 DEF CellsInv, Cells!PrintedReadsBack
      <3> QED BY <1>4, <3>1, <3>3, <3>5
    <2> QED BY <2>2, <2>3
  <1>9. Cells!PrintedReadsBack'
    BY <1>6, <1>8 DEF Cells!PrintedReadsBack, Cells!CellAt, NextCell
  <1> QED BY <1>5, <1>9 DEF CellsInv

(* A character where the cursor is, or on the next row after a pending wrap. *)
LEMMA PutCharStep == ASSUME Cells!CellsAssumption, CellsInv, NEW ch \in Char, Cells!PutChar(ch) PROVE CellsInv'
  <1> DEFINE C == TERM_COLS
  <1>1. /\ cell_row \in Nat /\ cell_col \in 0 .. C - 1 /\ C \in Nat \ {0} /\ CELL_ROWS \in Nat \ {0}
        /\ Cells!Rows = 0 .. CELL_ROWS - 1 /\ Cells!Cols = 0 .. C - 1
        /\ cell_row \in Cells!Rows /\ cell_col \in Cells!Cols
        /\ cell_buf \in [Cells!Rows -> [Cells!Cols -> Char]] /\ 0 \in Cells!Cols /\ 0 \in 0 .. C - 1
    BY DEF Cells!Rows, Cells!Cols, CellsInv, Cells!TypeOK, Cells!CellsAssumption
  <1>2. ASSUME NEW r \in Nat
        PROVE  r * C \in Nat /\ (r + 1) * C = r * C + C /\ \A c \in 0 .. C - 1 : r * C + c \in Nat
    <2> HIDE DEF C
    <2>1. r * C \in Nat
      BY <1>1
    <2>2. (r + 1) * C = r * C + C
      BY <1>1
    <2> QED BY <1>1, <2>1, <2>2
  <1> HIDE DEF C
  <1>3. CASE ~cell_wrap
    <2> DEFINE p == cell_row * C + cell_col
    <2>1. p \in Nat /\ Cells!LastPrinted = p - 1
      <3>1. Cells!LastPrinted = cell_row * C + cell_col - 1
        BY <1>3 DEF Cells!LastPrinted, C
      <3>2. cell_row * C \in Nat
        BY <1>1, <1>2
      <3> QED BY <1>1, <3>1, <3>2
    <2>2. Cells!Put(cell_buf, cell_row, cell_col, ch)
      BY <1>3 DEF Cells!PutChar
    <2>3. p = cell_row * TERM_COLS + cell_col
      BY DEF C
    <2> HIDE DEF p
    <2>4. ASSUME NEW k \in Nat, k < p
          PROVE  /\ Cells!LastPrinted - (p - 1) + k >= 0
                 /\ cell_buf[k \div TERM_COLS][k % TERM_COLS] = Cells!CellAt(Cells!LastPrinted - (p - 1) + k)
      <3>1. Cells!LastPrinted - (p - 1) + k = k
        BY <2>1
      <3> QED BY <3>1 DEF Cells!CellAt
    <2>5. Follows(cell_buf, p)
      BY <2>4 DEF Follows
    <2> QED BY <1>1, <2>1, <2>2, <2>3, <2>5, CharStep
  <1>4. CASE cell_wrap /\ ~Cells!AtBottom
    <2> DEFINE p == (cell_row + 1) * C
    <2>1. p \in Nat /\ Cells!LastPrinted = p - 1 /\ p = (cell_row + 1) * C + 0
      <3>1. cell_col = C - 1
        BY <1>4 DEF CellsInv, WrapAtEnd, C
      <3>2. p = cell_row * C + C /\ cell_row * C \in Nat
        BY <1>1, <1>2
      <3>3. Cells!LastPrinted = cell_row * C + (C - 1) - 0
        BY <1>4, <3>1 DEF Cells!LastPrinted, C
      <3> HIDE DEF p
      <3>4. p \in Nat /\ Cells!LastPrinted = p - 1
        BY <1>1, <3>2, <3>3
      <3> QED BY <3>4 DEF p
    <2>2. Cells!Put(cell_buf, cell_row + 1, 0, ch) /\ cell_row + 1 \in Cells!Rows
      <3>1. Cells!RowBelow = cell_row + 1 /\ Cells!BufBelow(cell_buf) = cell_buf
        BY <1>4 DEF Cells!RowBelow, Cells!BufBelow
      <3>2. cell_row + 1 \in Cells!Rows
        BY <1>1, <1>4 DEF Cells!AtBottom
      <3> QED BY <1>4, <3>1, <3>2 DEF Cells!PutChar
    <2>3. p = (cell_row + 1) * TERM_COLS + 0
      BY <2>1 DEF C
    <2> HIDE DEF p
    <2>4. ASSUME NEW k \in Nat, k < p
          PROVE  /\ Cells!LastPrinted - (p - 1) + k >= 0
                 /\ cell_buf[k \div TERM_COLS][k % TERM_COLS] = Cells!CellAt(Cells!LastPrinted - (p - 1) + k)
      <3>1. Cells!LastPrinted - (p - 1) + k = k
        BY <2>1
      <3> QED BY <3>1 DEF Cells!CellAt
    <2>5. Follows(cell_buf, p)
      BY <2>4 DEF Follows
    <2> QED BY <1>1, <2>1, <2>2, <2>3, <2>5, CharStep
  <1>5. CASE cell_wrap /\ Cells!AtBottom
    <2> DEFINE p == cell_row * C
               buf == Cells!BufBelow(cell_buf)
    <2>1. p \in Nat /\ Cells!LastPrinted = p + C - 1
      <3>1. cell_col = C - 1
        BY <1>5 DEF CellsInv, WrapAtEnd, C
      <3>2. Cells!LastPrinted = p + (C - 1) - 0
        BY <1>5, <3>1 DEF Cells!LastPrinted, C
      <3>3. p \in Nat
        BY <1>1, <1>2
      <3> HIDE DEF p
      <3> QED BY <1>1, <3>2, <3>3
    <2>2. Cells!Put(buf, cell_row, 0, ch)
      BY <1>5 DEF Cells!PutChar, Cells!RowBelow
    <2>3. p = cell_row * TERM_COLS + 0
      BY <1>1, <2>1 DEF C
    <2>4. buf \in [Cells!Rows -> [Cells!Cols -> Char]]
      BY <1>1, Below
    <2>5. \A r \in Cells!Rows : r + 1 \in Cells!Rows => buf[r] = cell_buf[r + 1]
      BY <1>5 DEF Cells!BufBelow
    <2> HIDE DEF p, buf
    <2>6. ASSUME NEW k \in Nat, k < p
          PROVE  /\ Cells!LastPrinted - (p - 1) + k >= 0
                 /\ buf[k \div TERM_COLS][k % TERM_COLS] = Cells!CellAt(Cells!LastPrinted - (p - 1) + k)
      <3> DEFINE q == k \div C
                 m == k % C
      <3>1. Cells!LastPrinted - (p - 1) + k = k + C /\ k + C >= 0
        BY <1>1, <2>1
      <3>2. (k + C) \div C = q + 1 /\ (k + C) % C = m
        BY <1>1, RowUp
      <3>3. q \in Nat /\ q + 1 \in Cells!Rows /\ q \in Cells!Rows
        <4>1. q \in Nat /\ k = q * C + m /\ m \in 0 .. C - 1
          BY <1>1, Division
        <4> HIDE DEF q, m
        <4>2. q < cell_row
          <5>1. SUFFICES ASSUME q >= cell_row PROVE FALSE
            BY <1>1, <4>1
          <5>2. (q - cell_row) * C \in Nat
            BY <1>1, <4>1, <5>1
          <5>3. q * C = cell_row * C + (q - cell_row) * C
            BY <1>1, <4>1
          <5>4. q * C >= p
            BY <2>1, <5>2, <5>3 DEF p
          <5>5. q * C \in Nat
            BY <1>1, <4>1
          <5> QED BY <1>1, <2>1, <2>6, <4>1, <5>4, <5>5
        <4> QED BY <1>1, <4>1, <4>2
      <3>4. Cells!CellAt(k + C) = cell_buf[q + 1][m]
        BY <3>2 DEF Cells!CellAt, C
      <3>5. buf[q][m] = cell_buf[q + 1][m]
        BY <2>5, <3>3
      <3> QED BY <3>1, <3>4, <3>5 DEF C
    <2>7. Follows(buf, p)
      BY <2>6 DEF Follows
    <2> QED BY <1>1, <2>1, <2>2, <2>3, <2>4, <2>7, CharStep
  <1> QED BY <1>3, <1>4, <1>5 DEF CellsInv, Cells!TypeOK

-----------------------------------------------------------------------------
(* Control functions forget what was printed. *)
LEMMA ControlStep ==
  ASSUME Cells!CellsAssumption, CellsInv, NEW row \in Cells!Rows, NEW col \in Cells!Cols, Cells!Control(row,
         col), cell_buf' \in [Cells!Rows -> [Cells!Cols -> Char]]
  PROVE  CellsInv'
  <1>1. /\ cell_row' = row /\ cell_col' = col /\ cell_wrap' = FALSE /\ printed' = << >>
        /\ << >> \in Seq(Char) /\ Len(<< >>) = 0
    BY DEF Cells!Control
  <1>2. cell_wrap' \in BOOLEAN
    BY <1>1, Zenon
  <1>3. 0 <= Cells!Cells
    <2>1. Len(printed) \in Nat /\ Len(printed) <= Cells!Cells
      BY DEF CellsInv, Cells!TypeOK
    <2>2. Cells!Cells \in Int
      BY DEF Cells!Cells, Cells!CellsAssumption
    <2> QED BY <2>1, <2>2
  <1>4. Cells!TypeOK'
    BY <1>1, <1>2, <1>3 DEF Cells!TypeOK, Cells!Cells
  <1>5. WrapAtEnd' /\ Cells!PrintedReadsBack'
    BY <1>1 DEF WrapAtEnd, Cells!PrintedReadsBack
  <1> QED BY <1>4, <1>5 DEF CellsInv

(* Line feed, carriage return, backspace, movements. *)
LEMMA MotionStep ==
  ASSUME Cells!CellsAssumption, CellsInv,
         Cells!LineFeed \/ Cells!CarriageReturn \/ Cells!Backspace \/ \E row \in Cells!Rows, col \in Cells!Cols : Cells!MoveTo(row, col)
  PROVE  CellsInv'
  <1>1. /\ cell_buf \in [Cells!Rows -> [Cells!Cols -> Char]] /\ cell_row \in Cells!Rows /\ cell_col \in Cells!Cols
        /\ 0 \in Cells!Cols /\ Space \in Char
    BY DEF CellsInv, Cells!TypeOK, Cells!Cols, Cells!CellsAssumption
  <1>2. Cells!BufBelow(cell_buf) \in [Cells!Rows -> [Cells!Cols -> Char]] /\ Cells!RowBelow \in Cells!Rows
    BY <1>1, Below
  <1>3. CASE Cells!LineFeed
    BY <1>1, <1>2, <1>3, ControlStep DEF Cells!LineFeed
  <1>4. CASE Cells!CarriageReturn
    BY <1>1, <1>4, ControlStep DEF Cells!CarriageReturn
  <1>5. CASE Cells!Backspace
    <2>1. CASE cell_col > 0
      <3>1. cell_col - 1 \in Cells!Cols
        BY <1>1, <2>1 DEF Cells!Cols, Cells!CellsAssumption
      <3>2. cell_buf' \in [Cells!Rows -> [Cells!Cols -> Char]] /\ Cells!Control(cell_row, cell_col - 1)
        BY <1>1, <1>5, <2>1, <3>1 DEF Cells!Backspace
      <3> QED BY <1>1, <3>1, <3>2, ControlStep
    <2>2. CASE ~(cell_col > 0)
      BY <1>1, <1>5, <2>2, ControlStep DEF Cells!Backspace
    <2> QED BY <2>1, <2>2
  <1>6. ASSUME NEW row \in Cells!Rows, NEW col \in Cells!Cols, Cells!MoveTo(row, col) PROVE CellsInv'
    BY <1>1, <1>6, ControlStep DEF Cells!MoveTo
  <1> QED BY <1>3, <1>4, <1>5, <1>6

(* Tabs. *)
LEMMA TabStep == ASSUME Cells!CellsAssumption, CellsInv, Cells!Tab PROVE CellsInv'
  <1>1. /\ cell_buf \in [Cells!Rows -> [Cells!Cols -> Char]] /\ cell_row \in Cells!Rows /\ cell_col \in Cells!Cols
        /\ 0 \in Cells!Cols /\ Space \in Char
    BY DEF CellsInv, Cells!TypeOK, Cells!Cols, Cells!CellsAssumption
  <1>2. Cells!Tabbed \in [Cells!Rows -> [Cells!Cols -> Char]]
    BY <1>1 DEF Cells!Tabbed
  <1>3. Cells!BufBelow(Cells!Tabbed) \in [Cells!Rows -> [Cells!Cols -> Char]] /\ Cells!RowBelow \in Cells!Rows
    BY <1>1, <1>2, Below
  <1>4. Cells!TabEnd \in Nat
    <2>1. cell_col \in Nat /\ TabStop \in Nat \ {0} /\ TERM_COLS \in Nat
      BY <1>1 DEF Cells!Cols, Cells!CellsAssumption
    <2>2. cell_col \div TabStop \in Nat
      BY <2>1
    <2>3. (cell_col \div TabStop + 1) * TabStop \in Nat
      BY <2>1, <2>2
    <2> QED BY <2>1, <2>3 DEF Cells!TabEnd
  <1>5. CASE Cells!TabEnd < TERM_COLS
    <2>1. Cells!TabEnd \in Cells!Cols
      BY <1>4, <1>5 DEF Cells!Cols, Cells!CellsAssumption
    <2> QED BY <1>1, <1>2, <1>5, <2>1, ControlStep DEF Cells!Tab
  <1>6. CASE ~(Cells!TabEnd < TERM_COLS)
    BY <1>1, <1>3, <1>6, ControlStep DEF Cells!Tab
  <1> QED BY <1>5, <1>6

(* Edits of the cursor's row. *)
LEMMA LineEditStep ==
  ASSUME Cells!CellsAssumption, CellsInv, NEW line \in [Cells!Cols -> Char], Cells!EditLine(line)
  PROVE  CellsInv'
  <1>1. cell_buf' \in [Cells!Rows -> [Cells!Cols -> Char]] /\ cell_row \in Cells!Rows /\ cell_col \in Cells!Cols
    BY DEF CellsInv, Cells!TypeOK, Cells!EditLine
  <1> QED BY <1>1, ControlStep DEF Cells!EditLine

(* The cursor's row and how far a count reaches in it. *)
LEMMA Clips ==
  ASSUME Cells!CellsAssumption, Cells!TypeOK, NEW n \in CellCounts
  PROVE  /\ Cells!Line \in [Cells!Cols -> Char] /\ TERM_COLS \in Nat \ {0} /\ Cells!Cols = 0 .. TERM_COLS - 1
         /\ cell_col \in 0 .. TERM_COLS - 1 /\ n \in Nat \ {0} /\ Space \in Char
         /\ Cells!Clipped(n) \in 1 .. TERM_COLS - cell_col
         /\ Cells!Clipped(n) = IF cell_col + n > TERM_COLS THEN TERM_COLS - cell_col ELSE n
  BY DEF Cells!CellsAssumption, Cells!TypeOK, Cells!Line, Cells!Clipped, Cells!Cols

(* The edits make rows of rows. *)
LEMMA EditedLines ==
  ASSUME Cells!CellsAssumption, Cells!TypeOK, NEW n \in CellCounts
  PROVE  /\ Cells!CharsDeleted(n) \in [Cells!Cols -> Char] /\ Cells!CharsInserted(n) \in [Cells!Cols -> Char]
         /\ Cells!CharsErased(n) \in [Cells!Cols -> Char]
  <1>1. Cells!CharsDeleted(n) \in [Cells!Cols -> Char]
    BY Clips DEF Cells!CharsDeleted
  <1>2. Cells!CharsInserted(n) \in [Cells!Cols -> Char]
    BY Clips DEF Cells!CharsInserted
  <1>3. Cells!CharsErased(n) \in [Cells!Cols -> Char]
    BY Clips DEF Cells!CharsErased
  <1> QED BY <1>1, <1>2, <1>3

(* Every step. *)
LEMMA CellsStep == ASSUME Cells!CellsAssumption, CellsInv, [Cells!Next]_(Cells!vars) PROVE CellsInv'
  <1>1. CASE UNCHANGED Cells!vars
    BY <1>1 DEF Cells!vars, CellsInv, Cells!TypeOK, WrapAtEnd, Cells!PrintedReadsBack, Cells!LastPrinted,
                Cells!CellAt
  <1>2. ASSUME NEW n \in CellCounts, Cells!EditChars(n) \/ Cells!CharCountOverflows(n)
        PROVE  CellsInv'
    <2>1. CASE Cells!EditChars(n)
      BY <2>1, EditedLines, LineEditStep DEF CellsInv, Cells!EditChars
    <2>2. CASE Cells!CharCountOverflows(n)
      <3>1. /\ cell_buf' \in [Cells!Rows -> [Cells!Cols -> Char]]
            /\ 0 \in Cells!Rows /\ 0 \in Cells!Cols /\ Cells!Control(0, 0)
        BY <2>2 DEF Cells!CharCountOverflows, Cells!CellsAssumption, Cells!Rows, Cells!Cols
      <3> QED BY <3>1, ControlStep
    <2> QED BY <1>2, <2>1, <2>2
  <1>3. ASSUME NEW p \in 0 .. 2, Cells!EditLine(Cells!LineErased(p)) PROVE CellsInv'
    <2>1. Cells!LineErased(p) \in [Cells!Cols -> Char]
      BY DEF Cells!LineErased, CellsInv, Cells!TypeOK, Cells!Line, Cells!CellsAssumption
    <2> QED BY <1>3, <2>1, LineEditStep
  <1>4. CASE Cells!Next
    BY <1>2, <1>3, <1>4, MotionStep, TabStep, PutCharStep DEF Cells!Next
  <1> QED BY <1>1, <1>4

(* The blank screen, with nothing printed. *)
LEMMA CellsStart == ASSUME Cells!CellsAssumption, Cells!Init PROVE CellsInv
  <1>1. /\ cell_buf \in [Cells!Rows -> [Cells!Cols -> Char]] /\ 0 \in Cells!Rows /\ 0 \in Cells!Cols /\ printed = << >>
        /\ << >> \in Seq(Char) /\ Len(<< >>) = 0 /\ Cells!Cells \in Nat
    BY DEF Cells!Init, Cells!CellsAssumption, Cells!Rows, Cells!Cols, Cells!Cells
  <1>2. cell_wrap \in BOOLEAN
    BY Zenon DEF Cells!Init
  <1>3. Cells!TypeOK
    BY <1>1, <1>2 DEF Cells!Init, Cells!TypeOK
  <1> QED BY <1>1, <1>3 DEF Cells!Init, CellsInv, WrapAtEnd, Cells!PrintedReadsBack

(* Three pieces of a row. *)
LEMMA Joined ==
  ASSUME NEW S
  PROVE  \A s, t, u \in Seq(S) :
           /\ (s \o t) \o u \in Seq(S) /\ Len((s \o t) \o u) = Len(s) + Len(t) + Len(u)
           /\ \A i \in 1 .. Len(s) + Len(t) + Len(u) :
                ((s \o t) \o u)[i] = IF i <= Len(s) THEN s[i]
                                     ELSE IF i <= Len(s) + Len(t) THEN t[i - Len(s)]
                                     ELSE u[i - Len(s) - Len(t)]
  <1> TAKE s, t, u \in Seq(S)
  <1>1. /\ s \o t \in Seq(S) /\ Len(s \o t) = Len(s) + Len(t)
        /\ \A i \in 1 .. Len(s) + Len(t) : (s \o t)[i] = IF i <= Len(s) THEN s[i] ELSE t[i - Len(s)]
    BY ConcatProperties
  <1> DEFINE st == s \o t
  <1> HIDE DEF st
  <1>2. /\ st \o u \in Seq(S) /\ Len(st \o u) = Len(st) + Len(u)
        /\ \A i \in 1 .. Len(st) + Len(u) : (st \o u)[i] = IF i <= Len(st) THEN st[i] ELSE u[i - Len(st)]
    BY <1>1, ConcatProperties DEF st
  <1>3. Len(s) \in Nat /\ Len(t) \in Nat /\ Len(u) \in Nat
    OBVIOUS
  <1>4. /\ Len(st) = Len(s) + Len(t)
        /\ \A i \in 1 .. Len(s) + Len(t) : st[i] = IF i <= Len(s) THEN s[i] ELSE t[i - Len(s)]
    BY <1>1 DEF st
  <1>5. /\ st \o u \in Seq(S) /\ Len(st \o u) = Len(s) + Len(t) + Len(u)
        /\ \A i \in 1 .. Len(s) + Len(t) + Len(u) :
              (st \o u)[i] = IF i <= Len(s) THEN s[i]
                             ELSE IF i <= Len(s) + Len(t) THEN t[i - Len(s)]
                             ELSE u[i - Len(s) - Len(t)]
    BY <1>2, <1>3, <1>4
  <1> QED BY <1>5 DEF st

(* CSI P closes up the row. *)
LEMMA Closing == ASSUME Cells!CellsAssumption, Cells!TypeOK PROVE Cells!DeleteCloses
  <1> SUFFICES ASSUME NEW n \in CellCounts
               PROVE  Cells!AsSeq(Cells!CharsDeleted(n)) =
                        Cells!CutTo(Cells!Left \o SubSeq(Cells!AsSeq(Cells!Line), cell_col + n + 1, TERM_COLS)
                              \o Cells!Spaces(n + TERM_COLS), TERM_COLS)
    BY DEF Cells!DeleteCloses
  <1> DEFINE C == TERM_COLS
             col == cell_col
             mid == SubSeq(Cells!AsSeq(Cells!Line), col + n + 1, C)
             rest == Cells!Spaces(n + C)
             all == Cells!Left \o mid \o rest
  <1>1. /\ Cells!Line \in [Cells!Cols -> Char] /\ C \in Nat \ {0} /\ Cells!Cols = 0 .. C - 1 /\ col \in 0 .. C - 1
        /\ n \in Nat \ {0} /\ Space \in Char
        /\ Cells!Clipped(n) = IF col + n > C THEN C - col ELSE n
    BY Clips
  <1>2. /\ Cells!AsSeq(Cells!Line) \in Seq(Char) /\ Len(Cells!AsSeq(Cells!Line)) = C
        /\ \A i \in 1 .. C : Cells!AsSeq(Cells!Line)[i] = Cells!Line[i - 1]
    BY <1>1 DEF Cells!AsSeq
  <1>3. Cells!CharsDeleted(n) = [c \in Cells!Cols |-> IF c >= C - Cells!Clipped(n) THEN Space
                                          ELSE IF c >= col THEN Cells!Line[c + Cells!Clipped(n)] ELSE Cells!Line[c]]
    BY DEF Cells!CharsDeleted
  <1>4. Cells!AsSeq(Cells!CharsDeleted(n)) = [i \in 1 .. C |-> Cells!CharsDeleted(n)[i - 1]]
    BY DEF Cells!AsSeq
  <1> HIDE DEF C, col
  <1>5. Cells!Left \in Seq(Char) /\ Len(Cells!Left) = col /\ \A i \in 1 .. col : Cells!Left[i] = Cells!Line[i - 1]
    <2>1. Cells!Left = SubSeq(Cells!AsSeq(Cells!Line), 1, col)
      BY DEF Cells!Left, col
    <2>2. \A i \in 1 .. col : Cells!AsSeq(Cells!Line)[i] \in Char
      BY <1>1, <1>2
    <2> QED BY <1>1, <1>2, <2>1, <2>2
  <1>6. /\ mid \in Seq(Char) /\ Len(mid) = (IF col + n + 1 <= C THEN C - col - n ELSE 0)
        /\ \A i \in 1 .. C - col - n : mid[i] = Cells!Line[col + n + i - 1]
    <2>1. \A i \in col + n + 1 .. C : Cells!AsSeq(Cells!Line)[i] \in Char
      BY <1>1, <1>2
    <2>2. /\ mid \in Seq(Char) /\ Len(mid) = (IF col + n + 1 <= C THEN C - (col + n + 1) + 1 ELSE 0)
          /\ \A i \in 1 .. C - (col + n + 1) + 1 : mid[i] = Cells!AsSeq(Cells!Line)[col + n + 1 + i - 1]
      BY <1>1, <2>1, SubSeqProperties
    <2> HIDE DEF mid
    <2> QED BY <1>1, <1>2, <2>2
  <1>7. rest \in Seq(Char) /\ Len(rest) = n + C /\ \A i \in 1 .. n + C : rest[i] = Space
    BY <1>1 DEF Cells!Spaces
  <1> HIDE DEF mid, rest
  <1>8. /\ all \in Seq(Char) /\ Len(all) = col + Len(mid) + n + C
        /\ \A i \in 1 .. C : all[i] = IF i <= col THEN Cells!Left[i]
                                      ELSE IF i <= col + Len(mid) THEN mid[i - col] ELSE Space
    <2>1. Len(mid) \in Nat
      BY <1>1, <1>6
    <2>2. /\ all \in Seq(Char) /\ Len(all) = Len(Cells!Left) + Len(mid) + Len(rest)
          /\ \A i \in 1 .. Len(Cells!Left) + Len(mid) + Len(rest) :
               all[i] = IF i <= Len(Cells!Left) THEN Cells!Left[i] ELSE IF i <= Len(Cells!Left) + Len(mid) THEN mid[i - Len(Cells!Left)]
                        ELSE rest[i - Len(Cells!Left) - Len(mid)]
      <3>1. Cells!Left \in Seq(Char) /\ mid \in Seq(Char) /\ rest \in Seq(Char)
        BY <1>5, <1>6, <1>7
      <3>2. all = (Cells!Left \o mid) \o rest
        OBVIOUS
      <3> HIDE DEF all
      <3> QED BY <3>1, <3>2, Joined
    <2> HIDE DEF all
    <2>3. ASSUME NEW i \in 1 .. C
          PROVE  all[i] = IF i <= col THEN Cells!Left[i] ELSE IF i <= col + Len(mid) THEN mid[i - col] ELSE Space
      <3>1. i \in 1 .. Len(Cells!Left) + Len(mid) + Len(rest) /\ i <= n + C
        BY <1>1, <1>5, <1>7, <2>1
      <3>2. all[i] = IF i <= col THEN Cells!Left[i] ELSE IF i <= col + Len(mid) THEN mid[i - col]
                     ELSE rest[i - col - Len(mid)]
        BY <1>5, <2>2, <3>1
      <3>3. CASE i <= col + Len(mid)
        BY <3>2, <3>3
      <3>4. CASE i > col + Len(mid)
        <4>1. i - col - Len(mid) \in 1 .. n + C
          BY <1>1, <2>1, <3>1, <3>4
        <4> QED BY <1>1, <1>7, <2>1, <3>2, <3>4, <4>1
      <3> QED BY <1>1, <2>1, <3>3, <3>4
    <2> QED BY <1>1, <1>5, <1>7, <2>1, <2>2, <2>3
  <1> HIDE DEF all
  <1>9. Cells!CutTo(all, C) = [i \in 1 .. C |-> all[i]]
    <2>1. C <= Len(all)
      BY <1>1, <1>6, <1>8
    <2> QED BY <1>1, <1>8, <2>1 DEF Cells!CutTo
  <1>10. ASSUME NEW i \in 1 .. C PROVE Cells!CharsDeleted(n)[i - 1] = all[i]
    <2>1. Cells!CharsDeleted(n)[i - 1] = IF i - 1 >= C - Cells!Clipped(n) THEN Space
                                         ELSE IF i - 1 >= col THEN Cells!Line[i - 1 + Cells!Clipped(n)]
                                         ELSE Cells!Line[i - 1]
      BY <1>1, <1>3
    <2>2. CASE i <= col
      BY <1>1, <1>5, <1>8, <2>1, <2>2
    <2>3. CASE i > col /\ i <= col + Len(mid)
      <3>1. i - col \in 1 .. C - col - n /\ Cells!Clipped(n) = n
        BY <1>1, <1>6, <2>3
      <3>2. all[i] = mid[i - col] /\ mid[i - col] = Cells!Line[col + n + (i - col) - 1]
        BY <1>1, <1>6, <1>8, <2>3, <3>1
      <3>3. col + n + (i - col) - 1 = i - 1 + n /\ i - 1 < C - n
        BY <1>1, <2>3, <3>1
      <3> QED BY <1>1, <2>1, <2>3, <3>1, <3>2, <3>3
    <2>4. CASE i > col /\ i > col + Len(mid)
      <3>1. all[i] = Space
        BY <1>1, <1>6, <1>8, <2>4
      <3>2. i - 1 >= C - Cells!Clipped(n)
        BY <1>1, <1>6, <2>4
      <3> QED BY <2>1, <3>1, <3>2
    <2> QED BY <1>1, <2>2, <2>3, <2>4
  <1> QED BY <1>4, <1>9, <1>10 DEF all, mid, rest, C, col

(* CSI @ opens it. *)
LEMMA Opening == ASSUME Cells!CellsAssumption, Cells!TypeOK PROVE Cells!InsertOpens
  <1> SUFFICES ASSUME NEW n \in CellCounts
               PROVE  Cells!AsSeq(Cells!CharsInserted(n)) =
                        Cells!CutTo(Cells!Left \o Cells!Spaces(n) \o SubSeq(Cells!AsSeq(Cells!Line), cell_col + 1, TERM_COLS), TERM_COLS)
    BY DEF Cells!InsertOpens
  <1> DEFINE C == TERM_COLS
             col == cell_col
             mid == Cells!Spaces(n)
             rest == SubSeq(Cells!AsSeq(Cells!Line), col + 1, C)
             all == Cells!Left \o mid \o rest
  <1>1. /\ Cells!Line \in [Cells!Cols -> Char] /\ C \in Nat \ {0} /\ Cells!Cols = 0 .. C - 1 /\ col \in 0 .. C - 1
        /\ n \in Nat \ {0} /\ Space \in Char
        /\ Cells!Clipped(n) = IF col + n > C THEN C - col ELSE n
    BY Clips
  <1>2. /\ Cells!AsSeq(Cells!Line) \in Seq(Char) /\ Len(Cells!AsSeq(Cells!Line)) = C
        /\ \A i \in 1 .. C : Cells!AsSeq(Cells!Line)[i] = Cells!Line[i - 1]
    BY <1>1 DEF Cells!AsSeq
  <1>3. Cells!CharsInserted(n) = [c \in Cells!Cols |-> IF c >= col + Cells!Clipped(n) THEN Cells!Line[c - Cells!Clipped(n)]
                                           ELSE IF c >= col THEN Space ELSE Cells!Line[c]]
    BY DEF Cells!CharsInserted
  <1>4. Cells!AsSeq(Cells!CharsInserted(n)) = [i \in 1 .. C |-> Cells!CharsInserted(n)[i - 1]]
    BY DEF Cells!AsSeq
  <1> HIDE DEF C, col
  <1>5. Cells!Left \in Seq(Char) /\ Len(Cells!Left) = col /\ \A i \in 1 .. col : Cells!Left[i] = Cells!Line[i - 1]
    <2>1. Cells!Left = SubSeq(Cells!AsSeq(Cells!Line), 1, col)
      BY DEF Cells!Left, col
    <2>2. \A i \in 1 .. col : Cells!AsSeq(Cells!Line)[i] \in Char
      BY <1>1, <1>2
    <2> QED BY <1>1, <1>2, <2>1, <2>2
  <1>6. mid \in Seq(Char) /\ Len(mid) = n /\ \A i \in 1 .. n : mid[i] = Space
    BY <1>1 DEF Cells!Spaces
  <1>7. /\ rest \in Seq(Char) /\ Len(rest) = C - col
        /\ \A i \in 1 .. C - col : rest[i] = Cells!Line[col + i - 1]
    <2>1. \A i \in col + 1 .. C : Cells!AsSeq(Cells!Line)[i] \in Char
      BY <1>1, <1>2
    <2>2. /\ rest \in Seq(Char) /\ Len(rest) = (IF col + 1 <= C THEN C - (col + 1) + 1 ELSE 0)
          /\ \A i \in 1 .. C - (col + 1) + 1 : rest[i] = Cells!AsSeq(Cells!Line)[col + 1 + i - 1]
      <3>1. col + 1 \in Int /\ C \in Int
        BY <1>1
      <3> HIDE DEF Cells!Line, Cells!AsSeq
      <3> QED BY <2>1, <3>1, SubSeqProperties
    <2> HIDE DEF rest
    <2>3. ASSUME NEW i \in 1 .. C - col PROVE rest[i] = Cells!Line[col + i - 1]
      <3>1. i \in 1 .. C - (col + 1) + 1 /\ col + 1 + i - 1 = col + i /\ col + i \in 1 .. C
        BY <1>1
      <3>2. rest[i] = Cells!AsSeq(Cells!Line)[col + i]
        BY <2>2, <3>1
      <3>3. Cells!AsSeq(Cells!Line)[col + i] = Cells!Line[col + i - 1]
        BY <1>1, <1>2, <3>1
      <3> QED BY <1>1, <3>2, <3>3
    <2> QED BY <1>1, <2>2, <2>3
  <1> HIDE DEF mid, rest
  <1>8. /\ all \in Seq(Char) /\ Len(all) = C + n
        /\ \A i \in 1 .. C : all[i] = IF i <= col THEN Cells!Left[i]
                                      ELSE IF i <= col + n THEN Space ELSE rest[i - col - n]
    <2>1. /\ all \in Seq(Char) /\ Len(all) = Len(Cells!Left) + Len(mid) + Len(rest)
          /\ \A i \in 1 .. Len(Cells!Left) + Len(mid) + Len(rest) :
               all[i] = IF i <= Len(Cells!Left) THEN Cells!Left[i] ELSE IF i <= Len(Cells!Left) + Len(mid) THEN mid[i - Len(Cells!Left)]
                        ELSE rest[i - Len(Cells!Left) - Len(mid)]
      <3>1. Cells!Left \in Seq(Char) /\ mid \in Seq(Char) /\ rest \in Seq(Char)
        BY <1>5, <1>6, <1>7
      <3>2. all = (Cells!Left \o mid) \o rest
        OBVIOUS
      <3> HIDE DEF all
      <3> QED BY <3>1, <3>2, Joined
    <2> HIDE DEF all
    <2> QED BY <1>1, <1>5, <1>6, <1>7, <2>1
  <1> HIDE DEF all
  <1>9. Cells!CutTo(all, C) = [i \in 1 .. C |-> all[i]]
    <2>1. C <= Len(all)
      BY <1>1, <1>8
    <2> QED BY <1>1, <1>8, <2>1 DEF Cells!CutTo
  <1>10. ASSUME NEW i \in 1 .. C PROVE Cells!CharsInserted(n)[i - 1] = all[i]
    <2>1. Cells!CharsInserted(n)[i - 1] = IF i - 1 >= col + Cells!Clipped(n)
                                          THEN Cells!Line[i - 1 - Cells!Clipped(n)]
                                          ELSE IF i - 1 >= col THEN Space ELSE Cells!Line[i - 1]
      BY <1>1, <1>3
    <2>2. CASE i <= col
      BY <1>1, <1>5, <1>8, <2>1, <2>2
    <2>3. CASE i > col /\ i <= col + n
      BY <1>1, <1>8, <2>1, <2>3
    <2>4. CASE i > col + n
      <3>1. i - col - n \in 1 .. C - col /\ Cells!Clipped(n) = n
        BY <1>1, <2>4
      <3>2. all[i] = rest[i - col - n] /\ rest[i - col - n] = Cells!Line[col + (i - col - n) - 1]
        BY <1>1, <1>7, <1>8, <2>4, <3>1
      <3>3. col + (i - col - n) - 1 = i - 1 - n
        BY <1>1
      <3> QED BY <1>1, <2>1, <2>4, <3>1, <3>2, <3>3
    <2> QED BY <1>1, <2>2, <2>3, <2>4
  <1> QED BY <1>4, <1>9, <1>10 DEF all, mid, rest, C, col

-----------------------------------------------------------------------------
(* The two views together.                                                 *)

(* A behaviour moves one view and leaves the other where it started. *)
ScreenInv == RowsInv /\ CellsInv

(* Both views start well. *)
LEMMA ScreenStart == ScreenInit => ScreenInv
  BY RowsStart, CellsStart, RowsAssumption, ScreenAssumption DEF ScreenInit, ScreenInv

(* And a step of either keeps both invariants. *)
LEMMA ScreenSteps == ScreenInv /\ [ScreenNext]_<<part, vars, cells>> => ScreenInv'
  <1> SUFFICES ASSUME ScreenInv, [ScreenNext]_<<part, vars, cells>> PROVE ScreenInv'
    OBVIOUS
  <1>1. [Next]_vars /\ [Cells!Next]_(Cells!vars)
    BY DEF ScreenNext, cells, Cells!vars
  <1> QED BY <1>1, RowsStep, CellsStep, RowsAssumption, ScreenAssumption DEF ScreenInv

(* The inductive invariant of the screen. *)
THEOREM ScreenHolds == ScreenSpec => []ScreenInv
  <1> QED BY ScreenStart, ScreenSteps, PTL DEF ScreenSpec

(* For every size of the buffer and the screen: cursor, regions, counts and the
   saved screen stay in their bounds, and every cell holds a character. *)
THEOREM ScreenTyping == ScreenSpec => []ScreenTypeOK
  <1>1. ScreenInv => ScreenTypeOK
    BY DEF ScreenInv, RowsInv, CellsInv, ScreenTypeOK
  <1> QED BY <1>1, ScreenHolds, PTL

(* The last TERM_ROWS lines a line-oriented program printed are in the buffer, in
   order, the newest under the cursor, also after full-screen programs. *)
THEOREM ScrollbackKept == ScreenSpec => []Scrollback
  <1>1. ScreenInv => Scrollback
    BY LinesScrolled, RowsAssumption DEF ScreenInv
  <1> QED BY <1>1, ScreenHolds, PTL

(* Characters printed since the last control function read back from the screen in
   order, across wraps and scrolling, for every width. *)
THEOREM ReadsBack == ScreenSpec => []PrintedReadsBack
  <1>1. ScreenInv => PrintedReadsBack
    BY DEF ScreenInv, CellsInv, PrintedReadsBack
  <1> QED BY <1>1, ScreenHolds, PTL

(* Insert and delete line and character compute what their references do, in every
   state the screen reaches and for every count whose sum with the cursor's place is
   an int (with any other count the device restarts: LineCountOverflows and
   CharCountOverflows). *)
THEOREM EditsAreScrolls == ScreenSpec => []EditsMove
  <1>1. ScreenInv => EditsMove
    BY Inserting, Deleting, Closing, Opening, RowsAssumption, ScreenAssumption
    DEF ScreenInv, RowsInv, CellsInv, EditsMove, EditsScroll, Cells!EditsShift
  <1> QED BY <1>1, ScreenHolds, PTL

(* Nothing that scrolls in screen-bounded mode touches a row outside the region. *)
THEOREM OutsideUntouched == ScreenSpec => OutsideKept
  <1>1. ScreenInv =>
          [ScreenBounded
           /\ (NextLine \/ IndexDown \/ ReverseIndex \/ \E n \in Counts : ScrollUp(n) \/ ScrollDown(n))
           => \A r \in Rows : InRegion(r) \/ term_buf'[r] = term_buf[r]]_vars
    BY RegionOnly, RowsAssumption DEF ScreenInv, RowsInv
  <1> QED BY <1>1, ScreenHolds, PTL DEF OutsideKept
=============================================================================
