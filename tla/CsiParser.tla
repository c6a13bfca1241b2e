----------------------------- MODULE CsiParser -----------------------------
(***************************************************************************)
(* The parser inside terminalAppendOutput, with its own state variables    *)
(* and the chunks sshReceiveTask hands it: an OSC string and a character   *)
(* set designator are skipped by looking ahead in the chunk, everything    *)
(* else survives from one chunk to the next.  What an operation does to    *)
(* the screen is in Terminal, TermRows and TermCells.                      *)
(***************************************************************************)
EXTENDS Integers, SequencesExt

CONSTANTS
  Digits, Finals, Printable,
  MAX_CSI_PARAMS,
  INT_MAX,        \* the largest int: 2^31 - 1 on the device
  MaxSeparators,  \* bound: the semicolons of a sequence, more than the array has room for
  CutStrings      \* a chunk may end inside an OSC string or a designator, which
                  \* the code then takes for text: see StreamParsed

ASSUME ParserAssumption ==
  /\ MAX_CSI_PARAMS \in Nat \ {0} /\ INT_MAX \in Nat /\ MaxSeparators \in Nat
  /\ CutStrings \in BOOLEAN

VARIABLES
  in_escape, in_bracket,
  csi_params,        \* the array, 1-based here; a write past its end adds to its domain
  csi_param_count, csi_parsing_num, csi_private,
  utf8_remaining,
  ahead,             \* the look-ahead running in this chunk: none, osc, osc_esc, charset
  op,                \* the operation the last byte performed
  read               \* ghost: the byte read last, as in VtStream

csi == <<csi_params, csi_param_count, csi_parsing_num, csi_private>>
vars == <<in_escape, in_bracket, csi, utf8_remaining, ahead, op, read>>

InArray == csi_param_count < MAX_CSI_PARAMS
Least(i, j) == IF i < j THEN i ELSE j
Zeros == [i \in 1 .. MAX_CSI_PARAMS |-> 0]

\* The meaning of the bytes, with the state the code keeps for it.
ModeNow == IF utf8_remaining > 0 THEN "utf8"
           ELSE IF in_escape THEN IF in_bracket THEN "csi" ELSE "esc"
           ELSE IF ahead = "none" THEN "ground" ELSE ahead
ArgsNow == IF in_bracket THEN SubSeq(csi_params, 1, Least(csi_param_count + 1, MAX_CSI_PARAMS))
           ELSE << >>
Stream == INSTANCE VtStream
            WITH mode <- ModeNow, args <- ArgsNow, left <- utf8_remaining,
                 dropped <- in_bracket /\ ~InArray, private <- in_bracket /\ csi_private
Nothing == Stream!None

\* Digits are decimal, and no control is also a printable byte.
ASSUME BytesAssumption ==
  /\ Digits \subseteq {"0", "1", "2", "3", "4", "5", "6", "7", "8", "9"}
  /\ (Finals \cup Printable) \cap Stream!Controls = {}

\* Every write of a parameter is to an element of the array.
TypeOK ==
  /\ in_escape \in BOOLEAN /\ in_bracket \in BOOLEAN /\ (in_bracket => in_escape)
  /\ csi_params \in [1 .. MAX_CSI_PARAMS -> Stream!Ints]
  /\ csi_param_count \in Nat
  /\ csi_parsing_num \in BOOLEAN /\ csi_private \in BOOLEAN
  /\ utf8_remaining \in 0 .. 3
  /\ ahead \in {"none", "osc", "osc_esc", "charset"}

Init ==
  /\ in_escape = FALSE /\ in_bracket = FALSE
  /\ csi_params = Zeros /\ csi_param_count = 0
  /\ csi_parsing_num = FALSE /\ csi_private = FALSE
  /\ utf8_remaining = 0 /\ ahead = "none"
  /\ op = Nothing
  /\ read = [byte |-> Stream!Newline, odd |-> FALSE]

-----------------------------------------------------------------------------
(* The look-aheads end with the chunk, whether or not they found an end.   *)

AfterOsc(b, from) ==
  IF b = Stream!BEL \/ (b = Stream!Backslash /\ from = "osc_esc") THEN "none"
  ELSE IF b = Stream!ESC THEN "osc_esc" ELSE "osc"

\* Byte b, the last one of its chunk or not, performs the operation and
\* leaves the look-ahead next running.
Step(b, last, operation, next) ==
  /\ last => CutStrings \/ next = "none"
  /\ ahead' = IF last THEN "none" ELSE next
  /\ op' = operation

Swallow(b, last) ==
  /\ ahead # "none"
  /\ Step(b, last, Nothing, IF ahead = "charset" THEN "none" ELSE AfterOsc(b, ahead))
  /\ UNCHANGED <<in_escape, in_bracket, csi, utf8_remaining>>

-----------------------------------------------------------------------------
(* Outside a sequence.                                                     *)

Continuation(b, last) ==
  /\ utf8_remaining > 0 /\ b = Stream!Cont
  /\ utf8_remaining' = utf8_remaining - 1
  /\ Step(b, last, IF utf8_remaining = 1 THEN Stream!Character ELSE Nothing, "none")
  /\ UNCHANGED <<in_escape, in_bracket, csi>>

\* A byte that does not continue the UTF-8 character resets it and is
\* processed as if it had not been open.
Ground(b, last) ==
  /\ ahead = "none" /\ ~in_escape /\ ~(utf8_remaining > 0 /\ b = Stream!Cont)
  /\ in_escape' = (b = Stream!ESC) /\ in_bracket' = FALSE
  /\ utf8_remaining' = IF b \in Stream!Leads THEN Stream!Follow(b) ELSE 0
  /\ Step(b, last, IF b \in Stream!Text \cup {Stream!Newline} THEN Stream!Put(b) ELSE Nothing,
          "none")
  /\ UNCHANGED csi

-----------------------------------------------------------------------------
(* After ESC.                                                              *)

Escaped == in_escape /\ ~in_bracket

OpenCsi(b, last) ==
  /\ Escaped /\ b = Stream!LeftBracket
  /\ in_bracket' = TRUE
  /\ csi_params' = Zeros /\ csi_param_count' = 0
  /\ csi_parsing_num' = FALSE /\ csi_private' = FALSE
  /\ Step(b, last, Nothing, "none")
  /\ UNCHANGED <<in_escape, utf8_remaining>>

OpenString(b, last) ==
  /\ Escaped /\ b \in {Stream!RightBracket} \cup Stream!Designators
  /\ in_escape' = FALSE
  /\ Step(b, last, Nothing, IF b \in Stream!Designators THEN "charset" ELSE "osc")
  /\ UNCHANGED <<in_bracket, csi, utf8_remaining>>

\* One of M D E 7 8 c, or unknown and ignored.
EscapeFunction(b, last) ==
  /\ Escaped /\ b \notin {Stream!LeftBracket, Stream!RightBracket} \cup Stream!Designators
  /\ in_escape' = FALSE
  /\ Step(b, last, Stream!Esc(b), "none")
  /\ UNCHANGED <<in_bracket, csi, utf8_remaining>>

-----------------------------------------------------------------------------
(* Inside ESC [.  The array is indexed from 1.                             *)

Collect(b, last) == in_bracket /\ Step(b, last, Nothing, "none")
                    /\ UNCHANGED <<in_escape, in_bracket, utf8_remaining>>

\* csi_params[csi_param_count] = v.
Store(v) == [i \in DOMAIN csi_params \cup {csi_param_count + 1} |->
               IF i = csi_param_count + 1 THEN v ELSE csi_params[i]]

\* The int a sum or product beyond its range wraps around to.
Wrapped(v) == IF v \in Stream!Ints THEN v
              ELSE ((v + INT_MAX + 1) % (2 * INT_MAX + 2)) - INT_MAX - 1

Number(d) == Wrapped(10 * (IF csi_parsing_num THEN csi_params[csi_param_count + 1] ELSE 0)
                     + Stream!DigitValue(d))

\* Mutant: the first digit of a number is stored wherever it comes.
DigitPastArray(b, last) ==
  /\ b \in Digits
  /\ Collect(b, last)
  /\ csi_params' = IF InArray \/ ~csi_parsing_num THEN Store(Number(b)) ELSE csi_params
  /\ csi_parsing_num' = (csi_parsing_num \/ InArray)
  /\ UNCHANGED <<csi_param_count, csi_private>>

\* A digit past the last parameter is read and forgotten.
Digit(b, last) ==
  /\ b \in Digits
  /\ Collect(b, last)
  /\ csi_params' = IF InArray THEN Store(Number(b)) ELSE csi_params
  /\ csi_parsing_num' = (csi_parsing_num \/ InArray)
  /\ UNCHANGED <<csi_param_count, csi_private>>

\* Mutant: an empty parameter is not counted.
SemicolonSkipsEmpty(b, last) ==
  /\ b = Stream!Semicolon /\ csi_param_count < MaxSeparators
  /\ Collect(b, last)
  /\ csi_param_count' = IF csi_parsing_num THEN csi_param_count + 1 ELSE csi_param_count
  /\ csi_parsing_num' = FALSE
  /\ UNCHANGED <<csi_params, csi_private>>

\* An empty parameter is 0; the count goes on past the end of the array.
Semicolon(b, last) ==
  /\ b = Stream!Semicolon /\ csi_param_count < MaxSeparators
  /\ Collect(b, last)
  /\ csi_params' = IF ~csi_parsing_num /\ InArray THEN Store(0) ELSE csi_params
  /\ csi_param_count' = csi_param_count + 1
  /\ csi_parsing_num' = FALSE
  /\ UNCHANGED csi_private

Question(b, last) ==
  /\ b = Stream!Question
  /\ Collect(b, last)
  /\ csi_private' = TRUE
  /\ UNCHANGED <<csi_params, csi_param_count, csi_parsing_num>>

\* Prefixes, intermediates, and everything else, ESC and controls included.
Ignored(b, last) ==
  /\ b \notin Finals \cup Digits \cup {Stream!Semicolon, Stream!Question}
  /\ Collect(b, last)
  /\ UNCHANGED csi

\* What handleCSI does: it sees the counted parameters, and a private h or l goes
\* through all that are counted, past the end of the array.
Handled(final, count) ==
  IF csi_private /\ final \in Stream!ModeFinals /\ count > MAX_CSI_PARAMS
  THEN Stream!Foreign(final)
  ELSE Stream!Csi(final, csi_private, SubSeq(csi_params, 1, Least(count, MAX_CSI_PARAMS)))

\* The last byte counts the number it ends.
Final(b, last) ==
  /\ in_bracket /\ b \in Finals
  /\ in_escape' = FALSE /\ in_bracket' = FALSE
  /\ csi_param_count' = IF csi_parsing_num /\ InArray THEN csi_param_count + 1 ELSE csi_param_count
  /\ Step(b, last, Handled(b, csi_param_count'), "none")
  /\ UNCHANGED <<csi_params, csi_parsing_num, csi_private, utf8_remaining>>

Byte(b, last) ==
  \/ Swallow(b, last) \/ Continuation(b, last) \/ Ground(b, last)
  \/ OpenCsi(b, last) \/ OpenString(b, last) \/ EscapeFunction(b, last)
  \/ Digit(b, last) \/ Semicolon(b, last) \/ Question(b, last) \/ Ignored(b, last)
  \/ Final(b, last)

Next == \E b \in Stream!Bytes, last \in BOOLEAN : Stream!Reads(b) /\ Byte(b, last)

Spec == Init /\ [][Next]_vars

-----------------------------------------------------------------------------
(* Properties.                                                             *)

\* Every byte means what the abstract parser says it means, wherever the
\* chunks of the SSH stream are cut outside OSC strings and designators (CutStrings
\* FALSE): a string cut by a chunk's end is printed and executed from there on.
StreamParsed == Stream!Spec

=============================================================================
