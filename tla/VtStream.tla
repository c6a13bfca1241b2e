------------------------------ MODULE VtStream ------------------------------
(***************************************************************************)
(* What the terminal's input is supposed to mean, byte by byte and however *)
(* it is cut into reads: the abstract parser that CsiParser implements.    *)
(* The grammar is that of terminalAppendOutput's comments.                 *)
(***************************************************************************)
EXTENDS Integers, SequencesExt

CONSTANTS
  Digits,          \* bound: the digit bytes the remote side sends
  Finals,          \* bytes that end a CSI sequence (printable elsewhere)
  Printable,       \* other printable bytes without a role in a sequence
  MAX_CSI_PARAMS,  \* the parameters of a sequence; any further one is dropped
  INT_MAX          \* the largest value of a parameter: 2^31 - 1 on the device

ESC == "ESC"
BEL == "BEL"
Backslash == "\\"
LeftBracket == "["
RightBracket == "]"
Semicolon == ";"
Question == "?"
Cont == "cont"  \* a continuation byte of a UTF-8 character
Newline == "\n"
Designators == {"(", ")", "*", "+"}
Leads == {"lead2", "lead3", "lead4"}  \* the first bytes of a UTF-8 character

Punctuation == {Backslash, LeftBracket, RightBracket, Semicolon, Question} \cup Designators
Text == Digits \cup Finals \cup Printable \cup Punctuation
Controls == {ESC, BEL, Cont, Newline} \cup Leads
Bytes == Text \cup Controls

VARIABLES
  mode,     \* ground, esc, csi, osc, osc_esc, charset, utf8
  args,     \* CSI parameters so far, the last one still open
  dropped,  \* the open parameter is beyond the last one a sequence may have
  private,  \* "?" seen in this CSI sequence
  left,     \* continuation bytes missing from a UTF-8 character
  op,       \* what the last byte made the terminal do
  read      \* the last byte, and the parity of their number: none is skipped

vars == <<mode, args, dropped, private, left, op, read>>

None == [kind |-> "none"]
Put(b) == [kind |-> "put", byte |-> b]
Esc(b) == [kind |-> "esc", byte |-> b]
Character == [kind |-> "utf8"]
Csi(final, priv, params) ==
  [kind |-> "csi", final |-> final, private |-> priv,
   params |-> [i \in 1 .. MAX_CSI_PARAMS |-> IF i <= Len(params) THEN params[i] ELSE 0]]

\* A private mode sequence with too many parameters also sets or resets modes that
\* nobody sent: which ones is not defined.
Foreign(final) == [kind |-> "foreign", final |-> final]
ModeFinals == {"h", "l"}

Init == /\ mode = "ground" /\ args = << >> /\ dropped = FALSE /\ private = FALSE /\ left = 0
        /\ op = None /\ read = [byte |-> Newline, odd |-> FALSE]

Outside == args' = << >> /\ dropped' = FALSE /\ private' = FALSE
To(m) == mode' = m /\ left' = 0 /\ Outside

\* The bytes that follow a lead byte.
Follow(b) == CASE b = "lead2" -> 1 [] b = "lead3" -> 2 [] b = "lead4" -> 3

Ground(b) ==
  \/ b = ESC /\ To("esc") /\ op' = None
  \/ b \in Leads /\ mode' = "utf8" /\ left' = Follow(b) /\ Outside /\ op' = None
  \/ b \in Text \cup {Newline} /\ To("ground") /\ op' = Put(b)
  \/ b \in {Cont, BEL} /\ To("ground") /\ op' = None

Escape(b) ==
  \/ /\ b = LeftBracket
     /\ mode' = "csi" /\ args' = <<0>> /\ dropped' = FALSE /\ private' = FALSE /\ left' = 0
     /\ op' = None
  \/ b = RightBracket /\ To("osc") /\ op' = None
  \/ b \in Designators /\ To("charset") /\ op' = None
  \/ b \notin {LeftBracket, RightBracket} \cup Designators /\ To("ground") /\ op' = Esc(b)

DigitValue(d) == (CHOOSE i \in 1 .. 10 :
                    <<"0", "1", "2", "3", "4", "5", "6", "7", "8", "9">>[i] = d) - 1

\* What a parameter of value v can be after one more digit: a number beyond the
\* range of int has no defined value.
Ints == -INT_MAX - 1 .. INT_MAX
Grown(v, d) == LET w == 10 * v + DigitValue(d) IN IF w \in Ints THEN {w} ELSE Ints

InCsi(b) ==
  \/ /\ b \in Finals
     /\ To("ground")
     /\ \/ op' = Csi(b, private, args)
        \/ dropped /\ private /\ b \in ModeFinals /\ op' = Foreign(b)
  \/ /\ b \in Digits /\ ~dropped
     /\ \E v \in Grown(args[Len(args)], b) : args' = [args EXCEPT ![Len(args)] = v]
     /\ UNCHANGED <<mode, dropped, private, left>> /\ op' = None
  \/ /\ b \in Digits /\ dropped
     /\ UNCHANGED <<mode, args, dropped, private, left>> /\ op' = None
  \/ /\ b = Semicolon /\ Len(args) < MAX_CSI_PARAMS
     /\ args' = Append(args, 0)
     /\ UNCHANGED <<mode, dropped, private, left>> /\ op' = None
  \/ /\ b = Semicolon /\ Len(args) = MAX_CSI_PARAMS
     /\ dropped' = TRUE
     /\ UNCHANGED <<mode, args, private, left>> /\ op' = None
  \/ /\ b = Question
     /\ private' = TRUE
     /\ UNCHANGED <<mode, args, dropped, left>> /\ op' = None
  \/ /\ b \notin Finals \cup Digits \cup {Semicolon, Question}
     /\ UNCHANGED <<mode, args, dropped, private, left>> /\ op' = None

\* Until BEL or ST (ESC \).
InOsc(b) ==
  /\ op' = None
  /\ \/ b = BEL /\ To("ground")
     \/ b = Backslash /\ mode = "osc_esc" /\ To("ground")
     \/ b = ESC /\ To("osc_esc")
     \/ b \notin {BEL, ESC} /\ (b # Backslash \/ mode = "osc") /\ To("osc")

InUtf8(b) ==
  \/ b = Cont /\ left = 1 /\ To("ground") /\ op' = Character
  \/ b = Cont /\ left > 1 /\ left' = left - 1 /\ UNCHANGED <<mode, args, dropped, private>> /\ op' = None
  \/ b # Cont /\ Ground(b)

Reads(b) == read' = [byte |-> b, odd |-> ~read.odd]

Byte(b) ==
  \/ mode = "ground" /\ Ground(b)
  \/ mode = "esc" /\ Escape(b)
  \/ mode = "csi" /\ InCsi(b)
  \/ mode \in {"osc", "osc_esc"} /\ InOsc(b)
  \/ mode = "charset" /\ To("ground") /\ op' = None
  \/ mode = "utf8" /\ InUtf8(b)

Next == \E b \in Bytes : Reads(b) /\ Byte(b)

Spec == Init /\ [][Next]_vars

=============================================================================
