-------------------------- MODULE CsiParserProofs --------------------------
(***************************************************************************)
(* The terminal's input.  The parser writes its array within its bounds    *)
(* and implements the abstract stream of VtStream, byte by byte, for every *)
(* alphabet, size of the array and of int, and cutting into chunks that    *)
(* does not end inside a string the parser skips by looking ahead.         *)
(***************************************************************************)
EXTENDS CsiParser, SequenceTheorems, TLAPS

(* One thing at a time: a character, a sequence or a look-ahead.           *)
OneOpen ==
  /\ utf8_remaining > 0 => ~in_escape
  /\ in_escape \/ utf8_remaining > 0 => ahead = "none"

(* The parameters not yet begun are 0, and a number begun is in the array. *)
Begun == IF csi_parsing_num THEN csi_param_count + 1 ELSE csi_param_count
RoomForOpen ==
  in_bracket =>
    /\ csi_parsing_num => InArray
    /\ \A i \in 1 .. MAX_CSI_PARAMS : i > Begun => csi_params[i] = 0

ParserInv == TypeOK /\ OneOpen /\ RoomForOpen

(* The digits are worth a natural number. *)
LEMMA DigitIsNat == ASSUME BytesAssumption, NEW d \in Digits PROVE Stream!DigitValue(d) \in 0 .. 9
  <1> DEFINE table == <<"0", "1", "2", "3", "4", "5", "6", "7", "8", "9">>
  <1>1. \E i \in 1 .. 10 : table[i] = d
    BY DEF BytesAssumption
  <1> HIDE DEF table
  <1>2. (CHOOSE i \in 1 .. 10 : table[i] = d) \in 1 .. 10
    BY <1>1
  <1>3. Stream!DigitValue(d) = (CHOOSE i \in 1 .. 10 : table[i] = d) - 1
    BY DEF Stream!DigitValue, table
  <1> QED BY <1>2, <1>3

(* What an int wraps around to is an int. *)
LEMMA WrappedIsInt == ASSUME ParserAssumption, NEW v \in Int PROVE Wrapped(v) \in Stream!Ints
  <1> DEFINE n == 2 * INT_MAX + 2
             m == (v + INT_MAX + 1) % n
  <1>1. INT_MAX \in Nat /\ n \in Nat \ {0} /\ n = 2 * INT_MAX + 2 /\ v + INT_MAX + 1 \in Int
    BY DEF ParserAssumption
  <1>2. m \in 0 .. n - 1
    <2> HIDE DEF n
    <2> QED BY <1>1
  <1> HIDE DEF m, n
  <1>3. m - INT_MAX - 1 \in Stream!Ints
    BY <1>1, <1>2 DEF Stream!Ints
  <1>4. Wrapped(v) = IF v \in Stream!Ints THEN v ELSE m - INT_MAX - 1
    BY DEF Wrapped, m, n
  <1> QED BY <1>3, <1>4

(* A number stored in the array. *)
LEMMA Stored ==
  ASSUME ParserAssumption, TypeOK, InArray, NEW v
  PROVE  /\ csi_param_count + 1 \in 1 .. MAX_CSI_PARAMS
         /\ Store(v) = [csi_params EXCEPT ![csi_param_count + 1] = v]
         /\ v \in Stream!Ints => Store(v) \in [1 .. MAX_CSI_PARAMS -> Stream!Ints]
  <1>1. /\ csi_param_count + 1 \in 1 .. MAX_CSI_PARAMS
        /\ csi_params \in [1 .. MAX_CSI_PARAMS -> Stream!Ints]
    BY DEF TypeOK, InArray, ParserAssumption
  <1>2. DOMAIN csi_params \cup {csi_param_count + 1} = 1 .. MAX_CSI_PARAMS
    BY <1>1
  <1>3. Store(v) = [i \in 1 .. MAX_CSI_PARAMS |->
                      IF i = csi_param_count + 1 THEN v ELSE csi_params[i]]
    BY <1>2 DEF Store
  <1> QED BY <1>1, <1>3

(* The parameters so far. *)
LEMMA ArgsAre ==
  ASSUME ParserAssumption, ParserInv, in_bracket
  PROVE  LET n == Least(csi_param_count + 1, MAX_CSI_PARAMS) IN
           /\ n \in 1 .. MAX_CSI_PARAMS
           /\ n = IF InArray THEN csi_param_count + 1 ELSE MAX_CSI_PARAMS
           /\ ArgsNow = [i \in 1 .. n |-> csi_params[i]] /\ Len(ArgsNow) = n
           /\ ArgsNow[Len(ArgsNow)] = csi_params[n]
  <1> DEFINE n == Least(csi_param_count + 1, MAX_CSI_PARAMS)
  <1>1. n \in 1 .. MAX_CSI_PARAMS /\ n = IF InArray THEN csi_param_count + 1 ELSE MAX_CSI_PARAMS
    BY DEF ParserInv, TypeOK, InArray, Least, ParserAssumption
  <1> HIDE DEF n
  <1>2. SubSeq(csi_params, 1, n) = [i \in 1 .. n |-> csi_params[i]]
    BY <1>1
  <1>3. ArgsNow = SubSeq(csi_params, 1, n)
    BY DEF ArgsNow, n
  <1> QED BY <1>1, <1>2, <1>3 DEF n

(* Without a cut the look-ahead goes on over the end of a chunk. *)
LEMMA NoCut ==
  ASSUME ~CutStrings, NEW b, NEW last \in BOOLEAN, NEW operation, NEW next, Step(b, last, operation,
         next)
  PROVE  ahead' = next /\ op' = operation
  BY DEF Step

(* A look-ahead swallows a byte. *)
LEMMA SwallowStep ==
  ASSUME ParserAssumption, ParserInv, ~CutStrings, NEW b \in Stream!Bytes,
         NEW last \in BOOLEAN, Swallow(b, last)
  PROVE  ParserInv' /\ Stream!Byte(b)
  <1>1. /\ ahead' = IF ahead = "charset" THEN "none" ELSE AfterOsc(b, ahead)
        /\ op' = Stream!None
        /\ ahead \in {"osc", "osc_esc", "charset"} /\ ~in_escape /\ ~in_bracket /\ utf8_remaining = 0
        /\ UNCHANGED <<in_escape, in_bracket, csi, utf8_remaining>>
    BY NoCut DEF Swallow, ParserInv, TypeOK, OneOpen, Nothing
  <1>2. ParserInv'
    BY <1>1 DEF ParserInv, TypeOK, OneOpen, RoomForOpen, Begun, InArray, csi, AfterOsc
  <1>3. ModeNow = ahead /\ ModeNow' = IF ahead' = "none" THEN "ground" ELSE ahead'
    BY <1>1 DEF ModeNow
  <1>4. \A m : ModeNow' = m => Stream!To(m)
    BY <1>1 DEF Stream!To, Stream!Outside, ArgsNow
  <1>5. CASE ahead = "charset"
    BY <1>1, <1>2, <1>3, <1>4, <1>5 DEF Stream!Byte
  <1>6. CASE ahead \in {"osc", "osc_esc"}
    <2>1. Stream!InOsc(b)
      BY <1>1, <1>3, <1>4, <1>6 DEF Stream!InOsc, AfterOsc, Stream!BEL,
                                    Stream!Backslash, Stream!ESC
    <2> QED BY <1>2, <1>3, <1>6, <2>1 DEF Stream!Byte
  <1> QED BY <1>1, <1>5, <1>6

(* A continuation byte of an open character. *)
LEMMA ContinuationStep ==
  ASSUME ParserAssumption, ParserInv, ~CutStrings, NEW b \in Stream!Bytes, NEW last \in BOOLEAN,
         Continuation(b, last)
  PROVE  ParserInv' /\ Stream!Byte(b)
  <1>1. /\ b = Stream!Cont /\ utf8_remaining \in 1 .. 3 /\ utf8_remaining' = utf8_remaining - 1
        /\ ahead' = "none" /\ op' = IF utf8_remaining = 1 THEN Stream!Character ELSE Stream!None
        /\ ~in_escape /\ ~in_bracket
        /\ UNCHANGED <<in_escape, in_bracket, csi>>
    BY NoCut DEF Continuation, ParserInv, TypeOK, OneOpen, Nothing
  <1>2. ParserInv'
    BY <1>1 DEF ParserInv, TypeOK, OneOpen, RoomForOpen, Begun, InArray, csi
  <1>3. /\ ModeNow = "utf8" /\ ModeNow' = IF utf8_remaining = 1 THEN "ground" ELSE "utf8"
        /\ ArgsNow = << >> /\ ArgsNow' = << >>
    BY <1>1 DEF ModeNow, ArgsNow
  <1>4. Stream!InUtf8(b)
    <2>1. CASE utf8_remaining = 1
      BY <1>1, <1>3, <2>1 DEF Stream!InUtf8, Stream!To, Stream!Outside
    <2>2. CASE utf8_remaining > 1
      BY <1>1, <1>3, <2>2 DEF Stream!InUtf8
    <2> QED BY <1>1, <2>1, <2>2
  <1> QED BY <1>2, <1>3, <1>4 DEF Stream!Byte

(* What a byte is outside a sequence. *)
LEMMA Alphabet ==
  ASSUME BytesAssumption, NEW b \in Stream!Bytes
  PROVE  /\ b \in Stream!Text \/ b \in Stream!Controls
         /\ Stream!Text \cap Stream!Controls = {}
  BY DEF BytesAssumption, Stream!Controls, Stream!Bytes, Stream!Text,
         Stream!Punctuation, Stream!ESC,
         Stream!BEL, Stream!Leads, Stream!Cont,
         Stream!Newline, Stream!Backslash,
         Stream!LeftBracket, Stream!RightBracket, Stream!Designators,
         Stream!Semicolon, Stream!Question

(* The bytes after a lead byte. *)
LEMMA FollowIs == \A b \in Stream!Leads : Stream!Follow(b) \in 1 .. 3
  BY DEF Stream!Leads, Stream!Follow

(* A byte outside any sequence. *)
LEMMA GroundStep ==
  ASSUME ParserAssumption, BytesAssumption, ParserInv, ~CutStrings,
         NEW b \in Stream!Bytes, NEW last \in BOOLEAN, Ground(b, last)
  PROVE  ParserInv' /\ Stream!Byte(b)
  <1>1. /\ ahead = "none" /\ ahead' = "none" /\ ~in_escape /\ ~in_bracket
        /\ ~(utf8_remaining > 0 /\ b = Stream!Cont)
        /\ in_bracket' = FALSE
        /\ utf8_remaining' = IF b \in Stream!Leads THEN Stream!Follow(b) ELSE 0
        /\ op' = IF b \in Stream!Text \cup {Stream!Newline} THEN Stream!Put(b) ELSE Stream!None
        /\ UNCHANGED csi
    BY NoCut DEF Ground, ParserInv, TypeOK, OneOpen, Nothing
  <1>2. in_escape' \in BOOLEAN /\ (in_escape' <=> b = Stream!ESC)
    <2>1. in_escape' = (b = Stream!ESC)
      BY DEF Ground
    <2> QED BY <2>1, Zenon
  <1>3. ParserInv'
    <2>1. utf8_remaining' \in 0 .. 3 /\ (in_escape' => utf8_remaining' = 0)
      BY <1>1, <1>2, FollowIs DEF Stream!ESC, Stream!Leads
    <2>2. TypeOK'
      BY <1>1, <1>2, <2>1 DEF ParserInv, TypeOK, csi
    <2>3. OneOpen' /\ RoomForOpen'
      BY <1>1, <2>1 DEF OneOpen, RoomForOpen
    <2> QED BY <2>2, <2>3 DEF ParserInv
  <1>4. ModeNow = (IF utf8_remaining > 0 THEN "utf8" ELSE "ground")
    BY <1>1 DEF ModeNow
  <1>5. /\ ModeNow' = IF b \in Stream!Leads THEN "utf8" ELSE IF b = Stream!ESC THEN "esc" ELSE "ground"
        /\ ArgsNow' = << >> /\ (in_bracket /\ csi_private)' = FALSE
        /\ (in_bracket /\ ~InArray)' = FALSE
    BY <1>1, <1>2, FollowIs DEF ModeNow, ArgsNow, Stream!Leads, Stream!ESC
  <1>6. Stream!Ground(b)
    <2> USE DEF Stream!Controls, Stream!ESC, Stream!BEL, Stream!Leads,
                Stream!Cont, Stream!Newline
    <2>1. CASE b \in Stream!Text \cup {Stream!Newline}
      <3>1. b \notin Stream!Leads \cup {Stream!ESC}
        BY <2>1, Alphabet
      <3> QED BY <1>1, <1>5, <2>1, <3>1 DEF Stream!Ground, Stream!To, Stream!Outside
    <2>2. CASE b \in Stream!Controls \ {Stream!Newline}
      <3>1. b \notin Stream!Text \cup {Stream!Newline}
        BY <2>2, Alphabet
      <3> QED BY <1>1, <1>5, <2>2, <3>1 DEF Stream!Ground, Stream!To, Stream!Outside
    <2> QED BY <2>1, <2>2, Alphabet
  <1>7. Stream!Byte(b)
    BY <1>1, <1>4, <1>6 DEF Stream!Byte, Stream!InUtf8, ParserInv, TypeOK
  <1> QED BY <1>3, <1>7

(* After ESC. *)
LEMMA EscapeStep ==
  ASSUME ParserAssumption, ParserInv, ~CutStrings, NEW b \in Stream!Bytes, NEW last \in BOOLEAN,
         OpenCsi(b, last) \/ OpenString(b, last) \/ EscapeFunction(b, last)
  PROVE  ParserInv' /\ Stream!Byte(b)
  <1> USE DEF Stream!LeftBracket, Stream!RightBracket, Stream!Designators
  <1>1. /\ in_escape /\ ~in_bracket /\ utf8_remaining = 0 /\ utf8_remaining' = 0 /\ ahead = "none"
        /\ ModeNow = "esc"
    BY DEF OpenCsi, OpenString, EscapeFunction, Escaped, ParserInv,
           TypeOK, OneOpen, ModeNow
  <1>2. CASE OpenCsi(b, last)
    <2>1. /\ b = "[" /\ in_escape' /\ in_bracket' = TRUE /\ csi_params' = Zeros /\ csi_param_count' = 0
          /\ csi_parsing_num' = FALSE /\ csi_private' = FALSE /\ op' = Stream!None /\ ahead' = "none"
          /\ in_escape' = in_escape
      BY <1>1, <1>2, NoCut DEF OpenCsi, Nothing
    <2>2. /\ Zeros \in [1 .. MAX_CSI_PARAMS -> Stream!Ints] /\ 1 \in 1 .. MAX_CSI_PARAMS
          /\ \A k \in 1 .. MAX_CSI_PARAMS : Zeros[k] = 0
      BY DEF Zeros, ParserAssumption, Stream!Ints
    <2>3. ParserInv'
      <3>1. csi_parsing_num' \in BOOLEAN /\ csi_private' \in BOOLEAN /\ in_escape' \in BOOLEAN /\ in_bracket' \in BOOLEAN
        BY <2>1, Zenon DEF ParserInv, TypeOK
      <3>2. TypeOK'
        BY <1>1, <2>1, <2>2, <3>1 DEF ParserAssumption, TypeOK
      <3>3. OneOpen' /\ RoomForOpen'
        BY <1>1, <2>1, <2>2 DEF ParserAssumption, OneOpen, RoomForOpen
      <3> QED BY <3>2, <3>3 DEF ParserInv
    <2>4. ArgsNow' = <<0>>
      <3>1. ArgsNow' = [i \in 1 .. 1 |-> csi_params'[i]]
        <4>1. Least(1, MAX_CSI_PARAMS) = 1
          BY DEF Least, ParserAssumption
        <4>2. ArgsNow' = SubSeq(csi_params', 1, 1)
          BY <2>1, <4>1 DEF ArgsNow
        <4> QED BY <2>1, <2>2, <4>2
      <3>2. \A i \in 1 .. 1 : csi_params'[i] = 0
        BY <2>1, <2>2
      <3> QED BY <3>1, <3>2
    <2>5. /\ ModeNow' = "csi" /\ (in_bracket /\ csi_private)' = FALSE
          /\ (in_bracket /\ ~InArray)' = FALSE
      BY <1>1, <2>1 DEF ModeNow, InArray, ParserAssumption
    <2>6. Stream!Escape(b)
      BY <1>1, <2>1, <2>4, <2>5 DEF Stream!Escape
    <2> QED BY <1>1, <2>3, <2>6 DEF Stream!Byte
  <1>3. CASE OpenString(b, last) \/ EscapeFunction(b, last)
    <2>1. /\ in_escape' = FALSE /\ in_bracket' = in_bracket /\ UNCHANGED csi /\ b # "["
          /\ ahead' = IF b \in Stream!Designators THEN "charset" ELSE IF b = "]" THEN "osc" ELSE "none"
          /\ op' = IF b \in Stream!Designators \cup {"]"} THEN Stream!None ELSE Stream!Esc(b)
      BY <1>3, NoCut DEF OpenString, EscapeFunction, Nothing
    <2>2. ParserInv'
      BY <1>1, <2>1 DEF ParserInv, TypeOK, OneOpen, RoomForOpen, csi
    <2>3. /\ ModeNow' = IF ahead' = "none" THEN "ground" ELSE ahead'
          /\ ArgsNow' = << >> /\ (in_bracket /\ csi_private)' = FALSE
          /\ (in_bracket /\ ~InArray)' = FALSE
      BY <1>1, <2>1 DEF ModeNow, ArgsNow
    <2>4. Stream!Escape(b)
      BY <1>1, <2>1, <2>3 DEF Stream!Escape, Stream!To, Stream!Outside
    <2> QED BY <1>1, <2>2, <2>4 DEF Stream!Byte
  <1> QED BY <1>2, <1>3

(* Inside a sequence, before its last byte: the state of every collecting step. *)
LEMMA CollectStep ==
  ASSUME ParserInv, ~CutStrings, NEW b, NEW last \in BOOLEAN, Collect(b, last)
  PROVE  /\ in_escape /\ in_bracket /\ utf8_remaining = 0 /\ ahead = "none"
         /\ UNCHANGED <<in_escape, in_bracket, utf8_remaining, ahead>> /\ op' = Stream!None
         /\ ModeNow = "csi" /\ ModeNow' = ModeNow
  BY NoCut DEF Collect, ParserInv, TypeOK, OneOpen, ModeNow, Nothing

(* A digit of the open parameter. *)
LEMMA DigitStep ==
  ASSUME ParserAssumption, BytesAssumption, ParserInv, ~CutStrings,
         NEW b \in Stream!Bytes, NEW last \in BOOLEAN,
         Digit(b, last)
  PROVE  ParserInv' /\ Stream!Byte(b)
  <1> DEFINE n == csi_param_count + 1
             value == 10 * csi_params[n] + Stream!DigitValue(b)
  <1>1. /\ in_escape /\ in_bracket /\ utf8_remaining = 0 /\ ahead = "none"
        /\ UNCHANGED <<in_escape, in_bracket, utf8_remaining, ahead>> /\ op' = Stream!None
        /\ ModeNow = "csi" /\ ModeNow' = ModeNow
    BY CollectStep DEF Digit
  <1>2. /\ TypeOK /\ csi_param_count \in Nat /\ csi_private \in BOOLEAN
        /\ csi_parsing_num \in BOOLEAN /\ INT_MAX \in Nat
        /\ csi_params \in [1 .. MAX_CSI_PARAMS -> Stream!Ints] /\ Stream!Ints \subseteq Int
    BY DEF ParserInv, TypeOK, ParserAssumption, Stream!Ints
  <1>3. /\ b \in Digits /\ Stream!DigitValue(b) \in 0 .. 9
        /\ UNCHANGED <<csi_param_count, csi_private>>
    BY DigitIsNat DEF Digit, BytesAssumption
  <1>4. UNCHANGED <<(in_bracket /\ ~InArray), (in_bracket /\ csi_private)>> /\ InArray' = InArray
    BY <1>1, <1>3 DEF InArray
  <1>5. OneOpen'
    BY <1>1 DEF ParserInv, OneOpen
  <1>6. CASE InArray
    <2>1. n \in 1 .. MAX_CSI_PARAMS /\ csi_params[n] \in Stream!Ints
      BY <1>2, <1>6, Stored
    <2>2. csi_parsing_num \/ csi_params[n] = 0
      BY <1>1, <1>2, <2>1 DEF ParserInv, RoomForOpen, Begun, InArray
    <2>3. value \in Int /\ Number(b) = Wrapped(value)
      <3>1. (IF csi_parsing_num THEN csi_params[n] ELSE 0) = csi_params[n]
        BY <2>2
      <3>2. Number(b) = Wrapped(value)
        BY <3>1, Zenon DEF Number
      <3>3. csi_params[n] \in Int
        BY <1>2, <2>1, Zenon
      <3>4. Stream!DigitValue(b) \in Int
        BY <1>3
      <3> HIDE DEF n
      <3> QED BY <3>2, <3>3, <3>4
    <2>4. Number(b) \in Stream!Ints
      BY <2>3, WrappedIsInt
    <2>5. /\ csi_params' = [csi_params EXCEPT ![n] = Number(b)]
          /\ csi_params' \in [1 .. MAX_CSI_PARAMS -> Stream!Ints]
          /\ csi_parsing_num' = TRUE
      BY <1>2, <1>6, <2>4, Stored, Zenon DEF Digit
    <2>6. csi_parsing_num' \in BOOLEAN
      BY <2>5, Zenon
    <2>7. TypeOK'
      BY <1>1, <1>2, <1>3, <2>5, <2>6 DEF TypeOK
    <2>8. RoomForOpen'
      BY <1>1, <1>2, <1>3, <1>4, <1>6, <2>1, <2>5 DEF ParserInv, RoomForOpen, Begun, InArray
    <2>9. ArgsNow = [i \in 1 .. n |-> csi_params[i]] /\ Len(ArgsNow) = n /\ ArgsNow[Len(ArgsNow)] = csi_params[n]
      BY <1>1, <1>6, ArgsAre
    <2>10. ParserInv'
      BY <1>5, <2>7, <2>8 DEF ParserInv
    <2>11. ArgsNow' = [ArgsNow EXCEPT ![Len(ArgsNow)] = Number(b)]
      <3>1. ArgsNow' = SubSeq(csi_params', 1, n)
        BY <1>1, <1>2, <1>3, <1>6, <2>1 DEF ArgsNow, Least, InArray
      <3>2. ArgsNow' = [i \in 1 .. n |-> csi_params'[i]]
        BY <2>1, <2>5, <3>1
      <3>3. \A i \in 1 .. n : csi_params'[i] = IF i = n THEN Number(b) ELSE csi_params[i]
        BY <1>2, <2>1, <2>5
      <3> QED BY <1>2, <2>1, <2>9, <3>2, <3>3
    <2>12. Number(b) \in Stream!Grown(ArgsNow[Len(ArgsNow)], b)
      BY <2>3, <2>4, <2>9 DEF Stream!Grown, Wrapped
    <2>13. Stream!InCsi(b)
      BY <1>1, <1>3, <1>4, <1>6, <2>11, <2>12 DEF Stream!InCsi
    <2> QED BY <1>1, <2>10, <2>13 DEF Stream!Byte
  <1>7. CASE ~InArray
    <2>1. csi_params' = csi_params /\ csi_parsing_num' \in BOOLEAN /\ csi_parsing_num' = csi_parsing_num
      <3>1. csi_params' = csi_params /\ csi_parsing_num' = (csi_parsing_num \/ InArray)
        BY <1>7 DEF Digit
      <3> QED BY <1>2, <1>7, <3>1, Zenon
    <2>2. ParserInv' /\ ArgsNow' = ArgsNow
      BY <1>1, <1>3, <1>4, <1>5, <2>1 DEF ParserInv, TypeOK, RoomForOpen, Begun, InArray, ArgsNow
    <2>3. Stream!InCsi(b)
      BY <1>1, <1>3, <1>4, <1>7, <2>2 DEF Stream!InCsi
    <2> QED BY <1>1, <2>2, <2>3 DEF Stream!Byte
  <1> QED BY <1>6, <1>7

(* The end of a parameter. *)
LEMMA SemicolonStep ==
  ASSUME ParserAssumption, ParserInv, ~CutStrings, NEW b \in Stream!Bytes, NEW last \in BOOLEAN,
         Semicolon(b, last)
  PROVE  ParserInv' /\ Stream!Byte(b)
  <1> DEFINE n == csi_param_count + 1
  <1>1. /\ in_escape /\ in_bracket /\ utf8_remaining = 0 /\ ahead = "none"
        /\ UNCHANGED <<in_escape, in_bracket, utf8_remaining, ahead>> /\ op' = Stream!None
        /\ ModeNow = "csi" /\ ModeNow' = ModeNow
    BY CollectStep DEF Semicolon
  <1>2. /\ TypeOK /\ csi_params \in [1 .. MAX_CSI_PARAMS -> Stream!Ints]
        /\ csi_param_count \in Nat /\ csi_private \in BOOLEAN /\ csi_parsing_num \in BOOLEAN
        /\ MAX_CSI_PARAMS \in Nat \ {0} /\ INT_MAX \in Nat /\ Stream!Ints \subseteq Int
    BY DEF ParserInv, TypeOK, ParserAssumption, Stream!Ints
  <1>3. /\ b = Stream!Semicolon /\ csi_param_count' = n
        /\ csi_parsing_num' = FALSE /\ csi_private' = csi_private
    BY DEF Semicolon
  <1>4. csi_params' = csi_params
    <2>1. csi_params' = IF ~csi_parsing_num /\ InArray THEN Store(0) ELSE csi_params
      BY DEF Semicolon
    <2>2. CASE ~csi_parsing_num /\ InArray
      <3>1. Store(0) = [csi_params EXCEPT ![n] = 0] /\ n \in 1 .. MAX_CSI_PARAMS
        BY <1>2, <2>2, Stored
      <3>2. csi_params[n] = 0
        BY <1>1, <1>2, <2>2, <3>1 DEF ParserInv, RoomForOpen, Begun, InArray
      <3> QED BY <1>2, <2>1, <2>2, <3>1, <3>2
    <2> QED BY <2>1, <2>2
  <1>5. \A i \in 1 .. MAX_CSI_PARAMS : i > n => csi_params[i] = 0
    BY <1>1, <1>2 DEF ParserInv, RoomForOpen, Begun, InArray
  <1>6. ParserInv'
    <2>1. csi_parsing_num' \in BOOLEAN
      BY <1>3, Zenon
    <2>2. TypeOK'
      BY <1>1, <1>2, <1>3, <1>4, <2>1 DEF TypeOK
    <2>3. OneOpen' /\ RoomForOpen'
      BY <1>1, <1>2, <1>3, <1>4, <1>5 DEF ParserInv, OneOpen, RoomForOpen, Begun, InArray
    <2> QED BY <2>2, <2>3 DEF ParserInv
  <1>7. CASE n < MAX_CSI_PARAMS
    <2>1. InArray /\ InArray' /\ n \in 1 .. MAX_CSI_PARAMS /\ n + 1 \in 1 .. MAX_CSI_PARAMS
      BY <1>2, <1>3, <1>7 DEF InArray
    <2>2. ArgsNow = [i \in 1 .. n |-> csi_params[i]] /\ Len(ArgsNow) = n
      BY <1>1, <2>1, ArgsAre
    <2>3. ArgsNow' = Append(ArgsNow, 0)
      <3>1. ArgsNow' = SubSeq(csi_params, 1, n + 1)
        BY <1>1, <1>2, <1>3, <1>4, <1>7 DEF ArgsNow, Least
      <3>2. ArgsNow' = [i \in 1 .. n + 1 |-> csi_params[i]]
        BY <1>2, <2>1, <3>1
      <3>3. csi_params[n + 1] = 0
        BY <1>2, <1>5, <2>1
      <3>4. ArgsNow \in Seq(Int)
        <4>1. ASSUME NEW i \in 1 .. n PROVE csi_params[i] \in Int
          <5>1. i \in 1 .. MAX_CSI_PARAMS
            BY <1>2, <2>1
          <5> QED BY <1>2, <5>1, Zenon
        <4>2. ArgsNow \in [1 .. n -> Int] /\ n \in Nat
          BY <1>2, <2>2, <4>1
        <4> QED BY <4>2
      <3> QED BY <1>2, <2>1, <2>2, <3>2, <3>3, <3>4
    <2>4. Stream!InCsi(b)
      BY <1>1, <1>3, <1>7, <2>1, <2>2, <2>3 DEF Stream!InCsi
    <2> QED BY <1>1, <1>6, <2>4 DEF Stream!Byte
  <1>8. CASE n >= MAX_CSI_PARAMS
    <2>1. /\ ~InArray' /\ Least(n, MAX_CSI_PARAMS) = MAX_CSI_PARAMS
          /\ Least(n + 1, MAX_CSI_PARAMS) = MAX_CSI_PARAMS
      BY <1>2, <1>3, <1>8 DEF InArray, Least
    <2>2. ArgsNow' = ArgsNow /\ Len(ArgsNow) = MAX_CSI_PARAMS
      BY <1>1, <1>3, <1>4, <2>1, ArgsAre DEF ArgsNow
    <2>3. Stream!InCsi(b)
      BY <1>1, <1>3, <2>1, <2>2 DEF Stream!InCsi
    <2> QED BY <1>1, <1>6, <2>3 DEF Stream!Byte
  <1> QED BY <1>2, <1>7, <1>8

(* A prefix, or a byte without meaning there. *)
LEMMA OtherStep ==
  ASSUME ParserAssumption, ParserInv, ~CutStrings, NEW b \in Stream!Bytes, NEW last \in BOOLEAN,
         Question(b, last) \/ Ignored(b, last)
  PROVE  ParserInv' /\ Stream!Byte(b)
  <1>1. /\ in_escape /\ in_bracket /\ utf8_remaining = 0 /\ ahead = "none"
        /\ UNCHANGED <<in_escape, in_bracket, utf8_remaining, ahead>> /\ op' = Stream!None
        /\ ModeNow = "csi" /\ ModeNow' = ModeNow
    BY CollectStep DEF Question, Ignored
  <1>2. UNCHANGED <<csi_params, csi_param_count, csi_parsing_num>> /\ csi_private' \in BOOLEAN
    <2>1. UNCHANGED <<csi_params, csi_param_count, csi_parsing_num>>
      BY DEF Question, Ignored, csi
    <2>2. csi_private' = TRUE \/ csi_private' = csi_private
      BY DEF Question, Ignored, csi
    <2> QED BY <2>1, <2>2, Zenon DEF ParserInv, TypeOK
  <1>3. ParserInv' /\ ArgsNow' = ArgsNow
    BY <1>1, <1>2 DEF ParserInv, TypeOK, OneOpen, RoomForOpen, Begun, InArray, ArgsNow
  <1>4. Stream!InCsi(b)
    <2>1. UNCHANGED (in_bracket /\ ~InArray)
      BY <1>1, <1>2 DEF InArray
    <2>2. CASE Question(b, last)
      <3>1. b = Stream!Question /\ csi_private' = TRUE
        BY <2>2 DEF Question
      <3>2. (in_bracket /\ csi_private)' = TRUE
        BY <1>1, <3>1
      <3> QED BY <1>1, <1>3, <2>1, <3>1, <3>2 DEF Stream!InCsi
    <2>3. CASE Ignored(b, last)
      <3>1. b \notin Finals \cup Digits \cup {Stream!Semicolon, Stream!Question} /\ csi_private' = csi_private
        BY <2>3 DEF Ignored, csi
      <3>2. UNCHANGED (in_bracket /\ csi_private)
        BY <1>1, <3>1
      <3> QED BY <1>1, <1>3, <2>1, <3>1, <3>2 DEF Stream!InCsi
    <2> QED BY <2>2, <2>3
  <1> QED BY <1>1, <1>3, <1>4 DEF Stream!Byte

(* The last byte of a sequence. *)
LEMMA FinalStep ==
  ASSUME ParserAssumption, ParserInv, ~CutStrings, NEW b \in Stream!Bytes,
         NEW last \in BOOLEAN, Final(b, last)
  PROVE  ParserInv' /\ Stream!Byte(b)
  <1> DEFINE n == Least(csi_param_count + 1, MAX_CSI_PARAMS)
             m == Least(csi_param_count', MAX_CSI_PARAMS)
  <1>1. /\ in_escape /\ in_bracket /\ b \in Finals /\ utf8_remaining = 0 /\ ahead = "none"
        /\ in_escape' = FALSE /\ in_bracket' = FALSE /\ ahead' = "none"
        /\ csi_param_count' = (IF csi_parsing_num /\ InArray THEN csi_param_count + 1 ELSE csi_param_count)
        /\ op' = Handled(b, csi_param_count')
        /\ UNCHANGED <<csi_params, csi_parsing_num, csi_private, utf8_remaining>>
    BY NoCut DEF Final, ParserInv, TypeOK, OneOpen
  <1>2. /\ csi_params \in [1 .. MAX_CSI_PARAMS -> Stream!Ints]
        /\ csi_param_count \in Nat /\ csi_private \in BOOLEAN /\ csi_parsing_num \in BOOLEAN
        /\ MAX_CSI_PARAMS \in Nat \ {0}
    BY DEF ParserInv, TypeOK, ParserAssumption
  <1>3. /\ ArgsNow = [i \in 1 .. n |-> csi_params[i]] /\ Len(ArgsNow) = n /\ n \in 1 .. MAX_CSI_PARAMS
        /\ n = IF InArray THEN csi_param_count + 1 ELSE MAX_CSI_PARAMS
    BY <1>1, ArgsAre
  <1>4. ParserInv'
    <2>1. in_escape' \in BOOLEAN /\ in_bracket' \in BOOLEAN
      BY <1>1, Zenon
    <2>2. csi_param_count' \in Nat
      BY <1>1, <1>2
    <2>3. TypeOK'
      BY <1>1, <1>2, <2>1, <2>2 DEF ParserInv, TypeOK
    <2>4. OneOpen' /\ RoomForOpen'
      BY <1>1 DEF OneOpen, RoomForOpen
    <2> QED BY <2>3, <2>4 DEF ParserInv
  <1>5. Stream!Csi(b, csi_private, SubSeq(csi_params, 1, m)) = Stream!Csi(b, csi_private, ArgsNow)
    <2> DEFINE counted == SubSeq(csi_params, 1, m)
    <2>1. m \in {n - 1, n} /\ m \in 0 .. MAX_CSI_PARAMS
      BY <1>1, <1>2, <1>3 DEF Least, InArray
    <2>2. m = n \/ csi_params[n] = 0
      <3>1. CASE InArray /\ ~csi_parsing_num
        <4>1. n > Begun
          BY <1>2, <1>3, <3>1 DEF Begun
        <4> QED BY <1>1, <1>3, <4>1 DEF ParserInv, RoomForOpen
      <3>2. CASE InArray /\ csi_parsing_num
        BY <1>1, <1>2, <1>3, <3>2 DEF Least, InArray
      <3>3. CASE ~InArray
        BY <1>1, <1>2, <1>3, <3>3 DEF Least, InArray
      <3> QED BY <3>1, <3>2, <3>3
    <2> HIDE DEF n, m
    <2>3. counted = [i \in 1 .. m |-> csi_params[i]] /\ Len(counted) = m
      <3>1. ASSUME NEW k \in 0 .. MAX_CSI_PARAMS
            PROVE  SubSeq(csi_params, 1, k) = [i \in 1 .. k |-> csi_params[i]] /\ Len(SubSeq(csi_params, 1, k)) = k
        BY <1>2
      <3> QED BY <2>1, <3>1
    <2> HIDE DEF counted
    <2>4. \A i \in 1 .. MAX_CSI_PARAMS :
            (IF i <= Len(counted) THEN counted[i] ELSE 0) = (IF i <= Len(ArgsNow) THEN ArgsNow[i] ELSE 0)
      BY <1>2, <1>3, <2>1, <2>2, <2>3
    <2>5. [i \in 1 .. MAX_CSI_PARAMS |-> IF i <= Len(counted) THEN counted[i] ELSE 0]
          = [i \in 1 .. MAX_CSI_PARAMS |-> IF i <= Len(ArgsNow) THEN ArgsNow[i] ELSE 0]
      BY <2>4
    <2> QED BY <2>5 DEF Stream!Csi, counted
  <1>6. /\ ModeNow = "csi" /\ ModeNow' = "ground" /\ ArgsNow' = << >>
        /\ (in_bracket /\ csi_private)' = FALSE /\ (in_bracket /\ csi_private) = csi_private
        /\ (in_bracket /\ ~InArray)' = FALSE /\ (in_bracket /\ ~InArray) = ~InArray
    BY <1>1, <1>2 DEF ModeNow, ArgsNow
  <1>7. \/ op' = Stream!Csi(b, csi_private, ArgsNow)
        \/ ~InArray /\ csi_private /\ b \in Stream!ModeFinals /\ op' = Stream!Foreign(b)
    <2>1. CASE csi_private /\ b \in Stream!ModeFinals /\ csi_param_count' > MAX_CSI_PARAMS
      <3>1. ~InArray
        BY <1>1, <1>2, <2>1 DEF InArray
      <3>2. op' = Stream!Foreign(b)
        BY <1>1, <2>1 DEF Handled
      <3> QED BY <2>1, <3>1, <3>2
    <2>2. CASE ~(csi_private /\ b \in Stream!ModeFinals /\ csi_param_count' > MAX_CSI_PARAMS)
      BY <1>1, <1>5, <2>2 DEF Handled
    <2> QED BY <2>1, <2>2
  <1>8. Stream!To("ground")
    BY <1>1, <1>6 DEF Stream!To, Stream!Outside
  <1>9. Stream!InCsi(b)
    BY <1>1, <1>6, <1>7, <1>8 DEF Stream!InCsi
  <1> QED BY <1>4, <1>6, <1>9 DEF Stream!Byte

-----------------------------------------------------------------------------
(* The parser starts as the stream does. *)
LEMMA ParserStarts == ASSUME ParserAssumption, Init PROVE ParserInv /\ Stream!Init
  <1>1. Zeros \in [1 .. MAX_CSI_PARAMS -> Stream!Ints]
    BY DEF Zeros, ParserAssumption, Stream!Ints
  <1>2. /\ in_escape \in BOOLEAN /\ in_bracket \in BOOLEAN
        /\ csi_parsing_num \in BOOLEAN /\ csi_private \in BOOLEAN
    BY Zenon DEF Init
  <1>3. TypeOK
    BY <1>1, <1>2 DEF Init, TypeOK
  <1>4. OneOpen /\ RoomForOpen
    BY DEF Init, OneOpen, RoomForOpen
  <1>5. Stream!Init
    BY DEF Init, Stream!Init, ModeNow, ArgsNow, Nothing
  <1> QED BY <1>3, <1>4, <1>5 DEF ParserInv

(* Every byte means what the stream says it means. *)
LEMMA ParserSteps ==
  ASSUME ParserAssumption, BytesAssumption, ~CutStrings, ParserInv, [Next]_vars
  PROVE  ParserInv' /\ [Stream!Next]_(Stream!vars)
  <1>1. ASSUME NEW b \in Stream!Bytes, NEW last \in BOOLEAN, Stream!Reads(b), Byte(b, last)
        PROVE  ParserInv' /\ Stream!Next
    <2>1. ParserInv' /\ Stream!Byte(b)
      BY <1>1, SwallowStep, ContinuationStep, GroundStep, EscapeStep, DigitStep, SemicolonStep, OtherStep,
         FinalStep
         DEF Byte
    <2> QED BY <1>1, <2>1 DEF Stream!Next
  <1>2. CASE UNCHANGED vars
    <2>1. ParserInv'
      BY <1>2 DEF vars, csi, ParserInv, TypeOK, OneOpen, RoomForOpen, Begun, InArray
    <2>2. UNCHANGED Stream!vars
      BY <1>2 DEF vars, csi, Stream!vars, ModeNow, ArgsNow, InArray
    <2> QED BY <2>1, <2>2
  <1> QED BY <1>1, <1>2 DEF Next

-----------------------------------------------------------------------------
(* The parser keeps its types, wherever the chunks are cut. *)
LEMMA TypesKept ==
  ASSUME ParserAssumption, BytesAssumption, TypeOK, [Next]_vars
  PROVE  TypeOK'
  <1>1. ASSUME NEW b \in Stream!Bytes, NEW last \in BOOLEAN, Byte(b, last) PROVE TypeOK'
    <2>1. CASE Swallow(b, last)
      <3>1. ahead' \in {"none", "osc", "osc_esc", "charset"}
        BY <2>1 DEF Swallow, Step, AfterOsc
      <3> QED BY <2>1, <3>1 DEF Swallow, TypeOK, csi
    <2>2. CASE Continuation(b, last)
      <3>1. utf8_remaining' \in 0 .. 3 /\ ahead' = "none"
        BY <2>2 DEF Continuation, Step, TypeOK
      <3> QED BY <2>2, <3>1 DEF Continuation, TypeOK, csi
    <2>3. CASE Ground(b, last)
      <3>1. in_escape' \in BOOLEAN /\ in_bracket' = FALSE
        <4>1. in_escape' = (b = Stream!ESC) /\ in_bracket' = FALSE
          BY <2>3 DEF Ground
        <4> QED BY <4>1, Zenon
      <3>2. utf8_remaining' \in 0 .. 3 /\ ahead' = "none"
        BY <2>3, FollowIs DEF Ground, Step
      <3> QED BY <2>3, <3>1, <3>2 DEF Ground, TypeOK, csi
    <2>4. CASE OpenCsi(b, last)
      <3>1. Zeros \in [1 .. MAX_CSI_PARAMS -> Stream!Ints]
        BY DEF Zeros, ParserAssumption, Stream!Ints
      <3>2. in_escape' /\ in_escape' = in_escape /\ in_bracket' = TRUE /\ ahead' = "none"
        BY <2>4 DEF OpenCsi, Escaped, Step
      <3> QED BY <2>4, <3>1, <3>2 DEF OpenCsi, TypeOK
    <2>5. CASE OpenString(b, last) \/ EscapeFunction(b, last)
      <3>1. ahead' \in {"none", "osc", "charset"} /\ ~in_bracket /\ in_bracket' = in_bracket
        BY <2>5 DEF OpenString, EscapeFunction, Escaped, Step
      <3>2. in_escape' \in BOOLEAN
        BY <2>5, Zenon DEF OpenString, EscapeFunction
      <3> QED BY <2>5, <3>1, <3>2 DEF OpenString, EscapeFunction, TypeOK, csi
    <2>6. CASE Digit(b, last)
      <3>1. b \in Digits /\ csi_params' = IF InArray THEN Store(Number(b)) ELSE csi_params
        BY <2>6 DEF Digit
      <3>2. InArray => Number(b) \in Stream!Ints
        <4> DEFINE old == IF csi_parsing_num THEN csi_params[csi_param_count + 1] ELSE 0
        <4>1. InArray => old \in Int
          BY Stored DEF TypeOK, Stream!Ints
        <4>2. Stream!DigitValue(b) \in Int
          BY <3>1, DigitIsNat
        <4>3. InArray => 10 * old + Stream!DigitValue(b) \in Int
          BY <4>1, <4>2
        <4> QED BY <4>3, WrappedIsInt DEF Number
      <3>3. csi_params' \in [1 .. MAX_CSI_PARAMS -> Stream!Ints]
        BY <3>1, <3>2, Stored DEF TypeOK
      <3>4. ahead' = "none" /\ csi_parsing_num' \in BOOLEAN
        BY <2>6, Zenon DEF Digit, Collect, Step
      <3> QED BY <2>6, <3>3, <3>4 DEF Digit, Collect, TypeOK
    <2>7. CASE Semicolon(b, last)
      <3>1. ahead' = "none" /\ csi_parsing_num' \in BOOLEAN
        BY <2>7, Zenon DEF Semicolon, Collect, Step
      <3>2. csi_param_count' \in Nat
        BY <2>7 DEF Semicolon, TypeOK
      <3>3. csi_params' \in [1 .. MAX_CSI_PARAMS -> Stream!Ints]
        <4>1. 0 \in Stream!Ints
          BY DEF Stream!Ints, ParserAssumption
        <4> QED BY <2>7, <4>1, Stored DEF Semicolon, TypeOK
      <3> QED BY <2>7, <3>1, <3>2, <3>3 DEF Semicolon, Collect, TypeOK
    <2>8. CASE Question(b, last) \/ Ignored(b, last)
      <3>1. ahead' = "none"
        BY <2>8 DEF Question, Ignored, Collect, Step
      <3>2. csi_private' \in BOOLEAN
        BY <2>8, Zenon DEF Question, Ignored, csi, TypeOK
      <3> QED BY <2>8, <3>1, <3>2 DEF Question, Ignored, Collect, TypeOK, csi
    <2>9. CASE Final(b, last)
      <3>1. in_escape' = FALSE /\ in_bracket' = FALSE /\ ahead' = "none"
        BY <2>9 DEF Final, Step
      <3>2. csi_param_count' \in Nat
        BY <2>9 DEF Final, TypeOK
      <3>3. in_escape' \in BOOLEAN /\ in_bracket' \in BOOLEAN
        BY <3>1, Zenon
      <3> QED BY <2>9, <3>1, <3>2, <3>3 DEF Final, TypeOK
    <2> QED BY <1>1, <2>1, <2>2, <2>3, <2>4, <2>5, <2>6, <2>7, <2>8, <2>9 DEF Byte
  <1>2. CASE UNCHANGED vars
    BY <1>2 DEF vars, csi, TypeOK
  <1> QED BY <1>1, <1>2 DEF Next

(* Every parameter terminalAppendOutput writes is an element of csi_params and an int,
   however many digits and separators a sequence has: the count goes on past the array,
   and a value past the range of int wraps. *)
THEOREM Typing == Spec => []TypeOK
  <1>1. Init => TypeOK
    BY ParserStarts, ParserAssumption, BytesAssumption DEF ParserInv
  <1>2. TypeOK /\ [Next]_vars => TypeOK'
    BY TypesKept, ParserAssumption, BytesAssumption
  <1> QED BY <1>1, <1>2, PTL DEF Spec

(* The parser implements VtStream: as long as no chunk ends inside an OSC string
   or a designator, each byte terminalAppendOutput reads makes the abstract
   parser's step, so what reaches the screen does not depend on where
   sshReceiveTask cut the stream. *)
THEOREM Parsed == ASSUME ~CutStrings PROVE Spec => StreamParsed
  <1>1. Init => ParserInv /\ Stream!Init
    BY ParserStarts, ParserAssumption, BytesAssumption
  <1>2. ParserInv /\ [Next]_vars => ParserInv' /\ [Stream!Next]_(Stream!vars)
    BY ParserSteps, ParserAssumption, BytesAssumption
  <1> QED BY <1>1, <1>2, PTL DEF Spec, StreamParsed, Stream!Spec
=============================================================================
