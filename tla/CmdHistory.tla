----------------------------- MODULE CmdHistory -----------------------------
(***************************************************************************)
(* The command prompt's line and its history: a bounded list of the lines  *)
(* entered, browsed with the up and down arrows, with the line that was    *)
(* being typed put aside meanwhile.                                        *)
(***************************************************************************)
EXTENDS Integers, SequencesExt

CONSTANTS
  Commands,         \* lines with a command
  Blanks,           \* lines of blanks
  Empty,            \* the empty line, one of Blanks
  CMD_HISTORY_CAP,
  MaxEntered        \* bound: lines entered

HistoryAssumption ==
  /\ Commands \cap Blanks = {} /\ Empty \in Blanks
  /\ CMD_HISTORY_CAP \in Nat \ {0} /\ MaxEntered \in Nat

VARIABLES
  cmd_buf, cmd_history,
  cmd_history_nav,    \* as in the source: -1, or a place from 0
  cmd_history_draft,
  in_prompt,          \* app_mode = MODE_COMMAND
  entered             \* ghost: the lines entered so far

vars == <<cmd_buf, cmd_history, cmd_history_nav, cmd_history_draft, in_prompt, entered>>

Lines == Commands \cup Blanks
cmd_history_count == Len(cmd_history)

TypeOK ==
  /\ cmd_buf \in Lines /\ cmd_history_draft \in Lines
  /\ cmd_history \in Seq(Commands) /\ cmd_history_count <= CMD_HISTORY_CAP
  /\ cmd_history_nav \in -1 .. cmd_history_count - 1
  /\ in_prompt \in BOOLEAN
  /\ entered \in Seq(Lines) /\ Len(entered) <= MaxEntered

Init ==
  /\ cmd_buf = Empty /\ cmd_history = << >>
  /\ cmd_history_nav = -1 /\ cmd_history_draft = Empty
  /\ in_prompt = FALSE /\ entered = << >>

ResetBrowse == cmd_history_nav' = -1 /\ cmd_history_draft' = Empty

\* A tap of MIC.
OpenPrompt ==
  /\ ~in_prompt /\ in_prompt' = TRUE
  /\ cmd_buf' = Empty /\ ResetBrowse
  /\ UNCHANGED <<cmd_history, entered>>

\* MIC in the prompt, or a command that opens something else.
Leave ==
  /\ in_prompt /\ in_prompt' = FALSE
  /\ UNCHANGED <<cmd_buf, cmd_history, cmd_history_nav, cmd_history_draft, entered>>

\* Letters and backspaces, also in a line brought up from the history.
Type(line) ==
  /\ in_prompt /\ cmd_buf' = line
  /\ UNCHANGED <<cmd_history, cmd_history_nav, cmd_history_draft, in_prompt, entered>>

\* Mutant: the oldest line is dropped a line too early.
AddedEarly(line) ==
  IF line \in Blanks \/ (cmd_history # << >> /\ Last(cmd_history) = line) THEN cmd_history
  ELSE IF cmd_history_count < CMD_HISTORY_CAP - 1 THEN Append(cmd_history, line)
  ELSE Append(IF cmd_history = << >> THEN << >> ELSE Tail(cmd_history), line)

\* cmdHistoryAddLocked.
Added(line) ==
  IF line \in Blanks \/ (cmd_history # << >> /\ Last(cmd_history) = line) THEN cmd_history
  ELSE IF cmd_history_count < CMD_HISTORY_CAP THEN Append(cmd_history, line)
  ELSE Append(Tail(cmd_history), line)

\* Enter; a blank line ends no browsing.
Enter ==
  /\ in_prompt /\ Len(entered) < MaxEntered
  /\ cmd_history' = Added(cmd_buf)
  /\ IF cmd_buf \in Blanks THEN UNCHANGED <<cmd_history_nav, cmd_history_draft>> ELSE ResetBrowse
  /\ cmd_buf' = Empty
  /\ entered' = Append(entered, cmd_buf)
  /\ UNCHANGED in_prompt

\* cmdHistoryBrowseLocked(-1): the touch arrow up.
Older ==
  /\ in_prompt /\ cmd_history # << >> /\ cmd_history_nav # 0
  /\ IF cmd_history_nav < 0
     THEN cmd_history_draft' = cmd_buf /\ cmd_history_nav' = cmd_history_count - 1
     ELSE UNCHANGED cmd_history_draft /\ cmd_history_nav' = cmd_history_nav - 1
  /\ cmd_buf' = cmd_history[cmd_history_nav' + 1]
  /\ UNCHANGED <<cmd_history, in_prompt, entered>>

\* Mutant: the newest line is followed by one more.
NewerPastEnd ==
  /\ in_prompt /\ cmd_history # << >> /\ cmd_history_nav >= 0
  /\ IF cmd_history_nav < cmd_history_count
     THEN cmd_history_nav' = cmd_history_nav + 1 /\ UNCHANGED cmd_buf
     ELSE cmd_history_nav' = -1 /\ cmd_buf' = cmd_history_draft
  /\ UNCHANGED <<cmd_history, cmd_history_draft, in_prompt, entered>>

\* cmdHistoryBrowseLocked(1): the arrow down, at last back to the line put aside.
Newer ==
  /\ in_prompt /\ cmd_history # << >> /\ cmd_history_nav >= 0
  /\ IF cmd_history_nav < cmd_history_count - 1
     THEN /\ cmd_history_nav' = cmd_history_nav + 1
          /\ cmd_buf' = cmd_history[cmd_history_nav' + 1]
     ELSE cmd_history_nav' = -1 /\ cmd_buf' = cmd_history_draft
  /\ UNCHANGED <<cmd_history, cmd_history_draft, in_prompt, entered>>

Next ==
  \/ OpenPrompt \/ Leave \/ Enter \/ Older \/ Newer
  \/ \E line \in Lines : Type(line)

Spec == Init /\ [][Next]_vars

-----------------------------------------------------------------------------
(* Properties.                                                             *)

\* The reference: the commands entered, one for each run of equal ones, the last
\* CMD_HISTORY_CAP of them.
Repeats(kept, line) == kept # << >> /\ Last(kept) = line
Distinct(s) ==
  LET kept[k \in 0 .. Len(s)] ==
        IF k = 0 THEN << >>
        ELSE IF s[k] \notin Commands \/ Repeats(kept[k - 1], s[k]) THEN kept[k - 1]
        ELSE Append(kept[k - 1], s[k])
  IN  kept[Len(s)]
Recent(s) == SubSeq(s, IF Len(s) > CMD_HISTORY_CAP THEN Len(s) - CMD_HISTORY_CAP + 1 ELSE 1, Len(s))

\* The history holds the most recent commands in their order, whatever was browsed,
\* edited or left blank in between, and browsing stays inside it.
HistoryIsRecent ==
  /\ cmd_history = Recent(Distinct(entered))
  /\ cmd_history_nav < cmd_history_count

=============================================================================
