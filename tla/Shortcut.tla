------------------------------ MODULE Shortcut ------------------------------
(***************************************************************************)
(* Who may start a transfer, and shortcut scripts.  loop() and the task of *)
(* a running shortcut both start uploads and downloads, after tests of two *)
(* flags nobody locks; a transfer task clears its flag when it ends, and a *)
(* shortcut's wait step looks at the flag.                                 *)
(***************************************************************************)
EXTENDS Naturals, Sequences, FiniteSets

CONSTANTS
  Transfers,           \* bound: transfer tasks alive at a time
  None,
  SHORTCUT_MAX_STEPS,  \* longer scripts are refused
  MaxCommands          \* bound: commands typed

Kinds == {"upload", "download"}
Starters == {"loop", "shortcut"}

\* "cmd ..." passes through executeCommand, which drops the result of the
\* start; "other" is remote, exec, wait <ms> or another command.
StepsOf(prefix) == {<<prefix, k>> : k \in Kinds}
Steps == StepsOf("start") \cup StepsOf("wait") \cup StepsOf("cmd") \cup {<<"other", None>>}
Scripts == UNION {[1 .. n -> Steps] : n \in 0 .. SHORTCUT_MAX_STEPS}

ShortcutAssumption ==
  /\ None \notin [kind : Kinds, by : Starters, begun : BOOLEAN]
  /\ SHORTCUT_MAX_STEPS \in Nat /\ MaxCommands \in Nat

VARIABLES
  running,           \* upload_running, download_running
  transfer,          \* the transfer tasks
  pc, asked,         \* where each starter is, and what it is starting
  shortcut_running,
  steps, i,          \* the script and its step, from 1
  raced,             \* ghost: two starts were in progress at a time
  commands           \* bound counter

vars == <<running, transfer, pc, asked, shortcut_running, steps, i, raced, commands>>
script == <<shortcut_running, steps, i>>

StartPc == {"other", "own", "mark", "create"}

TypeOK ==
  /\ running \in [Kinds -> BOOLEAN]
  /\ transfer \in [Transfers -> [kind : Kinds, by : Starters, begun : BOOLEAN] \cup {None}]
  /\ pc \in [Starters -> StartPc \cup {"idle", "load", "step"}]
  /\ pc["loop"] \notin {"load", "step"}
  /\ asked \in [Starters -> Kinds]
  /\ shortcut_running = (pc["shortcut"] # "idle")
  /\ steps \in Scripts
  /\ i \in 1 .. Len(steps) \/ i = 1
  /\ raced \in BOOLEAN /\ commands \in 0 .. MaxCommands

Init ==
  /\ running = [k \in Kinds |-> FALSE]
  /\ transfer = [t \in Transfers |-> None]
  /\ pc = [s \in Starters |-> "idle"] /\ asked = [s \in Starters |-> "upload"]
  /\ shortcut_running = FALSE /\ steps = << >> /\ i = 1
  /\ raced = FALSE /\ commands = 0

Goto(s, at) == pc' = [pc EXCEPT ![s] = at]

-----------------------------------------------------------------------------
(* The end of a step.                                                      *)

\* Forgotten with the task: the script, for the next one.
Stop ==
  /\ Goto("shortcut", "idle")
  /\ shortcut_running' = FALSE /\ steps' = << >> /\ i' = 1

\* Mutant: one step too many.
ProceedPastEnd ==
  /\ i <= Len(steps)
  /\ i' = i + 1 /\ Goto("shortcut", "step")
  /\ UNCHANGED <<shortcut_running, steps>>

Proceed ==
  IF i = Len(steps) THEN Stop
  ELSE i' = i + 1 /\ Goto("shortcut", "step") /\ UNCHANGED <<shortcut_running, steps>>

\* A start returned: loop() only shows the result, a shortcut stops when the
\* start was its own and failed.
Returns(s, ok) ==
  IF s = "loop" THEN Goto(s, "idle") /\ UNCHANGED script
  ELSE IF ok \/ steps[i][1] = "cmd" THEN Proceed ELSE Stop

-----------------------------------------------------------------------------
(* startUploadTransfer, startDownloadTransfer.                             *)

Starting(s) == pc[s] \in StartPc
Other(k) == CHOOSE x \in Kinds : x # k

\* s begins to start a transfer of kind k.
Ask(s, k) ==
  /\ asked' = [asked EXCEPT ![s] = k]
  /\ raced' = (raced \/ \E x \in Starters \ {s} : Starting(x))
  /\ Goto(s, "other")

\* The other kind's flag is tested first,
TestOther(s) ==
  /\ pc[s] = "other"
  /\ IF running[Other(asked[s])] THEN Returns(s, FALSE)
     ELSE Goto(s, "own") /\ UNCHANGED script
  /\ UNCHANGED <<running, transfer, asked, raced, commands>>

\* Mutant: the flag of the kind itself is not tested.
TestOwnNot(s) ==
  /\ pc[s] = "own"
  /\ Goto(s, "mark") /\ UNCHANGED script
  /\ UNCHANGED <<running, transfer, asked, raced, commands>>

\* then the kind's own.
TestOwn(s) ==
  /\ pc[s] = "own"
  /\ IF running[asked[s]] THEN Returns(s, FALSE)
     ELSE Goto(s, "mark") /\ UNCHANGED script
  /\ UNCHANGED <<running, transfer, asked, raced, commands>>

\* Mutant: the flag is left to the task.
MarkNot(s) ==
  /\ pc[s] = "mark"
  /\ Goto(s, "create")
  /\ UNCHANGED <<running, transfer, asked, script, raced, commands>>

\* The flag is set before the task exists.
Mark(s) ==
  /\ pc[s] = "mark"
  /\ running' = [running EXCEPT ![asked[s]] = TRUE]
  /\ Goto(s, "create")
  /\ UNCHANGED <<transfer, asked, script, raced, commands>>

Create(s) ==
  /\ pc[s] = "create"
  /\ \E t \in Transfers :
       /\ transfer[t] = None
       /\ transfer' = [transfer EXCEPT ![t] = [kind |-> asked[s], by |-> s, begun |-> FALSE]]
  /\ Returns(s, TRUE)
  /\ UNCHANGED <<running, asked, raced, commands>>

\* No memory for the task.
CreateFails(s) ==
  /\ pc[s] = "create"
  /\ running' = [running EXCEPT ![asked[s]] = FALSE]
  /\ Returns(s, FALSE)
  /\ UNCHANGED <<transfer, asked, raced, commands>>

Start(s) == TestOther(s) \/ TestOwn(s) \/ Mark(s) \/ Create(s) \/ CreateFails(s)

-----------------------------------------------------------------------------
(* uploadTask, downloadTask: the flag is set once more, and cleared last.  *)

Begin(t) ==
  /\ transfer[t] # None /\ ~transfer[t].begun
  /\ transfer' = [transfer EXCEPT ![t].begun = TRUE]
  /\ running' = [running EXCEPT ![transfer[t].kind] = TRUE]
  /\ UNCHANGED <<pc, asked, script, raced, commands>>

\* Done or failed: nobody is told.
End(t) ==
  /\ transfer[t] # None /\ transfer[t].begun
  /\ transfer' = [transfer EXCEPT ![t] = None]
  /\ running' = [running EXCEPT ![transfer[t].kind] = FALSE]
  /\ UNCHANGED <<pc, asked, script, raced, commands>>

-----------------------------------------------------------------------------
(* loop(): the upload and download commands, and a script's name.          *)

UserTransfer(k) ==
  /\ pc["loop"] = "idle" /\ commands < MaxCommands
  /\ commands' = commands + 1
  /\ Ask("loop", k)
  /\ UNCHANGED <<running, transfer, script>>

\* startShortcutByName: only loop() starts shortcuts.
startShortcutByName ==
  /\ pc["loop"] = "idle" /\ commands < MaxCommands
  /\ ~shortcut_running
  /\ commands' = commands + 1
  /\ shortcut_running' = TRUE
  /\ Goto("shortcut", "load")
  /\ UNCHANGED <<running, transfer, asked, steps, i, raced>>

-----------------------------------------------------------------------------
(* shortcutTask.                                                           *)

\* The script is read once; the file says what it says now.
loadShortcutSteps ==
  /\ pc["shortcut"] = "load"
  /\ steps' \in Scripts \ {<< >>} /\ i' = 1
  /\ Goto("shortcut", "step")
  /\ UNCHANGED <<running, transfer, asked, shortcut_running, raced, commands>>

\* It is missing, empty, or has a line or a step too many.
LoadFails ==
  /\ pc["shortcut"] = "load"
  /\ Stop
  /\ UNCHANGED <<running, transfer, asked, raced, commands>>

Step(kind) == pc["shortcut"] = "step" /\ steps[i][1] = kind

StepStart ==
  /\ Step("start") \/ Step("cmd")
  /\ Ask("shortcut", steps[i][2])
  /\ UNCHANGED <<running, transfer, script, commands>>

\* shortcutWaitForFlagClear.
WaitClear(k) ==
  /\ Step("wait") /\ steps[i][2] = k
  /\ ~running[k]
  /\ Proceed
  /\ UNCHANGED <<running, transfer, asked, raced, commands>>

\* Mutant: the wait has no timeout.
WaitNeverTimesOut(k) == FALSE /\ WaitClear(k)

\* SHORTCUT_WAIT_TIMEOUT_MS have passed.
WaitTimesOut(k) ==
  /\ Step("wait") /\ steps[i][2] = k
  /\ running[k]
  /\ Stop
  /\ UNCHANGED <<running, transfer, asked, raced, commands>>

StepOther ==
  /\ Step("other")
  /\ Proceed \/ Stop
  /\ UNCHANGED <<running, transfer, asked, raced, commands>>

shortcutTask ==
  \/ loadShortcutSteps \/ LoadFails \/ StepStart \/ StepOther
  \/ \E k \in Kinds : WaitClear(k) \/ WaitTimesOut(k)
  \/ Start("shortcut")

-----------------------------------------------------------------------------
Next ==
  \/ \E k \in Kinds : UserTransfer(k)
  \/ startShortcutByName
  \/ Start("loop")
  \/ \E t \in Transfers : Begin(t) \/ End(t)
  \/ shortcutTask

Spec == Init /\ [][Next]_vars

\* The shortcut's task is scheduled; a transfer may hang and the user owes nothing.
FairSpec == Spec /\ WF_vars(shortcutTask)

-----------------------------------------------------------------------------
(* Properties.                                                             *)

Alive(k) == {t \in Transfers : transfer[t] # None /\ transfer[t].kind = k}
BeingStarted(k) == \E s \in Starters : pc[s] = "create" /\ asked[s] = k

\* The flags tell the truth, and one transfer runs at a time, as long as loop()
\* and a shortcut never started transfers at the same moment: the tests and the
\* assignment of startUploadTransfer are no atomic step.
FlagsHonest ==
  ~raced => /\ \A k \in Kinds : running[k] <=> (Alive(k) # {} \/ BeingStarted(k))
            /\ Cardinality(Alive("upload") \cup Alive("download")) <= 1

\* A wait step that passes finds no transfer of that kind the shortcut started,
\* under the same condition: the flag is up before the task is scheduled, and the
\* task that clears it is the one that was waited for.
WaitedIsOver ==
  [][\A k \in Kinds : WaitClear(k) /\ ~raced =>
       \A t \in Alive(k) : transfer[t].by # "shortcut"]_vars

\* A shortcut ends, also when the transfer it waits for hangs or its flag was
\* left set: every wait has an end.
ShortcutEnds == shortcut_running ~> ~shortcut_running

=============================================================================
