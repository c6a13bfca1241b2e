------------------------------- MODULE SpiBus -------------------------------
(***************************************************************************)
(* The e-ink panel and the SD card share one SPI bus.  The display task    *)
(* (core 0) and the tasks that touch the card share it through two flags,  *)
(* sd_busy and display_idle, and the display reads application state under *)
(* state_mutex.  This module is the handshake: displayTask, sdAcquire,     *)
(* sdRelease, and the callers that take the mutex, the bus, or both.       *)
(***************************************************************************)
EXTENDS Naturals, FiniteSets

CONSTANTS
  Tasks,        \* every task that calls sdAcquire (loop, upload, download, shortcut)
  KeyTasks,     \* the task running loop(): key handlers run under state_mutex
  PickerTasks,  \* tasks whose handler calls sdAcquire while it holds state_mutex
  ModeTasks,    \* tasks that assign app_mode without state_mutex (commands)
  Modes,        \* the AppModes this instance visits
  NoTask,       \* state_mutex when it is free
  DisplayTask,  \* the display task, as an owner of state_mutex
  MaxSessions   \* bound: SD sessions of each task

AllModes == {"MODE_NOTEPAD", "MODE_TERMINAL", "MODE_COMMAND", "MODE_BT"}

ASSUME TasksAssumption ==
  /\ KeyTasks \subseteq Tasks
  /\ PickerTasks \subseteq KeyTasks
  /\ ModeTasks \subseteq Tasks
  /\ NoTask \notin Tasks
  /\ DisplayTask \notin Tasks
  /\ DisplayTask # NoTask
ASSUME ModesAssumption == "MODE_NOTEPAD" \in Modes /\ Modes \subseteq AllModes
ASSUME SessionsAssumption == MaxSessions \in Nat

VARIABLES
  sd_busy, display_idle,                      \* the two bus flags
  state_mutex,                                \* its owner, or NoTask
  app_mode,                                   \* the mode the tasks ask for
  render_requested, term_render_requested,
  poweroff_requested,
  dpc, path, last_mode,                       \* the display task's locals
  pc, back,                                   \* each SD task: where it is, where it returns
  stale,     \* ghost: something visible changed since the last snapshot
  renders,   \* ghost: refreshes begun since sd_busy became TRUE
  sessions   \* bound counter: each task's sdAcquire calls so far

busVars     == <<sd_busy, display_idle>>
requestVars == <<render_requested, term_render_requested, poweroff_requested>>
displayVars == <<dpc, path, last_mode>>
taskVars    == <<pc, back>>
vars == <<busVars, state_mutex, app_mode, requestVars, displayVars, taskVars,
          stale, renders, sessions>>

DisplayPc == {"check", "pick", "mark", "lock", "render", "clear", "off"}
Paths     == {"none", "switch", "terminal", "trackpad", "prompt", "notepad"}
TaskPc    == {"idle", "handler", "opening", "command", "handled", "flag", "result",
              "wait", "sd"}

TypeOK ==
  /\ sd_busy \in BOOLEAN /\ display_idle \in BOOLEAN
  /\ state_mutex \in Tasks \cup {NoTask, DisplayTask}
  /\ app_mode \in Modes /\ last_mode \in Modes
  /\ render_requested \in BOOLEAN
  /\ term_render_requested \in BOOLEAN
  /\ poweroff_requested \in BOOLEAN
  /\ dpc \in DisplayPc /\ path \in Paths
  /\ pc \in [Tasks -> TaskPc]
  /\ back \in [Tasks -> {"idle", "command", "opening"}]
  /\ stale \in BOOLEAN
  /\ renders \in Nat /\ sessions \in [Tasks -> Nat]

(* setup() has created the display task, which first renders the notepad:  *)
(* it takes the mutex before it clears display_idle, as the notepad path.  *)
Init ==
  /\ sd_busy = FALSE /\ display_idle = TRUE
  /\ state_mutex = NoTask
  /\ app_mode = "MODE_NOTEPAD" /\ last_mode = "MODE_NOTEPAD"
  /\ render_requested = FALSE /\ term_render_requested = FALSE
  /\ poweroff_requested = FALSE
  /\ dpc = "lock" /\ path = "notepad"
  /\ pc = [t \in Tasks |-> "idle"] /\ back = [t \in Tasks |-> "idle"]
  /\ stale = TRUE /\ renders = 0 /\ sessions = [t \in Tasks |-> 0]

-----------------------------------------------------------------------------
(* The display task.                                                       *)

CountRender == renders' = IF sd_busy THEN renders + 1 ELSE 0

\* Mutant: the display does not look at sd_busy.
DCheckNoYield ==
  /\ dpc = "check"
  /\ dpc' = "pick"
  /\ UNCHANGED <<busVars, state_mutex, app_mode, requestVars, path, last_mode,
                 taskVars, stale, renders, sessions>>

\* Top of the loop: yield while sd_busy, otherwise go on to pick the work.
DCheck ==
  /\ dpc = "check"
  /\ ~sd_busy
  /\ dpc' = "pick"
  /\ UNCHANGED <<busVars, state_mutex, app_mode, requestVars, path, last_mode,
                 taskVars, stale, renders, sessions>>

\* powerOff(): draws the art and never returns; display_idle stays TRUE.
DPowerOff ==
  /\ dpc = "pick"
  /\ poweroff_requested
  /\ dpc' = "off"
  /\ CountRender
  /\ UNCHANGED <<busVars, state_mutex, app_mode, requestVars, path, last_mode,
                 taskVars, stale, sessions>>

\* Another mode than the one on screen: a full redraw, flags left for later.
DSwitch ==
  /\ dpc = "pick"
  /\ ~poweroff_requested
  /\ app_mode # last_mode
  /\ last_mode' = app_mode
  /\ path' = "switch" /\ dpc' = "mark"
  /\ UNCHANGED <<busVars, state_mutex, app_mode, requestVars, taskVars, stale,
                 renders, sessions>>

SameMode(m) == dpc = "pick" /\ ~poweroff_requested /\ app_mode = last_mode /\ app_mode = m

\* What each mode draws.
LiveScreens == [MODE_TERMINAL |-> "terminal", MODE_BT |-> "trackpad"]
TextScreens == [MODE_COMMAND |-> "prompt", MODE_NOTEPAD |-> "notepad"]

\* Terminal and trackpad answer either flag and clear both before they draw.
DBothFlags(m, p) ==
  /\ SameMode(m)
  /\ render_requested \/ term_render_requested
  /\ render_requested' = FALSE /\ term_render_requested' = FALSE
  /\ path' = p /\ dpc' = "mark"
  /\ UNCHANGED <<busVars, state_mutex, app_mode, poweroff_requested, last_mode,
                 taskVars, stale, renders, sessions>>

\* Prompt and notepad answer render_requested only.  The notepad path takes
\* the mutex first and clears display_idle after it gave the mutex back.
DOneFlag(m, p) ==
  /\ SameMode(m)
  /\ render_requested
  /\ render_requested' = FALSE
  /\ path' = p /\ dpc' = IF p = "notepad" THEN "lock" ELSE "mark"
  /\ UNCHANGED <<busVars, state_mutex, app_mode, term_render_requested,
                 poweroff_requested, last_mode, taskVars, stale, renders, sessions>>

NothingToDraw ==
  /\ ~render_requested
  /\ app_mode \in {"MODE_TERMINAL", "MODE_BT"} => ~term_render_requested

DIdle ==
  /\ SameMode(app_mode)
  /\ NothingToDraw
  /\ dpc' = "check"
  /\ UNCHANGED <<busVars, state_mutex, app_mode, requestVars, path, last_mode,
                 taskVars, stale, renders, sessions>>

DPick ==
  \/ DPowerOff \/ DSwitch \/ DIdle
  \/ \E m \in DOMAIN LiveScreens : DBothFlags(m, LiveScreens[m])
  \/ \E m \in DOMAIN TextScreens : DOneFlag(m, TextScreens[m])

\* Which branches snapshot under the mutex after display_idle is cleared.
\* The connect screen of the terminal (connect_status_count > 0) does not.
SnapshotAfterMark ==
  CASE path = "switch"   -> {last_mode \in {"MODE_TERMINAL", "MODE_NOTEPAD"}}
    [] path = "terminal" -> BOOLEAN
    [] OTHER             -> {FALSE}

\* display_idle = false.  sd_busy is not read again.
DMark ==
  /\ dpc = "mark"
  /\ display_idle' = FALSE
  /\ CountRender
  /\ \E snapshot \in SnapshotAfterMark :
       /\ dpc' = IF snapshot THEN "lock" ELSE "render"
       /\ stale' = (stale /\ (snapshot \/ path = "notepad"))
  /\ UNCHANGED <<sd_busy, state_mutex, app_mode, requestVars, path, last_mode,
                 taskVars, sessions>>

\* xSemaphoreTake(state_mutex, portMAX_DELAY); snapshot.
DTake ==
  /\ dpc = "lock"
  /\ state_mutex = NoTask
  /\ state_mutex' = DisplayTask
  /\ stale' = FALSE
  /\ UNCHANGED <<busVars, app_mode, requestVars, displayVars, taskVars, renders, sessions>>

DGive ==
  /\ dpc = "lock"
  /\ state_mutex = DisplayTask
  /\ state_mutex' = NoTask
  /\ dpc' = IF path = "notepad" THEN "mark" ELSE "render"
  /\ UNCHANGED <<busVars, app_mode, requestVars, path, last_mode, taskVars, stale,
                 renders, sessions>>

\* Mutant: every path clears the request flag after it has drawn.
DDoneClears ==
  /\ dpc = "render"
  /\ display_idle' = TRUE
  /\ render_requested' = FALSE
  /\ path' = "none" /\ dpc' = IF path = "switch" THEN "clear" ELSE "check"
  /\ UNCHANGED <<sd_busy, state_mutex, app_mode, term_render_requested, poweroff_requested,
                 last_mode, taskVars, stale, renders, sessions>>

\* Mutant: the mode-switch path leaves without display_idle = true.
DDoneStaysBusy ==
  /\ dpc = "render"
  /\ display_idle' = (path # "switch")
  /\ path' = "none" /\ dpc' = IF path = "switch" THEN "clear" ELSE "check"
  /\ UNCHANGED <<sd_busy, state_mutex, app_mode, requestVars, last_mode,
                 taskVars, stale, renders, sessions>>

\* The refresh is over: display_idle = true.
DDone ==
  /\ dpc = "render"
  /\ display_idle' = TRUE
  /\ path' = "none" /\ dpc' = IF path = "switch" THEN "clear" ELSE "check"
  /\ UNCHANGED <<sd_busy, state_mutex, app_mode, requestVars, last_mode,
                 taskVars, stale, renders, sessions>>

\* After a mode switch the flags are cleared once the redraw is done.  A change
\* made during the redraw has lost its request here, unless its task has not
\* set the flag yet: the ghost gives it up.
RequestComing == \E t \in Tasks : pc[t] \in {"handled", "flag", "result"}

DClear ==
  /\ dpc = "clear"
  /\ render_requested' = FALSE /\ term_render_requested' = FALSE
  /\ stale' = (stale /\ RequestComing)
  /\ dpc' = "check"
  /\ UNCHANGED <<busVars, state_mutex, app_mode, poweroff_requested, path, last_mode,
                 taskVars, renders, sessions>>

Display == DCheck \/ DPick \/ DMark \/ DTake \/ DGive \/ DDone \/ DClear

-----------------------------------------------------------------------------
(* Tasks that use the card.                                                *)

Goto(t, at) == pc' = [pc EXCEPT ![t] = at]

\* sdAcquire(), first half: sd_busy = true.  From a task of its own or from
\* loop() ("idle"), from a typed command ("command", mutex given back), or
\* from the file picker, inside the key handler ("opening", mutex held).
SdSetBusy(t) ==
  /\ sessions[t] < MaxSessions
  /\ sessions' = [sessions EXCEPT ![t] = @ + 1]
  /\ pc[t] \in {"idle", "command", "opening"}
  /\ back' = [back EXCEPT ![t] = pc[t]]
  /\ Goto(t, "wait")
  /\ sd_busy' = TRUE
  /\ renders' = IF sd_busy THEN renders ELSE 0
  /\ UNCHANGED <<display_idle, state_mutex, app_mode, requestVars, displayVars, stale>>

\* Mutant: the wait for display_idle is dropped.
SdGrantedAtOnce(t) ==
  /\ pc[t] = "wait"
  /\ Goto(t, "sd")
  /\ UNCHANGED <<busVars, state_mutex, app_mode, requestVars, displayVars, back,
                 stale, renders, sessions>>

\* sdAcquire(), second half: while (!display_idle) vTaskDelay(1).
SdGranted(t) ==
  /\ pc[t] = "wait"
  /\ display_idle
  /\ Goto(t, "sd")
  /\ UNCHANGED <<busVars, state_mutex, app_mode, requestVars, displayVars, back,
                 stale, renders, sessions>>

\* sdRelease() clears the flag whoever else is still using the card.
SdRelease(t) ==
  /\ pc[t] = "sd"
  /\ sd_busy' = FALSE
  /\ Goto(t, back[t]) /\ back' = [back EXCEPT ![t] = "idle"]
  /\ renders' = 0
  /\ UNCHANGED <<display_idle, state_mutex, app_mode, requestVars, displayVars,
                 stale, sessions>>

\* A command (np, ssh, daily, edit) run without the mutex assigns app_mode.
SetMode(t, m) ==
  /\ t \in ModeTasks
  /\ pc[t] = IF t \in KeyTasks THEN "command" ELSE "idle"
  /\ app_mode' = m
  /\ UNCHANGED <<busVars, state_mutex, requestVars, displayVars, taskVars, stale,
                 renders, sessions>>

\* A background task changes what the prompt shows, then asks for a redraw.
TaskResult(t) ==
  /\ pc[t] = "idle" /\ t \notin KeyTasks
  /\ stale' = TRUE
  /\ Goto(t, "result")
  /\ UNCHANGED <<busVars, state_mutex, app_mode, requestVars, displayVars, back,
                 renders, sessions>>

\* render_requested = true, whatever the mode.
RequestRender(t) ==
  /\ pc[t] = "result"
  /\ render_requested' = TRUE
  /\ Goto(t, "idle")
  /\ UNCHANGED <<busVars, state_mutex, app_mode, term_render_requested,
                 poweroff_requested, displayVars, back, stale, renders, sessions>>

-----------------------------------------------------------------------------
(* loop(): key events are handled under state_mutex.                       *)

\* xSemaphoreTake(state_mutex, 25 ms): a failed take drops the key event.
KeyTake(t) ==
  /\ t \in KeyTasks /\ pc[t] = "idle"
  /\ state_mutex = NoTask
  /\ state_mutex' = t
  /\ Goto(t, "handler")
  /\ UNCHANGED <<busVars, app_mode, requestVars, displayVars, back, stale, renders, sessions>>

\* A handler that edits visible state and returns needs_render = true.
KeyEdit(t) ==
  /\ pc[t] = "handler"
  /\ stale' = TRUE
  /\ Goto(t, "handled")
  /\ UNCHANGED <<busVars, state_mutex, app_mode, requestVars, displayVars, back,
                 renders, sessions>>

\* Enter in the file picker: the handler saves and loads files, then returns
\* to the notepad, or stays in the prompt when the load failed.
KeyPick(t) ==
  /\ t \in PickerTasks
  /\ pc[t] = "handler" /\ app_mode = "MODE_COMMAND"
  /\ Goto(t, "opening")
  /\ UNCHANGED <<busVars, state_mutex, app_mode, requestVars, displayVars, back, stale,
                 renders, sessions>>

KeyOpened(t) ==
  /\ pc[t] = "opening"
  /\ app_mode' \in {"MODE_NOTEPAD", app_mode}
  /\ stale' = TRUE
  /\ Goto(t, "handled")
  /\ UNCHANGED <<busVars, state_mutex, requestVars, displayVars, back, renders, sessions>>

\* Mutant: the early return forgets to give the mutex.
KeyLeaveKeepsMutex(t, m) ==
  /\ pc[t] = "handler" /\ app_mode = "MODE_COMMAND"
  /\ app_mode' = m
  /\ Goto(t, "idle")
  /\ UNCHANGED <<busVars, state_mutex, requestVars, displayVars, back, stale, renders,
                 sessions>>

\* Mutant: cmd_return_mode was never saved.
KeyLeaveNowhere(t, m) ==
  /\ pc[t] = "handler" /\ app_mode = "MODE_COMMAND"
  /\ app_mode' = "MODE_NONE"
  /\ state_mutex' = NoTask
  /\ Goto(t, "idle")
  /\ UNCHANGED <<busVars, requestVars, displayVars, back, stale, renders, sessions>>

\* MIC leaves the prompt: app_mode = cmd_return_mode, needs_render = false.
KeyLeave(t, m) ==
  /\ pc[t] = "handler" /\ app_mode = "MODE_COMMAND"
  /\ app_mode' = m
  /\ state_mutex' = NoTask
  /\ Goto(t, "idle")
  /\ UNCHANGED <<busVars, requestVars, displayVars, back, stale, renders, sessions>>

\* MIC tap: open the prompt under the mutex, set render_requested after it.
KeyPrompt(t) ==
  /\ pc[t] = "handler" /\ "MODE_COMMAND" \in Modes
  /\ app_mode' = "MODE_COMMAND"
  /\ state_mutex' = NoTask
  /\ stale' = TRUE
  /\ Goto(t, "result")
  /\ UNCHANGED <<busVars, requestVars, displayVars, back, renders, sessions>>

\* Enter: the handler gives the mutex back, runs the command, retakes it.
KeyEnter(t) ==
  /\ pc[t] = "handler" /\ app_mode = "MODE_COMMAND"
  /\ state_mutex' = NoTask
  /\ Goto(t, "command")
  /\ UNCHANGED <<busVars, app_mode, requestVars, displayVars, back, stale, renders, sessions>>

KeyRetake(t) ==
  /\ pc[t] = "command"
  /\ state_mutex = NoTask
  /\ state_mutex' = t
  /\ stale' = TRUE
  /\ Goto(t, "handled")
  /\ UNCHANGED <<busVars, app_mode, requestVars, displayVars, back, renders, sessions>>

KeyGive(t) ==
  /\ pc[t] = "handled"
  /\ state_mutex' = NoTask
  /\ Goto(t, "flag")
  /\ UNCHANGED <<busVars, app_mode, requestVars, displayVars, back, stale, renders, sessions>>

\* needs_render: the flag of the mode that is current now.
KeyFlag(t) ==
  /\ pc[t] = "flag"
  /\ IF app_mode = "MODE_TERMINAL"
     THEN term_render_requested' = TRUE /\ UNCHANGED render_requested
     ELSE render_requested' = TRUE /\ UNCHANGED term_render_requested
  /\ Goto(t, "idle")
  /\ UNCHANGED <<busVars, state_mutex, app_mode, poweroff_requested, displayVars, back,
                 stale, renders, sessions>>

\* BOOT held for BOOT_SLEEP_HOLD_MS.
PressBoot ==
  /\ ~poweroff_requested
  /\ poweroff_requested' = TRUE
  /\ UNCHANGED <<busVars, state_mutex, app_mode, render_requested, term_render_requested,
                 displayVars, taskVars, stale, renders, sessions>>

-----------------------------------------------------------------------------
TaskStep(t) ==
  \/ SdSetBusy(t) \/ SdGranted(t) \/ SdRelease(t)
  \/ TaskResult(t) \/ RequestRender(t)
  \/ KeyTake(t) \/ KeyEdit(t) \/ KeyPick(t) \/ KeyOpened(t) \/ KeyPrompt(t) \/ KeyEnter(t) \/ KeyRetake(t)
  \/ KeyGive(t) \/ KeyFlag(t)
  \/ \E m \in Modes : SetMode(t, m) \/ KeyLeave(t, m)

Next == Display \/ PressBoot \/ \E t \in Tasks : TaskStep(t)

\* What a task must do next by itself once it is past its first step.
Finish(t) ==
  \/ SdGranted(t) \/ SdRelease(t) \/ RequestRender(t)
  \/ KeyEdit(t) \/ KeyOpened(t) \/ KeyGive(t) \/ KeyFlag(t)

Spec == Init /\ [][Next]_vars

(* Both cores run, so each task keeps stepping.  Takes of the mutex with   *)
(* portMAX_DELAY queue behind an owner that always gives it back and sleeps *)
(* between key events, hence strong fairness on those two.  The user owes  *)
(* nothing: no fairness on key events, commands or PressBoot.              *)
FairSpec ==
  /\ Spec
  /\ WF_vars(Display) /\ SF_vars(DTake)
  /\ \A t \in Tasks : WF_vars(Finish(t)) /\ SF_vars(KeyRetake(t))

-----------------------------------------------------------------------------
(* Properties.                                                             *)

Drawing == dpc \in {"render", "off"}

\* displayTask yields while sd_busy: during one uninterrupted busy period it
\* begins at most the one refresh whose sd_busy check it had already passed.
InterferenceBounded == sd_busy => renders <= 1

\* sdAcquire waits for display_idle: no task starts using the card while the
\* display loop is in the middle of a refresh (powerOff's drawing excepted:
\* it leaves display_idle TRUE).
NeverEntersMidRefresh ==
  [][\A t \in Tasks : pc[t] = "wait" /\ pc'[t] = "sd" => dpc # "render"]_vars

\* The picker's handler waits for display_idle with state_mutex held while the
\* display waits for state_mutex with display_idle FALSE: neither moves again.
Locked(t) == pc[t] = "wait" /\ state_mutex = t /\ dpc = "lock" /\ ~display_idle
Deadlocked == \E t \in Tasks : Locked(t)

\* A change of visible state is drawn, or the device goes off; the one place
\* that can lose it is the redraw of a mode switch, which clears the request
\* flags after drawing (DClear).
ChangeIsDrawn == stale ~> (~stale \/ dpc = "off" \/ Deadlocked)

\* The display keeps catching up with app_mode.
ModeShown == []<>(last_mode = app_mode \/ dpc = "off" \/ Deadlocked)

\* A task that called sdAcquire gets the card, if no sdRelease of another task
\* clears the sd_busy it set.
SdEventuallyGranted ==
  \A t \in Tasks : pc[t] = "wait" ~> (pc[t] = "sd" \/ ~sd_busy \/ Deadlocked)

(* What the comments say of the handshake.                                 *)

\* main.cpp, above loop(): "keyboard polling - never blocks on display".
NeverBlocksOnDisplay == \A t \in KeyTasks : ~Locked(t)

=============================================================================
