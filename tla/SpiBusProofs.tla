--------------------------- MODULE SpiBusProofs ---------------------------
(***************************************************************************)
(* What the sd_busy / display_idle handshake does guarantee, for any number *)
(* of tasks: the types, one refresh at most per busy period, and no SD      *)
(* session that begins in the middle of a refresh.                          *)
(***************************************************************************)
EXTENDS SpiBus, TLAPS

(* The display has passed its sd_busy check and has not begun to draw.      *)
Armed == dpc \in {"pick", "mark"} \/ (dpc = "lock" /\ path = "notepad")

(* While the bus is busy the refresh already begun and the one the display  *)
(* is still committed to are together at most one.                          *)
BusyBudget == sd_busy => IF Armed THEN renders = 0 ELSE renders <= 1

(* display_idle is FALSE exactly while the display loop draws, or waits for *)
(* the mutex between clearing the flag and drawing.                         *)
IdleFlagHonest ==
  display_idle <=> ~(dpc = "render" \/ (dpc = "lock" /\ path # "notepad"))

IInv == TypeOK /\ BusyBudget /\ IdleFlagHonest

-----------------------------------------------------------------------------
(* The initial state is well typed and satisfies the invariant. *)
LEMMA InitIInv == Init => IInv
  <1> SUFFICES ASSUME Init PROVE IInv
    OBVIOUS
  <1>1. TypeOK
    BY ModesAssumption DEF Init, TypeOK, DisplayPc, Paths, TaskPc
  <1>2. BusyBudget      BY DEF Init, BusyBudget
  <1>3. IdleFlagHonest  BY DEF Init, IdleFlagHonest
  <1> QED BY <1>1, <1>2, <1>3 DEF IInv

(* A step of the display task preserves the invariant. *)
LEMMA DisplayIInv == IInv /\ Display => IInv'
  <1> SUFFICES ASSUME IInv, Display PROVE IInv'
    OBVIOUS
  <1> USE TasksAssumption, ModesAssumption
  <1> USE DEF IInv, TypeOK, BusyBudget, IdleFlagHonest, Armed, DisplayPc, Paths, TaskPc,
              busVars, requestVars, displayVars, taskVars
  <1>1. CASE DCheck      BY <1>1 DEF DCheck
  <1>2. CASE DPowerOff   BY <1>2 DEF DPowerOff, CountRender
  <1>3. CASE DSwitch     BY <1>3 DEF DSwitch
  <1>4. CASE DIdle       BY <1>4 DEF DIdle, SameMode
  <1>5. ASSUME NEW m, NEW p \in {"terminal", "trackpad"}, DBothFlags(m, p) PROVE IInv'
    BY <1>5 DEF DBothFlags, SameMode
  <1>6. ASSUME NEW m, NEW p \in {"prompt", "notepad"}, DOneFlag(m, p) PROVE IInv'
    BY <1>6 DEF DOneFlag, SameMode
  <1>7. CASE DMark
    <2>1. PICK snapshot \in BOOLEAN :
            /\ path = "switch" \/ path = "terminal" \/ ~snapshot
            /\ dpc' = IF snapshot THEN "lock" ELSE "render"
            /\ stale' = (stale /\ (snapshot \/ path = "notepad"))
      BY <1>7 DEF DMark, SnapshotAfterMark
    <2>2. stale' \in BOOLEAN
      BY ONLY <2>1, Zenon
    <2>3. dpc' \in {"lock", "render"} /\ (dpc' = "lock" => path # "notepad")
      BY <2>1
    <2>4. /\ dpc = "mark" /\ ~display_idle'
          /\ display_idle' \in BOOLEAN
          /\ renders' = IF sd_busy THEN renders + 1 ELSE 0
          /\ UNCHANGED <<sd_busy, state_mutex, app_mode, requestVars, path, last_mode,
                         taskVars, sessions>>
      BY <1>7 DEF DMark, CountRender
    <2>5. TypeOK'
      BY <2>2, <2>3, <2>4
    <2>6. BusyBudget' /\ IdleFlagHonest'
      BY <2>3, <2>4
    <2> QED BY <2>5, <2>6
  <1>8. CASE DTake       BY <1>8 DEF DTake
  <1>9. CASE DGive       BY <1>9 DEF DGive
  <1>10. CASE DDone      BY <1>10 DEF DDone
  <1>11. CASE DClear     BY <1>11 DEF DClear
  <1>12. CASE \E m \in DOMAIN LiveScreens : DBothFlags(m, LiveScreens[m])
    <2>1. \A m \in DOMAIN LiveScreens : LiveScreens[m] \in {"terminal", "trackpad"}
      BY DEF LiveScreens
    <2> QED BY <1>5, <1>12, <2>1
  <1>13. CASE \E m \in DOMAIN TextScreens : DOneFlag(m, TextScreens[m])
    <2>1. \A m \in DOMAIN TextScreens : TextScreens[m] \in {"prompt", "notepad"}
      BY DEF TextScreens
    <2> QED BY <1>6, <1>13, <2>1
  <1> QED
    BY <1>1, <1>2, <1>3, <1>4, <1>7, <1>8, <1>9, <1>10, <1>11, <1>12, <1>13, Zenon
    DEF Display, DPick

(* A step of a task preserves the invariant. *)
LEMMA TaskIInv == ASSUME NEW t \in Tasks, IInv, TaskStep(t) PROVE IInv'
  <1> USE TasksAssumption, ModesAssumption, SessionsAssumption
  <1> USE DEF IInv, TypeOK, BusyBudget, IdleFlagHonest, Armed, DisplayPc, Paths, TaskPc,
              busVars, requestVars, displayVars, taskVars, Goto
  <1>1. CASE SdSetBusy(t)      BY <1>1 DEF SdSetBusy
  <1>2. CASE SdGranted(t)      BY <1>2 DEF SdGranted
  <1>3. CASE SdRelease(t)
    <2>1. /\ sd_busy' = FALSE /\ renders' = 0
          /\ UNCHANGED <<display_idle, state_mutex, app_mode, requestVars, displayVars, stale,
                         sessions>>
      BY <1>3 DEF SdRelease
    <2>2. pc' \in [Tasks -> TaskPc] /\ back' \in [Tasks -> {"idle", "command", "opening"}]
      BY <1>3 DEF SdRelease
    <2>3. TypeOK'
      BY <2>1, <2>2, ZenonT(40)
    <2>4. BusyBudget' /\ IdleFlagHonest'
      BY <2>1
    <2> QED BY <2>3, <2>4
  <1>4. CASE TaskResult(t)     BY <1>4 DEF TaskResult
  <1>5. CASE RequestRender(t)  BY <1>5 DEF RequestRender
  <1>6. CASE KeyTake(t)        BY <1>6 DEF KeyTake
  <1>7. CASE KeyEdit(t)        BY <1>7 DEF KeyEdit
  <1>8. CASE KeyPick(t)        BY <1>8 DEF KeyPick
  <1>9. CASE KeyOpened(t)      BY <1>9 DEF KeyOpened
  <1>10. CASE KeyPrompt(t)     BY <1>10 DEF KeyPrompt
  <1>11. CASE KeyEnter(t)      BY <1>11 DEF KeyEnter
  <1>12. CASE KeyRetake(t)     BY <1>12 DEF KeyRetake
  <1>13. CASE KeyGive(t)       BY <1>13 DEF KeyGive
  <1>14. CASE KeyFlag(t)
    <2>1. render_requested' \in BOOLEAN /\ term_render_requested' \in BOOLEAN
      BY <1>14 DEF KeyFlag
    <2> QED BY <1>14, <2>1 DEF KeyFlag
  <1>15. ASSUME NEW m \in Modes, SetMode(t, m) PROVE IInv'
    BY <1>15 DEF SetMode
  <1>16. ASSUME NEW m \in Modes, KeyLeave(t, m) PROVE IInv'
    BY <1>16 DEF KeyLeave
  <1> QED
    BY <1>1, <1>2, <1>3, <1>4, <1>5, <1>6, <1>7, <1>8, <1>9, <1>10, <1>11, <1>12,
       <1>13, <1>14, <1>15, <1>16 DEF TaskStep

(* Every step preserves the invariant. *)
LEMMA NextIInv == IInv /\ [Next]_vars => IInv'
  <1> SUFFICES ASSUME IInv, [Next]_vars PROVE IInv'
    OBVIOUS
  <1>1. CASE Display  BY <1>1, DisplayIInv
  <1>2. CASE PressBoot
    BY <1>2 DEF PressBoot, IInv, TypeOK, BusyBudget, IdleFlagHonest, Armed, busVars,
                displayVars, taskVars
  <1>3. ASSUME NEW t \in Tasks, TaskStep(t) PROVE IInv'
    BY <1>3, TaskIInv
  <1>4. CASE UNCHANGED vars
    BY <1>4 DEF vars, busVars, requestVars, displayVars, taskVars, IInv, TypeOK,
                BusyBudget, IdleFlagHonest, Armed
  <1> QED BY <1>1, <1>2, <1>3, <1>4 DEF Next

(* The inductive invariant holds throughout. *)
THEOREM Invariance == Spec => []IInv
  <1> QED BY InitIInv, NextIInv, PTL DEF Spec

(* Type correctness of the handshake, for every set of tasks and modes.    *)
THEOREM Typing == Spec => []TypeOK
  <1>1. IInv => TypeOK  BY DEF IInv
  <1> QED BY <1>1, Invariance, PTL

(* However many tasks use the card, one uninterrupted sd_busy period sees  *)
(* at most one refresh begin.                                              *)
THEOREM Interference == Spec => []InterferenceBounded
  <1>1. IInv => InterferenceBounded
    BY DEF IInv, BusyBudget, InterferenceBounded, Armed
  <1> QED BY <1>1, Invariance, PTL

(* No sdAcquire returns while the display loop is drawing.                 *)
THEOREM EntersBetweenRefreshes == Spec => NeverEntersMidRefresh
  <1>1. IInv /\ [Next]_vars
        => [\A t \in Tasks : pc[t] = "wait" /\ pc'[t] = "sd" => dpc # "render"]_vars
    <2> SUFFICES ASSUME IInv, Next, NEW t \in Tasks, pc[t] = "wait", pc'[t] = "sd"
                 PROVE dpc # "render"
      OBVIOUS
    <2>1. CASE Display \/ PressBoot
      <3>1. pc' = pc
        BY <2>1 DEF Display, DCheck, DPick, DPowerOff, DSwitch, DIdle, DBothFlags, DOneFlag,
                    DMark, DTake, DGive, DDone, DClear, PressBoot, taskVars
      <3> QED BY <3>1
    <2>2. ASSUME NEW u \in Tasks, TaskStep(u) PROVE dpc # "render"
      <3>1. CASE SdGranted(u)
        BY <3>1 DEF SdGranted, IInv, IdleFlagHonest
      <3>2. CASE ~SdGranted(u)
        BY <2>2, <3>2 DEF TaskStep, SdSetBusy, SdRelease, TaskResult, RequestRender, KeyTake,
           KeyEdit, KeyPick, KeyOpened, KeyPrompt, KeyEnter, KeyRetake, KeyGive, KeyFlag,
           SetMode, KeyLeave, Goto, taskVars, IInv, TypeOK, TaskPc
      <3> QED BY <3>1, <3>2
    <2> QED BY <2>1, <2>2 DEF Next
  <1> QED BY <1>1, Invariance, PTL DEF Spec, NeverEntersMidRefresh

=============================================================================
