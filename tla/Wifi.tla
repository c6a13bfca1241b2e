-------------------------------- MODULE Wifi --------------------------------
(***************************************************************************)
(* WiFi.  `wfi`, `ws` and `date` run in loop() or in the task of a         *)
(* shortcut, sshConnectTask joins a network before it opens the session,   *)
(* and loop() looks every five seconds whether the link still stands.      *)
(* They share wifi_state and the one radio, and nothing locks.             *)
(***************************************************************************)
EXTENDS Naturals

CONSTANTS
  Commanders,   \* tasks that run commands, "loop" among them
  APs,          \* config_wifi_count: how many networks /CONFIG knows
  MaxCommands, MaxChanges   \* bounds: commands; changes of the network around

WifiAssumption == APs \in Nat /\ MaxCommands \in Nat /\ MaxChanges \in Nat

Tasks == Commanders \cup {"connect"}

VARIABLES
  wifi_state,
  radio,         \* external: the station is "off", has "no link", is "joining" or "up"
  pc,            \* where each task is
  left,          \* the networks it has still to try
  ssh_connecting,
  off,           \* ghost: the last command to end switched WiFi off
  beside,        \* ghost: a join was under way, in another task, beside a command
  bounds

vars == <<wifi_state, radio, pc, left, ssh_connecting, off, beside, bounds>>

\* A network of the picker need not be one that /CONFIG knows.
Tries == 0 .. (IF APs = 0 THEN 1 ELSE APs)

TypeOK ==
  /\ wifi_state \in {"IDLE", "FAILED", "CONNECTED"}
  /\ radio \in {"off", "no link", "joining", "up"}
  /\ pc \in [Tasks -> {"idle", "known", "disconnect", "begin", "poll", "pick", "joined",
                       "session", "switch off", "say off"}]
  /\ left \in [Tasks -> Tries]
  /\ ssh_connecting \in BOOLEAN /\ off \in BOOLEAN /\ beside \in BOOLEAN
  /\ bounds \in [commands : 0 .. MaxCommands, changes : 0 .. MaxChanges]

Init ==
  /\ wifi_state = "IDLE" /\ radio = "off"
  /\ pc = [t \in Tasks |-> "idle"] /\ left = [t \in Tasks |-> 0]
  /\ ssh_connecting = FALSE /\ off = TRUE /\ beside = FALSE
  /\ bounds = [commands |-> 0, changes |-> 0]

WiFiOn == radio' = IF radio = "off" THEN "no link" ELSE radio
Goto(t, where) == pc' = [pc EXCEPT ![t] = where]
Idle == \A t \in Tasks : pc[t] = "idle"

-----------------------------------------------------------------------------
(* The commands, and sshConnectAsync.                                      *)

Begin(c, where) ==
  /\ bounds.commands < MaxCommands /\ bounds' = [bounds EXCEPT !.commands = @ + 1]
  /\ pc[c] = "idle" /\ Goto(c, where)
  /\ beside' = (beside \/ ~Idle)

\* What wifiToggleCommand takes for on: IDLE and FAILED are off, whatever the radio does.
wifiToggleCommand(c) ==
  /\ Begin(c, IF wifi_state = "CONNECTED" THEN "switch off" ELSE "known")
  /\ UNCHANGED <<wifi_state, radio, left, ssh_connecting, off>>

\* `date` and `daily` with a clock that was never set.
ensureClockForDateDaily(c) ==
  /\ Begin(c, "known")
  /\ UNCHANGED <<wifi_state, radio, left, ssh_connecting, off>>

\* A network chosen in the picker: one attempt, or a password that is missing.
wifiPickerConnectSelectedNetwork(c) ==
  /\ \/ Begin(c, "disconnect") /\ left' = [left EXCEPT ![c] = 1]
        /\ WiFiOn /\ UNCHANGED wifi_state
     \/ Begin(c, "idle") /\ wifi_state' = "FAILED" /\ UNCHANGED <<left, radio>>
  /\ off' = FALSE /\ UNCHANGED ssh_connecting

\* `ws` leaves the station on, and the state as it is.
wifiScanCommand(c) == Begin(c, "idle") /\ WiFiOn /\ UNCHANGED <<wifi_state, left, ssh_connecting, off>>

sshConnectAsync ==
  /\ ~ssh_connecting /\ pc["connect"] = "idle" /\ bounds.commands < MaxCommands
  /\ bounds' = [bounds EXCEPT !.commands = @ + 1]
  /\ ssh_connecting' = TRUE /\ beside' = (beside \/ ~Idle)
  /\ IF wifi_state = "CONNECTED"
     THEN Goto("connect", "session") /\ UNCHANGED <<radio, left, off>>
     ELSE /\ Goto("connect", IF APs = 0 THEN "joined" ELSE "disconnect")
          /\ WiFiOn /\ left' = [left EXCEPT !["connect"] = APs] /\ off' = FALSE
  /\ UNCHANGED wifi_state

-----------------------------------------------------------------------------
(* wifiConnectKnownAndSyncClock: a link that stands is good, or the known  *)
(* networks one by one.                                                    *)

Known(c) ==
  /\ pc[c] = "known" /\ off' = FALSE
  /\ IF radio = "up"
     THEN wifi_state' = "CONNECTED" /\ Goto(c, "idle") /\ UNCHANGED <<radio, left>>
     ELSE IF APs = 0
     THEN wifi_state' = "FAILED" /\ WiFiOn /\ Goto(c, "idle") /\ UNCHANGED left
     ELSE Goto(c, "disconnect") /\ WiFiOn /\ left' = [left EXCEPT ![c] = APs] /\ UNCHANGED wifi_state
  /\ UNCHANGED <<ssh_connecting, beside, bounds>>

\* wifiTryAP.  begin switches the station on if somebody switched it off.
Disconnect(t) ==
  /\ pc[t] = "disconnect" /\ Goto(t, "begin")
  /\ radio' = (IF radio = "off" THEN "off" ELSE "no link")
  /\ UNCHANGED <<wifi_state, left, ssh_connecting, off, beside, bounds>>
BeginJoin(t) ==
  /\ pc[t] = "begin" /\ Goto(t, "poll") /\ radio' = "joining"
  /\ UNCHANGED <<wifi_state, left, ssh_connecting, off, beside, bounds>>

\* Mutant: one network too many is tried.
PollOnceMore(t) ==
  /\ pc[t] = "poll" /\ left' = [left EXCEPT ![t] = @ - 1]
  /\ Goto(t, IF radio # "up" /\ left[t] >= 0 THEN "disconnect" ELSE "idle")
  /\ wifi_state' = (IF radio = "up" THEN "CONNECTED" ELSE "FAILED")
  /\ ssh_connecting' = (ssh_connecting /\ t # "connect")
  /\ UNCHANGED <<radio, off, beside, bounds>>

\* The attempt ends with a link or, after a refusal or a timeout, without.
Poll(t) ==
  /\ pc[t] = "poll"
  /\ IF radio = "up"
     THEN /\ wifi_state' = "CONNECTED" /\ left' = [left EXCEPT ![t] = 0]
          /\ Goto(t, IF t = "connect" THEN "session" ELSE "idle")
     ELSE /\ left' = [left EXCEPT ![t] = @ - 1]
          /\ IF left[t] > 1
             THEN Goto(t, "disconnect") /\ wifi_state' = (IF t = "connect" THEN wifi_state ELSE "FAILED")
             ELSE /\ wifi_state' = "FAILED"
                  /\ Goto(t, "idle")
  /\ ssh_connecting' = (ssh_connecting /\ ~(t = "connect" /\ radio # "up" /\ left[t] = 1))
  /\ UNCHANGED <<radio, off, beside, bounds>>

\* sshConnectTask without a network to try; and its end, after sshConnect.
NoAPs ==
  /\ pc["connect"] = "joined" /\ Goto("connect", "idle")
  /\ wifi_state' = "FAILED" /\ ssh_connecting' = FALSE
  /\ UNCHANGED <<radio, left, off, beside, bounds>>
Session ==
  /\ pc["connect"] = "session" /\ Goto("connect", "idle") /\ ssh_connecting' = FALSE
  /\ UNCHANGED <<wifi_state, radio, left, off, beside, bounds>>

\* Mutant: the session ends and the link stays.
SwitchOffKeepsLink(c) ==
  /\ pc[c] = "switch off" /\ Goto(c, "say off")
  /\ UNCHANGED <<wifi_state, radio, left, ssh_connecting, off, beside, bounds>>

\* wifiToggleCommand, the other way: sshDisconnect and the radio, then the state.
SwitchOff(c) ==
  /\ pc[c] = "switch off" /\ Goto(c, "say off") /\ radio' = "off"
  /\ UNCHANGED <<wifi_state, left, ssh_connecting, off, beside, bounds>>
SayOff(c) ==
  /\ pc[c] = "say off" /\ Goto(c, "idle") /\ wifi_state' = "IDLE" /\ off' = TRUE
  /\ UNCHANGED <<radio, left, ssh_connecting, beside, bounds>>

Step(t) ==
  \/ t \in Commanders /\ (Known(t) \/ SwitchOff(t) \/ SayOff(t))
  \/ Disconnect(t) \/ BeginJoin(t) \/ Poll(t)
  \/ t = "connect" /\ (NoAPs \/ Session)

-----------------------------------------------------------------------------
(* loop()'s check, and the network.                                        *)

\* Mutant: only a station that is off counts as lost.
wifiCheckOffOnly ==
  /\ pc["loop"] = "idle" /\ wifi_state = "CONNECTED" /\ radio = "off"
  /\ wifi_state' = "FAILED"
  /\ UNCHANGED <<radio, pc, left, ssh_connecting, off, beside, bounds>>

wifiCheck ==
  /\ pc["loop"] = "idle" /\ wifi_state = "CONNECTED" /\ radio # "up"
  /\ wifi_state' = "FAILED"
  /\ UNCHANGED <<radio, pc, left, ssh_connecting, off, beside, bounds>>

Join == radio = "joining" /\ radio' = "up" /\ UNCHANGED bounds
\* The link goes, and the driver joins again by itself.
Change ==
  /\ bounds.changes < MaxChanges /\ bounds' = [bounds EXCEPT !.changes = @ + 1]
  /\ \/ radio = "up" /\ radio' = "joining"
     \/ radio = "joining" /\ radio' = "no link"
Network == (Join \/ Change) /\ UNCHANGED <<wifi_state, pc, left, ssh_connecting, off, beside>>

Next ==
  \/ \E c \in Commanders :
       wifiToggleCommand(c) \/ ensureClockForDateDaily(c) \/ wifiPickerConnectSelectedNetwork(c)
       \/ wifiScanCommand(c)
  \/ sshConnectAsync \/ \E t \in Tasks : Step(t)
  \/ wifiCheck \/ Network

Spec == Init /\ [][Next]_vars

\* The tasks run; loop() comes to its check again and again.
FairSpec == Spec /\ (\A t \in Tasks : WF_vars(Step(t))) /\ SF_vars(wifiCheck)

-----------------------------------------------------------------------------
(* Properties.                                                             *)

\* A link that is gone is noticed: WiFi is not shown as connected for ever.
LostLinkNoticed ==
  (wifi_state = "CONNECTED" /\ radio # "up") ~> (wifi_state # "CONNECTED" \/ radio = "up")

\* One thing at a time: an idle state has no link, and WiFi that was switched off
\* stays off until a command joins again.
StateIsLink ==
  Idle /\ ~beside =>
    /\ wifi_state = "IDLE" => radio # "up"
    /\ off => wifi_state = "IDLE" /\ radio \in {"off", "no link"}
=============================================================================
