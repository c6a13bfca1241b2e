------------------------------ MODULE Bluetooth ------------------------------
(***************************************************************************)
(* The Bluetooth keyboard: `bt` switches it, `bs` scans.  The BLE library  *)
(* runs the callbacks on its own task: they change the flags some time     *)
(* after the event.  loop() keeps the device on the air; the commands come *)
(* from loop() and from the task of a shortcut, and nothing locks.         *)
(***************************************************************************)
EXTENDS Naturals, Sequences

CONSTANTS
  Commanders,    \* tasks that run commands, "loop" among them
  MaxCommands,   \* bound: commands in a behaviour
  MaxEvents      \* bound: callbacks the BLE task has not run yet

BluetoothAssumption == "loop" \in Commanders /\ MaxCommands \in Nat /\ MaxEvents \in Nat

VARIABLES
  config_bt_enabled,
  bt,            \* bt_initialized, bt_connected, bt_advertising, bt_state
  bt_scan,       \* bt_scan_running, _done, _restore_disabled, _resume_adv
  bt_scan_pending,
  stack,         \* external: the BLE stack
  events,        \* the callbacks it has to run
  todo,          \* what each task has still to do of its command or poll
  raced,         \* ghost: two tasks were inside these functions at a time
  cut,           \* ghost: `bt` switched off with a scan pending
  stranded,      \* ghost: a btInit that failed left the stack up
  commands       \* bound counter

vars == <<config_bt_enabled, bt, bt_scan, bt_scan_pending, stack, events, todo,
          raced, cut, stranded, commands>>

Steps == {"enable", "enabled", "init", "create", "adv", "mark", "disable", "deinit",
          "disabled", "restore", "prepare", "start", "taken"}

TypeOK ==
  /\ config_bt_enabled \in BOOLEAN /\ bt_scan_pending \in BOOLEAN
  /\ bt \in [initialized : BOOLEAN, connected : BOOLEAN, advertising : BOOLEAN,
             state : {"OFF", "ADVERTISING", "CONNECTED", "ERROR"}]
  /\ bt_scan \in [running : BOOLEAN, done : BOOLEAN, restore : BOOLEAN, resume : BOOLEAN]
  /\ stack \in [up : BOOLEAN, adv : BOOLEAN, peer : BOOLEAN, scan : BOOLEAN]
  /\ events \in Seq({"connect", "disconnect", "scanned"}) /\ Len(events) <= MaxEvents
  /\ todo \in [Commanders -> Seq(Steps)]
  /\ raced \in BOOLEAN /\ cut \in BOOLEAN /\ stranded \in BOOLEAN
  /\ commands \in 0 .. MaxCommands

BtOff == [initialized |-> FALSE, connected |-> FALSE, advertising |-> FALSE, state |-> "OFF"]
NoScan == [running |-> FALSE, done |-> FALSE, restore |-> FALSE, resume |-> FALSE]
Down == [up |-> FALSE, adv |-> FALSE, peer |-> FALSE, scan |-> FALSE]

Init ==
  /\ config_bt_enabled = FALSE /\ bt = BtOff /\ bt_scan = NoScan
  /\ bt_scan_pending = FALSE
  /\ stack = Down /\ events = << >>
  /\ todo = [c \in Commanders |-> << >>]
  /\ raced = FALSE /\ cut = FALSE /\ stranded = FALSE /\ commands = 0

-----------------------------------------------------------------------------
(* What starts something: the commands, and the polls of loop().           *)

Begin(c, steps) ==
  /\ todo[c] = << >> /\ todo' = [todo EXCEPT ![c] = steps]
  /\ raced' = (raced \/ \E d \in Commanders : todo[d] # << >>)

Type == commands < MaxCommands /\ commands' = commands + 1

BtCommand(c) ==
  /\ Type /\ Begin(c, <<IF config_bt_enabled THEN "disable" ELSE "enable">>)
  /\ UNCHANGED <<config_bt_enabled, bt, bt_scan, bt_scan_pending, stack, events, cut, stranded>>

\* btScanCommand and the tests of btScanStartAsync.
btScanCommand(c) ==
  /\ ~bt_scan_pending /\ ~bt.connected /\ ~bt_scan.running
  /\ Type
  /\ Begin(c, (IF ~config_bt_enabled THEN <<"enable", "restore">>
               ELSE IF ~bt.initialized THEN <<"init">> ELSE << >>) \o <<"prepare">>)
  /\ bt_scan' = NoScan
  /\ UNCHANGED <<config_bt_enabled, bt, bt_scan_pending, stack, events, cut, stranded>>

\* Mutant: only a stack that is not up yet needs help.
btPollInitOnly ==
  /\ config_bt_enabled /\ ~bt.initialized /\ Begin("loop", <<"init">>)
  /\ UNCHANGED <<config_bt_enabled, bt, bt_scan, bt_scan_pending, stack, events, cut, stranded, commands>>

btPoll ==
  /\ config_bt_enabled
  /\ \/ ~bt.initialized /\ Begin("loop", <<"init">>)
     \/ /\ bt.initialized /\ ~bt_scan.running /\ ~bt.connected /\ ~bt.advertising
        /\ Begin("loop", <<"adv">>)
  /\ UNCHANGED <<config_bt_enabled, bt, bt_scan, bt_scan_pending, stack, events, cut, stranded, commands>>

Resume == IF bt_scan.resume /\ config_bt_enabled /\ ~bt.connected THEN <<"adv">> ELSE << >>
Restore == IF bt_scan.restore THEN <<"disable">> ELSE << >>

btScanPoll ==
  /\ bt_scan_pending /\ ~bt_scan.running /\ bt_scan.done
  /\ Begin("loop", Resume \o Restore \o <<"taken">>)
  /\ UNCHANGED <<config_bt_enabled, bt, bt_scan, bt_scan_pending, stack, events, cut, stranded, commands>>

-----------------------------------------------------------------------------
(* The steps.                                                              *)

Do(c, step, more) ==
  /\ todo[c] # << >> /\ Head(todo[c]) = step
  /\ todo' = [todo EXCEPT ![c] = more \o Tail(@)]
  /\ UNCHANGED <<raced, commands>>

\* btSetEnabled(true).
Enable(c) ==
  /\ Do(c, "enable", <<IF bt.initialized THEN "adv" ELSE "init", "enabled">>)
  /\ config_bt_enabled' = TRUE
  /\ UNCHANGED <<bt, bt_scan, bt_scan_pending, stack, events, cut, stranded>>
Enabled(c) ==
  /\ Do(c, "enabled", << >>)
  /\ config_bt_enabled' = (config_bt_enabled /\ bt.initialized)
  /\ UNCHANGED <<bt, bt_scan, bt_scan_pending, stack, events, cut, stranded>>

\* btInit: its test; then the stack, and the server, the reports and the service,
\* each of which may fail to be created: then nothing takes the stack down again.
btInit(c) ==
  /\ IF config_bt_enabled /\ ~bt.initialized
     THEN Do(c, "init", <<"create">>) /\ UNCHANGED bt
     ELSE /\ Do(c, "init", << >>)
          /\ bt' = [bt EXCEPT !.state = IF config_bt_enabled THEN @ ELSE "OFF"]
  /\ UNCHANGED <<config_bt_enabled, bt_scan, bt_scan_pending, stack, events, cut, stranded>>
Create(c) ==
  /\ stack' = [stack EXCEPT !.up = TRUE]
  /\ \/ /\ Do(c, "create", <<"adv">>) /\ stranded' = FALSE
        /\ bt' = [BtOff EXCEPT !.initialized = TRUE, !.state = bt.state]
     \/ /\ Do(c, "create", << >>) /\ stranded' = TRUE
        /\ bt' = [bt EXCEPT !.state = "ERROR"]
  /\ UNCHANGED <<config_bt_enabled, bt_scan, bt_scan_pending, events, cut>>

\* btStartAdvertising: the device is on the air before the flag says so.
btStartAdvertising(c) ==
  /\ IF bt.initialized /\ config_bt_enabled /\ ~bt.connected /\ ~bt_scan.running
     THEN Do(c, "adv", <<"mark">>) /\ stack' = [stack EXCEPT !.adv = stack.up]
     ELSE Do(c, "adv", << >>) /\ UNCHANGED stack
  /\ UNCHANGED <<config_bt_enabled, bt, bt_scan, bt_scan_pending, events, cut, stranded>>
Mark(c) ==
  /\ Do(c, "mark", << >>)
  /\ bt' = [bt EXCEPT !.advertising = TRUE, !.state = "ADVERTISING"]
  /\ UNCHANGED <<config_bt_enabled, bt_scan, bt_scan_pending, stack, events, cut, stranded>>

\* Mutant: the stack goes and the scan's flags stay.
DisableKeepsScan(c) ==
  /\ Do(c, "disable", <<"deinit", "disabled">>)
  /\ stack' = [stack EXCEPT !.scan = @ /\ ~bt_scan.running]
  /\ cut' = (cut \/ (bt_scan_pending /\ Tail(todo[c]) # <<"taken">>))
  /\ UNCHANGED <<config_bt_enabled, bt, bt_scan, bt_scan_pending, events, stranded>>

\* btSetEnabled(false), with btShutdown: the scan first, then the peer and the
\* stack, and the setting last.
Disable(c) ==
  /\ Do(c, "disable", <<"deinit", "disabled">>)
  /\ bt_scan' = NoScan
  /\ stack' = [stack EXCEPT !.scan = @ /\ ~bt_scan.running]
  /\ cut' = (cut \/ (bt_scan_pending /\ Tail(todo[c]) # <<"taken">>))
  /\ UNCHANGED <<config_bt_enabled, bt, bt_scan_pending, events, stranded>>
Deinit(c) ==
  /\ Do(c, "deinit", << >>)
  /\ IF bt.initialized THEN stack' = Down /\ events' = << >> ELSE UNCHANGED <<stack, events>>
  /\ bt' = BtOff
  /\ UNCHANGED <<config_bt_enabled, bt_scan, bt_scan_pending, cut, stranded>>
Disabled(c) ==
  /\ Do(c, "disabled", << >>) /\ config_bt_enabled' = FALSE
  /\ UNCHANGED <<bt, bt_scan, bt_scan_pending, stack, events, cut, stranded>>

\* btScanStartAsync after its tests.
MarkRestore(c) ==
  /\ Do(c, "restore", << >>) /\ bt_scan' = [bt_scan EXCEPT !.restore = TRUE]
  /\ UNCHANGED <<config_bt_enabled, bt, bt_scan_pending, stack, events, cut, stranded>>
PrepareScan(c) ==
  /\ IF bt.initialized
     THEN /\ Do(c, "prepare", <<"start">>)
          /\ bt_scan' = [bt_scan EXCEPT !.resume = bt.advertising]
          /\ IF bt.advertising
             THEN /\ stack' = [stack EXCEPT !.adv = FALSE]
                  /\ bt' = [bt EXCEPT !.advertising = FALSE, !.state = "OFF"]
             ELSE UNCHANGED <<stack, bt>>
     ELSE /\ Do(c, "prepare", Restore)
          /\ bt_scan' = [bt_scan EXCEPT !.restore = FALSE]
          /\ UNCHANGED <<stack, bt>>
  /\ UNCHANGED <<config_bt_enabled, bt_scan_pending, events, cut, stranded>>
StartScan(c) ==
  /\ \/ /\ Do(c, "start", << >>)
        /\ bt_scan' = [bt_scan EXCEPT !.running = TRUE]
        /\ stack' = [stack EXCEPT !.scan = stack.up]
        /\ bt_scan_pending' = TRUE
     \/ /\ Do(c, "start", Resume \o Restore)
        /\ bt_scan' = [bt_scan EXCEPT !.running = FALSE, !.restore = FALSE, !.resume = FALSE]
        /\ UNCHANGED <<stack, bt_scan_pending>>
  /\ UNCHANGED <<config_bt_enabled, bt, events, cut, stranded>>

\* The end of btScanTakeResults and finishBtScanCommand.
Taken(c) ==
  /\ Do(c, "taken", << >>)
  /\ bt_scan' = [bt_scan EXCEPT !.done = FALSE, !.restore = FALSE, !.resume = FALSE]
  /\ bt_scan_pending' = FALSE
  /\ UNCHANGED <<config_bt_enabled, bt, stack, events, cut, stranded>>

Step(c) ==
  \/ Enable(c) \/ Enabled(c) \/ btInit(c) \/ Create(c) \/ btStartAdvertising(c) \/ Mark(c)
  \/ Disable(c) \/ Deinit(c) \/ Disabled(c)
  \/ MarkRestore(c) \/ PrepareScan(c) \/ StartScan(c) \/ Taken(c)

-----------------------------------------------------------------------------
(* The BLE task and the world around the device.                           *)

\* Mutant: a peer that leaves is thought to leave the device on the air.
DeliverStillOnAir ==
  /\ events # << >> /\ events' = Tail(events)
  /\ CASE Head(events) = "connect" ->
            /\ bt' = [bt EXCEPT !.connected = TRUE, !.advertising = FALSE, !.state = "CONNECTED"]
            /\ UNCHANGED bt_scan
       [] Head(events) = "disconnect" ->
            /\ bt' = [bt EXCEPT !.connected = FALSE, !.advertising = TRUE, !.state = "ADVERTISING"]
            /\ UNCHANGED bt_scan
       [] Head(events) = "scanned" ->
            /\ bt_scan' = [bt_scan EXCEPT !.running = FALSE, !.done = TRUE]
            /\ UNCHANGED bt
  /\ UNCHANGED <<config_bt_enabled, bt_scan_pending, stack, todo, raced, cut, stranded, commands>>

Deliver ==
  /\ events # << >> /\ events' = Tail(events)
  /\ CASE Head(events) = "connect" ->
            /\ bt' = [bt EXCEPT !.connected = TRUE, !.advertising = FALSE, !.state = "CONNECTED"]
            /\ UNCHANGED bt_scan
       [] Head(events) = "disconnect" ->
            /\ bt' = [bt EXCEPT !.connected = FALSE, !.advertising = FALSE, !.state = "OFF"]
            /\ UNCHANGED bt_scan
       [] Head(events) = "scanned" ->
            /\ bt_scan' = [bt_scan EXCEPT !.running = FALSE, !.done = TRUE]
            /\ UNCHANGED bt
  /\ UNCHANGED <<config_bt_enabled, bt_scan_pending, stack, todo, raced, cut, stranded, commands>>

Happens(event) ==
  /\ Len(events) < MaxEvents /\ events' = Append(events, event)
  /\ UNCHANGED <<config_bt_enabled, bt, bt_scan, bt_scan_pending, todo, raced, cut, stranded, commands>>

PeerConnects ==
  /\ stack.adv /\ ~stack.peer
  /\ stack' = [stack EXCEPT !.peer = TRUE, !.adv = FALSE] /\ Happens("connect")
\* A peer does not come and go between two statements of btStartAdvertising.
PeerLeaves ==
  /\ stack.peer /\ \A c \in Commanders : ~(todo[c] # << >> /\ Head(todo[c]) = "mark")
  /\ stack' = [stack EXCEPT !.peer = FALSE] /\ Happens("disconnect")
ScanEnds == stack.scan /\ stack' = [stack EXCEPT !.scan = FALSE] /\ Happens("scanned")

\* Bound: a behaviour is followed until two tasks are inside at a time.
Next ==
  /\ ~raced
  /\ \/ \E c \in Commanders : BtCommand(c) \/ btScanCommand(c) \/ Step(c)
     \/ btPoll \/ btScanPoll \/ Deliver \/ PeerConnects \/ PeerLeaves \/ ScanEnds

Spec == Init /\ [][Next]_vars

\* The tasks run and a scan has a duration; the user and the peer owe nothing.
\* loop() comes to both polls in every pass, so neither is overtaken for ever.
FairSpec ==
  /\ Spec /\ \A c \in Commanders : WF_vars(Step(c))
  /\ SF_vars(btPoll) /\ SF_vars(btScanPoll) /\ WF_vars(Deliver) /\ WF_vars(ScanEnds)

-----------------------------------------------------------------------------
(* Properties.                                                             *)

\* Once the callbacks have run and no task is inside, the flags are the stack's
\* state: the peer, the scan, and no radio that is on while the setting is off.  The
\* code breaks the last of these in one way, which is excluded: a btInit that fails
\* leaves the stack up, the setting is cleared, and no `bt` takes the stack down until
\* a later btInit has succeeded (`stranded`).
Quiet == events = << >> /\ \A c \in Commanders : todo[c] = << >>
BtFlagsMatch ==
  Quiet /\ ~raced =>
    /\ bt.connected = stack.peer /\ bt_scan.running = stack.scan
    /\ bt.advertising => stack.adv \/ stack.peer
    /\ bt.initialized = (stack.up /\ ~stranded)
    /\ stack.up => config_bt_enabled \/ stranded

\* A device that is on and alone comes back on the air, whatever the callbacks,
\* the scans and the commands have left in the flags.
Unseen == bt.initialized /\ stack.up /\ ~stack.adv /\ ~stack.peer /\ ~stack.scan
BackOnAir == Unseen ~> (~Unseen \/ raced)

\* A scan that was started is answered, unless `bt` switched the stack off.
ScanAnswered == bt_scan_pending ~> (~bt_scan_pending \/ cut \/ raced)

\* `bs` scans: a scan in progress comes to an end, and the next `bs` may start.
ScanEndsAlways == bt_scan_pending ~> (~bt_scan_pending \/ raced)
=============================================================================
