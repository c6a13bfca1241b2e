------------------------------ MODULE MeshRadio ------------------------------
(***************************************************************************)
(* The Meshtastic radio: `msh` switches it, `mss` scans it, `mss tx` sends *)
(* and loop() polls it.  Every command to the chip takes the SPI bus by    *)
(* itself, so what two tasks do with the radio interleaves between any two *)
(* commands.  The commands come from loop() and from the task of a         *)
(* shortcut; a command to the chip may fail at any point.                  *)
(***************************************************************************)
EXTENDS Naturals, Sequences

CONSTANTS
  Commanders,    \* tasks that run commands, "loop" among them
  MaxCommands,   \* bound: commands in a behaviour
  MaxFaults,     \* bound: commands to the chip that fail
  MaxPackets     \* bound: packets received

MeshAssumption ==
  /\ "loop" \in Commanders
  /\ {MaxCommands, MaxFaults, MaxPackets} \subseteq Nat

VARIABLES
  msh_state, msh_radio_ready,
  meshtastic_scan_pending,
  chip,      \* external: the SX1262: its supply, mode, flags, length and buffer
  todo,      \* what each task has still to do with the radio
  op,        \* what it does there
  seen,      \* the flags that were read and are to be cleared
  told,      \* the outcome shown of each task's last send
  aired,     \* ghost: the frame of the task's last send went out whole
  deaf,      \* ghost: a sequence of commands was cut short since reception began
  overlap,   \* ghost: two tasks used the radio at a time
  bounds     \* commands, faults and packets so far

radio == <<msh_state, msh_radio_ready, chip>>
vars == <<radio, meshtastic_scan_pending, todo, op, seen, told, aired, deaf, overlap, bounds>>

ChipCommands == {"standby", "parameters", "max_len", "frame_len", "write", "clear", "ack", "rx", "tx"}
Steps == ChipCommands \cup {"wait", "sent", "not_sent", "ready", "init_failed", "cut", "probe"}

Flags == {"TX_DONE", "RX_DONE", "ERR"}
Nobody == "none"
ChipOff == [en |-> FALSE, mode |-> "standby", irq |-> {}, len |-> "max", buffer |-> Nobody]

TypeOK ==
  /\ msh_state \in {"OFF", "ON", "ERROR"} /\ msh_radio_ready \in BOOLEAN
  /\ meshtastic_scan_pending \in BOOLEAN
  /\ chip \in [en : BOOLEAN, mode : {"standby", "rx", "tx"}, irq : SUBSET Flags,
               len : {"frame", "max"}, buffer : Commanders \cup {Nobody}]
  /\ todo \in [Commanders -> Seq(Steps)]
  /\ op \in [Commanders -> {"none", "on", "off", "send", "poll", "scan", "probe"}]
  /\ seen \in [Commanders -> SUBSET Flags]
  /\ told \in [Commanders -> {"nothing", "tx_ok", "tx_failed"}]
  /\ aired \in [Commanders -> BOOLEAN] /\ deaf \in BOOLEAN /\ overlap \in BOOLEAN
  /\ bounds \in [commands : 0 .. MaxCommands, faults : 0 .. MaxFaults, packets : 0 .. MaxPackets]

Init ==
  /\ msh_state = "OFF" /\ msh_radio_ready = FALSE /\ meshtastic_scan_pending = FALSE
  /\ chip = ChipOff
  /\ todo = [c \in Commanders |-> << >>] /\ op = [c \in Commanders |-> "none"]
  /\ seen = [c \in Commanders |-> {}]
  /\ told = [c \in Commanders |-> "nothing"] /\ aired = [c \in Commanders |-> FALSE]
  /\ deaf = FALSE /\ overlap = FALSE
  /\ bounds = [commands |-> 0, faults |-> 0, packets |-> 0]

meshtasticIsPowered == msh_state # "OFF"

-----------------------------------------------------------------------------
(* The sequences of commands.                                              *)

mshStartReceiveMode == <<"standby", "max_len", "clear", "rx">>
mshConfigureForMesh == <<"standby", "parameters">> \o mshStartReceiveMode
\* Mutant: the length of the frame is not given.
mshTransmitPacketAnyLength == <<"standby", "write", "clear", "tx", "wait">>

mshTransmitPacket == <<"standby", "frame_len", "write", "clear", "tx", "wait">>
\* Mutant: the radio stays in standby after a frame.
AfterTxDoneStandby == <<"ack", "sent">>

AfterTxDone == <<"ack">> \o mshStartReceiveMode \o <<"sent">>

\* What a command does to the chip; without its supply, nothing.
After(command, c) ==
  IF ~chip.en THEN chip ELSE
  CASE command = "standby" -> [chip EXCEPT !.mode = "standby"]
    [] command = "max_len" -> [chip EXCEPT !.len = "max"]
    [] command = "frame_len" -> [chip EXCEPT !.len = "frame"]
    [] command = "write" -> [chip EXCEPT !.buffer = c]
    [] command = "clear" -> [chip EXCEPT !.irq = {}]
    [] command = "ack" -> [chip EXCEPT !.irq = @ \ seen[c]]
    [] command = "rx" -> [chip EXCEPT !.mode = "rx"]
    [] command = "tx" -> [chip EXCEPT !.mode = "tx"]
    [] OTHER -> chip

-----------------------------------------------------------------------------
(* What starts something.                                                  *)

Begin(c, what, steps) ==
  /\ todo[c] = << >>
  /\ todo' = [todo EXCEPT ![c] = steps] /\ op' = [op EXCEPT ![c] = what]
  /\ overlap' = (overlap \/ \E d \in Commanders : todo[d] # << >>)

Type ==
  /\ bounds.commands < MaxCommands /\ bounds' = [bounds EXCEPT !.commands = @ + 1]
  /\ ~meshtastic_scan_pending

PowerUp == chip' = [ChipOff EXCEPT !.en = TRUE] /\ msh_state' = "ON"

\* `msh`: meshtasticSetPowered, either way.
Toggle(c) ==
  /\ Type
  /\ IF meshtasticIsPowered
     THEN Begin(c, "off", <<"standby", "cut">>) /\ UNCHANGED <<msh_state, chip, deaf>>
     ELSE /\ Begin(c, "on", mshConfigureForMesh \o <<"ready">>)
          /\ PowerUp /\ deaf' = FALSE
  /\ UNCHANGED <<msh_radio_ready, meshtastic_scan_pending, seen, told, aired>>

\* `mss tx`.
Send(c) ==
  /\ Type /\ meshtasticIsPowered /\ msh_radio_ready
  /\ Begin(c, "send", mshTransmitPacket)
  /\ aired' = [aired EXCEPT ![c] = FALSE] /\ told' = [told EXCEPT ![c] = "nothing"]
  /\ UNCHANGED <<radio, meshtastic_scan_pending, seen, deaf>>

meshtasticScanCommand(c) ==
  /\ Type /\ todo[c] = << >> /\ meshtastic_scan_pending' = TRUE
  /\ UNCHANGED <<radio, todo, op, seen, told, aired, deaf, overlap>>

\* meshtasticScanStatus: it switches the radio on for the probe if it is off.
finishMeshtasticScanCommand ==
  /\ meshtastic_scan_pending
  /\ IF meshtasticIsPowered
     THEN Begin("loop", "probe", <<"probe">>) /\ UNCHANGED <<msh_state, chip, deaf>>
     ELSE /\ Begin("loop", "scan", mshConfigureForMesh \o <<"ready", "probe", "standby", "cut">>)
          /\ PowerUp /\ deaf' = FALSE
  /\ UNCHANGED <<msh_radio_ready, meshtastic_scan_pending, seen, told, aired, bounds>>

\* Only a received packet and its errors make the poll restart the reception.
meshtasticPoll ==
  /\ meshtasticIsPowered /\ msh_radio_ready /\ chip.irq # {}
  /\ Begin("loop", "poll",
           <<"ack">> \o IF chip.irq # {"TX_DONE"} THEN mshStartReceiveMode ELSE << >>)
  /\ seen' = [seen EXCEPT !["loop"] = chip.irq]
  /\ UNCHANGED <<radio, meshtastic_scan_pending, told, aired, deaf, bounds>>

-----------------------------------------------------------------------------
(* The steps.                                                              *)

At(c, step) == todo[c] # << >> /\ Head(todo[c]) = step
Go(c, steps) == todo' = [todo EXCEPT ![c] = steps]

Command(c) ==
  /\ todo[c] # << >> /\ Head(todo[c]) \in ChipCommands
  /\ chip' = After(Head(todo[c]), c) /\ Go(c, Tail(todo[c]))
  /\ deaf' = (deaf /\ Head(todo[c]) # "rx")
  /\ UNCHANGED <<msh_state, msh_radio_ready, meshtastic_scan_pending, op, seen, told, aired,
                 overlap, bounds>>

\* The wait for TX_DONE sees it, or its time is up.
Wait(c) ==
  /\ At(c, "wait")
  /\ \/ "TX_DONE" \in chip.irq /\ Go(c, AfterTxDone)
        /\ seen' = [seen EXCEPT ![c] = {"TX_DONE"}] /\ UNCHANGED deaf
     \/ "TX_DONE" \notin chip.irq /\ chip.mode # "tx" /\ Go(c, <<"not_sent">>)
        /\ deaf' = TRUE /\ UNCHANGED seen
  /\ UNCHANGED <<radio, meshtastic_scan_pending, op, told, aired, overlap, bounds>>

\* A command fails: the rest of the sequence is dropped, unless nobody looks.
Unchecked(c) == At(c, "ack") \/ op[c] = "off" \/ todo[c] = <<"standby", "cut">>
Fault(c) ==
  /\ todo[c] # << >> /\ Head(todo[c]) \in ChipCommands \cup {"wait"}
  /\ bounds.faults < MaxFaults /\ bounds' = [bounds EXCEPT !.faults = @ + 1]
  /\ deaf' = TRUE
  /\ Go(c, IF Unchecked(c) THEN Tail(todo[c])
           ELSE CASE op[c] = "send" -> <<"not_sent">>
                  [] op[c] \in {"on", "scan"} -> <<"init_failed">>
                  [] OTHER -> << >>)
  /\ UNCHANGED <<radio, meshtastic_scan_pending, op, seen, told, aired, overlap>>

Sent(c) ==
  /\ \/ At(c, "sent") /\ told' = [told EXCEPT ![c] = "tx_ok"]
     \/ At(c, "not_sent") /\ told' = [told EXCEPT ![c] = "tx_failed"]
  /\ Go(c, << >>)
  /\ UNCHANGED <<radio, meshtastic_scan_pending, op, seen, aired, deaf, overlap, bounds>>

Ready(c) ==
  /\ At(c, "ready") /\ Go(c, Tail(todo[c]))
  /\ msh_radio_ready' = TRUE
  /\ UNCHANGED <<msh_state, chip, meshtastic_scan_pending, op, seen, told, aired, deaf, overlap, bounds>>

\* A failed start cuts the supply and leaves ERROR, which counts as powered:
\* `msh` shows "MSH on".
InitFailed(c) ==
  /\ At(c, "init_failed") /\ Go(c, << >>)
  /\ msh_state' = "ERROR" /\ msh_radio_ready' = FALSE /\ chip' = ChipOff
  /\ meshtastic_scan_pending' = (meshtastic_scan_pending /\ op[c] # "scan")
  /\ UNCHANGED <<op, seen, told, aired, deaf, overlap, bounds>>

Cut(c) ==
  /\ At(c, "cut") /\ Go(c, << >>)
  /\ msh_state' = "OFF" /\ msh_radio_ready' = FALSE /\ chip' = ChipOff
  /\ meshtastic_scan_pending' = (meshtastic_scan_pending /\ op[c] # "scan")
  /\ UNCHANGED <<op, seen, told, aired, deaf, overlap, bounds>>

\* mshProbe reads; what it reads decides the state when the radio was on.
Probe(c) ==
  /\ At(c, "probe") /\ Go(c, Tail(todo[c]))
  /\ msh_state' \in IF op[c] = "probe" THEN {"ERROR"} \cup (IF chip.en THEN {"ON"} ELSE {})
                    ELSE {msh_state}
  /\ meshtastic_scan_pending' = (op[c] # "probe")
  /\ UNCHANGED <<msh_radio_ready, chip, op, seen, told, aired, deaf, overlap, bounds>>

Step(c) ==
  \/ Command(c) \/ Wait(c) \/ Fault(c) \/ Sent(c) \/ Ready(c) \/ InitFailed(c) \/ Cut(c) \/ Probe(c)

-----------------------------------------------------------------------------
(* The chip: a transmission ends in standby; a packet arrives in reception. *)

TxDone ==
  /\ chip.mode = "tx"
  /\ chip' = [chip EXCEPT !.mode = "standby", !.irq = @ \cup {"TX_DONE"}]
  /\ aired' = [c \in Commanders |-> aired[c] \/ (chip.buffer = c /\ chip.len = "frame")]
  /\ UNCHANGED <<msh_state, msh_radio_ready, meshtastic_scan_pending, todo, op, seen, told,
                 deaf, overlap, bounds>>
Packet ==
  /\ chip.mode = "rx" /\ bounds.packets < MaxPackets
  /\ bounds' = [bounds EXCEPT !.packets = @ + 1]
  /\ \E flag \in {"RX_DONE", "ERR"} : chip' = [chip EXCEPT !.irq = @ \cup {flag}]
  /\ UNCHANGED <<msh_state, msh_radio_ready, meshtastic_scan_pending, todo, op, seen, told,
                 aired, deaf, overlap>>

Next ==
  \/ \E c \in Commanders : Toggle(c) \/ Send(c) \/ meshtasticScanCommand(c) \/ Step(c)
  \/ finishMeshtasticScanCommand \/ meshtasticPoll \/ TxDone \/ Packet

Spec == Init /\ [][Next]_vars

-----------------------------------------------------------------------------
(* Properties.                                                             *)

Quiet == \A c \in Commanders : todo[c] = << >>

\* One task at a time: after a send, a packet, an error or a scan the radio listens
\* again, and it is powered when it is ready.  A command to the chip that failed and a
\* send that timed out are excluded (`deaf`): the code leaves the radio deaf then.
ListensAgain ==
  Quiet /\ ~overlap =>
    /\ msh_radio_ready = chip.en /\ (chip.en => meshtasticIsPowered)
    /\ msh_radio_ready /\ ~deaf => chip.mode = "rx"

\* One task at a time: "tx_ok" is shown of a frame that went out whole.
OkMeansSent == ~overlap => \A c \in Commanders : told[c] = "tx_ok" => aired[c]
=============================================================================
