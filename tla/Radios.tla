------------------------------- MODULE Radios -------------------------------
(***************************************************************************)
(* The radios that something has to become of: modem, Bluetooth and WiFi.  *)
(* They share no state, so a behaviour follows one of them.                *)
(***************************************************************************)
EXTENDS Integers

CONSTANTS
  Commanders,    \* tasks that run commands
  APs,           \* how many networks /CONFIG knows
  MaxCommands,   \* bound: commands in a behaviour
  MaxEvents,     \* bound: callbacks the BLE task has not run yet
  MaxChanges     \* bound: changes of the WiFi link from outside

VARIABLES
  part,
  modem_state, modem_job, modem_task_handle, power_en, modem_scan_running, modem_scan_done,
  modem_scan_restore_off, power_event, modem_scan_pending, modem_power_pending_notice,
  worker, command, refused, stale, overlap, commands,
  config_bt_enabled, bt, bt_scan, bt_scan_pending, stack, events, todo, raced, cut, stranded,
  bt_commands,
  wifi_state, radio, pc, left, ssh_connecting, off, beside, bounds

modem == <<modem_state, modem_job, modem_task_handle, power_en, modem_scan_running,
           modem_scan_done, modem_scan_restore_off, power_event, modem_scan_pending,
           modem_power_pending_notice, worker, command, refused, stale, overlap,
           commands>>
bluetooth == <<config_bt_enabled, bt, bt_scan, bt_scan_pending, stack, events, todo, raced,
               cut, stranded, bt_commands>>
wifi == <<wifi_state, radio, pc, left, ssh_connecting, off, beside, bounds>>
radios == <<part, modem, bluetooth, wifi>>

Modem == INSTANCE Modem
Bt == INSTANCE Bluetooth WITH commands <- bt_commands
Wifi == INSTANCE Wifi

ASSUME RadiosAssumption ==
  Modem!ModemAssumption /\ Wifi!WifiAssumption /\ Bt!BluetoothAssumption

RadiosInit == part \in {"modem", "bluetooth", "wifi"} /\ Modem!Init /\ Bt!Init /\ Wifi!Init

InModem == UNCHANGED <<part, bluetooth, wifi>>
InBluetooth == UNCHANGED <<part, modem, wifi>>
InWifi == UNCHANGED <<part, modem, bluetooth>>

RadiosNext ==
  \/ part = "modem" /\ Modem!Next /\ InModem
  \/ part = "bluetooth" /\ Bt!Next /\ InBluetooth
  \/ part = "wifi" /\ Wifi!Next /\ InWifi

\* The fairness of each module, where a behaviour follows it.
RadiosSpec ==
  /\ RadiosInit /\ [][RadiosNext]_radios
  /\ \A c \in Commanders : WF_radios(part = "modem" /\ Modem!Act(c) /\ InModem)
  /\ WF_radios(part = "modem" /\ Modem!Worker /\ InModem)
  /\ WF_radios(part = "modem" /\ Modem!Poll /\ InModem)
  /\ \A c \in Commanders : WF_radios(part = "bluetooth" /\ Bt!Step(c) /\ InBluetooth)
  /\ SF_radios(part = "bluetooth" /\ Bt!btPoll /\ InBluetooth)
  /\ SF_radios(part = "bluetooth" /\ Bt!btScanPoll /\ InBluetooth)
  /\ WF_radios(part = "bluetooth" /\ Bt!Deliver /\ InBluetooth)
  /\ WF_radios(part = "bluetooth" /\ Bt!ScanEnds /\ InBluetooth)
  /\ \A t \in Wifi!Tasks : WF_radios(part = "wifi" /\ Wifi!Step(t) /\ InWifi)
  /\ SF_radios(part = "wifi" /\ Wifi!wifiCheck /\ InWifi)

\* The type of the one that is followed.
RadiosTypeOK ==
  CASE part = "modem" -> Modem!TypeOK
    [] part = "bluetooth" -> Bt!TypeOK
    [] part = "wifi" -> Wifi!TypeOK

\* The modem's state and results are what the worker does.
ModemHonest == Modem!ModemHonest

\* At rest, the flags of Bluetooth and WiFi are the state of their stacks.
FlagsMatch == Bt!BtFlagsMatch /\ Wifi!StateIsLink

\* What was started is answered and what was lost is noticed: the scans of the modem and
\* of Bluetooth, the device that left the air, the WiFi link that went.  A behaviour has
\* one radio, so this is ScanAnswered of both, BackOnAir and LostLinkNoticed.
Owed ==
  \/ modem_scan_pending /\ ~refused /\ ~overlap
  \/ bt_scan_pending /\ ~cut /\ ~raced
  \/ wifi_state = "CONNECTED" /\ radio # "up"
RadiosRecover == (Owed ~> ~Owed) /\ Bt!BackOnAir
=============================================================================
