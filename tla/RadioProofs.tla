---------------------------- MODULE RadioProofs ----------------------------
(***************************************************************************)
(* The flags of the modem, of WiFi and of Bluetooth are what their tasks   *)
(* and stacks do, for any tasks that give commands and any number of       *)
(* commands, events and networks; then the three as Radios composes them.  *)
(***************************************************************************)
EXTENDS Radios, SequenceTheorems, TLAPS

-----------------------------------------------------------------------------
(* The modem.                                                              *)

(* One command at most is past its tests, and it is here.                  *)
Doing(place) == \E c \in Commanders : command[c] = place
OneCommand ==
  \A c, d \in Commanders : command[c] \in Modem!Inside /\ command[d] \in Modem!Inside => c = d

(* One worker at most: the handle says that there is one, the job that it  *)
(* has not come to its end or is being created.                            *)
Creating == Doing("createPower") \/ Doing("createScan")
JobIsWorker ==
  /\ modem_task_handle <=> worker # "none"
  /\ modem_job # "none" <=> worker \notin {"none", "handle"} \/ Creating
  /\ Creating => worker = "none"
  /\ Doing("createPower") => modem_job = "power"
  /\ Doing("createScan") => modem_job = "scan"

(* What a command has tested holds until it has acted on it.               *)
TestsStillHold ==
  /\ Doing("mark") \/ Doing("cut") \/ Doing("sayOff") =>
        modem_job = "none" /\ ~modem_scan_running
  /\ (\E p \in Modem!Scanning : Doing(p)) => ~modem_scan_pending
  /\ Doing("startScan") => modem_job = "none"
  /\ Doing("startScan") \/ Doing("createScan") => modem_scan_running
  /\ Doing("sayScan") => modem_scan_running \/ modem_scan_done
  /\ Doing("undo") => refused

(* Without a refusal, a state in between is left before the worker goes,   *)
(* or a command is about to start one.                                     *)
Starts == Doing("startPower") \/ Doing("startScan") \/ Creating
Settled ==
  ~refused /\ worker \in {"none", "booted", "clear", "handle"} /\ ~Starts =>
    modem_state \notin {"BOOTING", "SCANNING"}

(* Without a refusal, what needs the supply has it: a modem that is ON,    *)
(* but for the command that switches it off, and a scan that was started   *)
(* on one.                                                                 *)
Powered ==
  ~refused =>
    /\ modem_state = "ON" /\ ~Doing("sayOff") => power_en
    /\ worker \in {"wait", "ping", "dwell", "scanned"} => power_en
    /\ worker = "begin" /\ modem_job = "scan" /\ ~modem_scan_restore_off => power_en
    /\ (Doing("startScan") \/ Doing("createScan")) /\ ~modem_scan_restore_off => power_en

ResultComes == ~refused /\ modem_scan_pending => modem_scan_running \/ modem_scan_done

(* A boot whose beginning found no old event, and none to come, has none   *)
(* until it ends.                                                          *)
NoEventYet ==
  ~stale =>
    /\ Modem!Booting => power_event = "none"
    /\ Doing("startPower") \/ Doing("createPower") =>
         power_event = "none" /\ worker \in {"none", "handle"}

ModemInv ==
  /\ Modem!TypeOK
  /\ ~overlap => /\ OneCommand /\ JobIsWorker /\ TestsStillHold /\ Settled /\ Powered
                 /\ ResultComes /\ NoEventYet

Flags ==
  /\ modem_task_handle \in BOOLEAN /\ power_en \in BOOLEAN
  /\ modem_scan_running \in BOOLEAN /\ modem_scan_done \in BOOLEAN
  /\ modem_scan_restore_off \in BOOLEAN
  /\ modem_scan_pending \in BOOLEAN /\ modem_power_pending_notice \in BOOLEAN
  /\ refused \in BOOLEAN /\ stale \in BOOLEAN /\ overlap \in BOOLEAN

(* A command goes on: where the one is that is past its tests. *)
Only(place) == \A p \in Modem!Inside : Doing(p) <=> p = place
Nobody == \A p \in Modem!Inside : ~Doing(p)
AsBefore == \A p \in Modem!Inside : Doing(p)' <=> Doing(p)

LEMMA Goes ==
  ASSUME ModemInv, ~overlap, NEW c \in Commanders, NEW here \in Modem!Places,
         NEW next \in Modem!Places, Modem!Go(c, here, next)
  PROVE  /\ command' \in [Commanders -> Modem!Places]
         /\ here \in Modem!Inside => OneCommand' /\ Only(here) /\ Only(next)'
         /\ here \notin Modem!Inside /\ next \notin Modem!Inside => OneCommand' /\ AsBefore
         /\ here \notin Modem!Inside /\ next \in Modem!Inside /\ ~Modem!Beside(c) =>
              OneCommand' /\ Nobody /\ Only(next)'
  <1>1. /\ command \in [Commanders -> Modem!Places] /\ OneCommand /\ command[c] = here
        /\ command' \in [Commanders -> Modem!Places] /\ command'[c] = next
        /\ \A d \in Commanders \ {c} : command'[d] = command[d]
    BY DEF ModemInv, Modem!TypeOK, Modem!Go
  <1>2. ASSUME here \in Modem!Inside
        PROVE  OneCommand' /\ Only(here) /\ Only(next)'
    <2>1. \A d \in Commanders \ {c} : command[d] \notin Modem!Inside
      BY <1>1, <1>2 DEF OneCommand
    <2> QED BY <1>1, <1>2, <2>1 DEF OneCommand, Only, Doing
  <1>3. ASSUME here \notin Modem!Inside, next \notin Modem!Inside
        PROVE  OneCommand' /\ AsBefore
    BY <1>1, <1>3 DEF OneCommand, AsBefore, Doing
  <1>4. ASSUME here \notin Modem!Inside, next \in Modem!Inside, ~Modem!Beside(c)
        PROVE  OneCommand' /\ Nobody /\ Only(next)'
    <2>1. \A d \in Commanders : command[d] \notin Modem!Inside
      BY <1>1, <1>4 DEF Modem!Beside
    <2> QED BY <1>1, <1>4, <2>1 DEF OneCommand, Nobody, Only, Doing
  <1> QED BY <1>1, <1>2, <1>3, <1>4

(* The modem starts as its worker would leave it. *)
LEMMA ModemStarts ==
  ASSUME Modem!ModemAssumption, Modem!Init PROVE ModemInv
  <1>1. command \in [Commanders -> Modem!Places] /\ commands \in 0 .. MaxCommands
    BY DEF Modem!Init, Modem!ModemAssumption, Modem!Places
  <1>2. Modem!TypeOK
    BY <1>1, Zenon DEF Modem!Init, Modem!TypeOK
  <1>3. \A c \in Commanders : command[c] \notin Modem!Inside
    BY DEF Modem!Init, Modem!Inside, Modem!Scanning
  <1>4. Nobody /\ OneCommand
    BY <1>3 DEF Nobody, Doing, OneCommand
  <1>5. /\ JobIsWorker /\ TestsStillHold /\ Settled /\ Powered /\ ResultComes /\ NoEventYet
    BY <1>4 DEF Modem!Init, JobIsWorker, TestsStillHold, Settled, Powered, ResultComes,
                NoEventYet, Modem!Booting, Nobody, Creating, Modem!Inside, Modem!Scanning
  <1> QED BY <1>2, <1>4, <1>5 DEF ModemInv

(* A command that is typed, or that makes its tests: only its place changes. *)
LEMMA ModemTests ==
  ASSUME Modem!ModemAssumption, ModemInv, ~overlap, NEW c \in Commanders,
         Modem!Toggle(c) \/ Modem!ScanCommand(c) \/ Modem!OnTests(c) \/ Modem!OffTests(c)
           \/ Modem!ScanTests(c)
  PROVE  ModemInv'
  <1> USE DEF Modem!Places, Modem!Inside, Modem!Scanning
  <1>1. /\ UNCHANGED <<Modem!power, Modem!job, Modem!scan, power_event, Modem!prompt,
                       refused, stale>>
        /\ commands' \in 0 .. MaxCommands /\ overlap' \in BOOLEAN
    <2>1. commands \in 0 .. MaxCommands /\ overlap \in BOOLEAN /\ MaxCommands \in Nat
      BY DEF ModemInv, Modem!TypeOK, Modem!ModemAssumption
    <2>2. /\ commands' = commands \/ (commands < MaxCommands /\ commands' = commands + 1)
          /\ UNCHANGED <<Modem!power, Modem!job, Modem!scan, power_event, Modem!prompt,
                         refused, stale>>
      BY DEF Modem!Toggle, Modem!ScanCommand, Modem!Type, Modem!OnTests, Modem!OffTests,
             Modem!ScanTests, Modem!Tests
    <2>3. overlap' = overlap \/ overlap' = (overlap \/ Modem!Beside(c))
      BY DEF Modem!Toggle, Modem!ScanCommand, Modem!Type, Modem!OnTests, Modem!OffTests,
             Modem!ScanTests, Modem!Tests
    <2>4. overlap' \in BOOLEAN
      BY <2>1, <2>3, Zenon
    <2> QED BY <2>1, <2>2, <2>4
  <1>2. \/ /\ UNCHANGED overlap
           /\ \/ \E next \in {"on", "off"} : Modem!Go(c, "idle", next)
              \/ Modem!Go(c, "on", "idle") \/ Modem!Go(c, "off", "noticeOff")
              \/ Modem!Go(c, "scan", "idle")
        \/ /\ overlap' = (overlap \/ Modem!Beside(c))
           /\ \/ Modem!Go(c, "idle", "scan") /\ ~modem_scan_pending
              \/ Modem!Go(c, "on", "boot")
              \/ Modem!Go(c, "off", "cut") /\ modem_job = "none" /\ ~modem_scan_running
              \/ Modem!Go(c, "scan", "mark") /\ modem_job = "none" /\ ~modem_scan_running
    BY DEF Modem!Toggle, Modem!ScanCommand, Modem!Type, Modem!OnTests, Modem!OffTests,
           Modem!ScanTests, Modem!Tests, Modem!modemOperationInProgress
  <1>3. command' \in [Commanders -> Modem!Places]
    BY <1>2, Goes
  <1>4. Modem!TypeOK'
    BY <1>1, <1>3 DEF ModemInv, Modem!TypeOK, Modem!power, Modem!job, Modem!scan, Modem!prompt
  <1>5. ASSUME ~overlap'
        PROVE  /\ OneCommand'
               /\ \/ AsBefore
                  \/ Nobody \/ Only("scan")
               /\ \/ AsBefore
                  \/ Only("idle")'
                  \/ Only("scan")' /\ ~modem_scan_pending
                  \/ Only("boot")'
                  \/ Only("cut")' /\ modem_job = "none" /\ ~modem_scan_running
                  \/ /\ Only("scan") /\ Only("mark")'
                     /\ modem_job = "none" /\ ~modem_scan_running
    <2>1. CASE /\ UNCHANGED overlap
               /\ \/ \E next \in {"on", "off"} : Modem!Go(c, "idle", next)
                  \/ Modem!Go(c, "on", "idle") \/ Modem!Go(c, "off", "noticeOff")
                  \/ Modem!Go(c, "scan", "idle")
      BY <2>1, Goes
    <2>2. CASE /\ overlap' = (overlap \/ Modem!Beside(c))
               /\ \/ Modem!Go(c, "idle", "scan") /\ ~modem_scan_pending
                  \/ Modem!Go(c, "on", "boot")
                  \/ Modem!Go(c, "off", "cut") /\ modem_job = "none" /\ ~modem_scan_running
                  \/ Modem!Go(c, "scan", "mark") /\ modem_job = "none" /\ ~modem_scan_running
      <3>1. ~Modem!Beside(c)
        BY <1>5, <2>2
      <3> QED BY <2>2, <3>1, Goes
    <2> QED BY <1>2, <2>1, <2>2
  <1>6. ASSUME ~overlap'
        PROVE  JobIsWorker' /\ TestsStillHold' /\ Settled' /\ Powered' /\ ResultComes'
               /\ NoEventYet'
    <2> USE <1>1, <1>5, <1>6 DEF ModemInv, Creating, Only, Nobody, AsBefore, Modem!power, Modem!job, Modem!scan, Modem!prompt
    <2>1. JobIsWorker'
      BY DEF JobIsWorker
    <2>2. TestsStillHold'
      BY DEF TestsStillHold
    <2>3. Settled'
      BY DEF Settled, Starts
    <2>4. Powered'
      BY DEF Powered
    <2>5. ResultComes' /\ NoEventYet'
      BY DEF ResultComes, NoEventYet, Modem!Booting
    <2> QED BY <2>1, <2>2, <2>3, <2>4, <2>5
  <1> QED BY <1>4, <1>5, <1>6 DEF ModemInv

(* A command acts. *)
LEMMA ModemActs ==
  ASSUME Modem!ModemAssumption, ModemInv, ~overlap, NEW c \in Commanders,
         \/ Modem!PowerOn(c) \/ Modem!PowerOff(c) \/ Modem!ScanStart(c)
         \/ Modem!StartWorker(c) \/ Modem!CreateTask(c) \/ Modem!Undo(c) \/ Modem!Say(c)
  PROVE  ModemInv'
  <1> USE DEF Modem!power, Modem!job, Modem!scan, Modem!prompt, Modem!modemIsPowered,
              Modem!modemOperationInProgress
  <1>1. PICK here \in Modem!Places, next \in Modem!Places : Modem!Go(c, here, next)
    BY DEF Modem!PowerOn, Modem!PowerOff, Modem!ScanStart, Modem!StartWorker,
           Modem!CreateTask, Modem!Undo, Modem!Say, Modem!Places, Modem!Inside, Modem!Scanning
  <1>2. command' \in [Commanders -> Modem!Places] /\ UNCHANGED <<overlap, commands>>
    BY <1>1, Goes DEF Modem!PowerOn, Modem!PowerOff, Modem!ScanStart, Modem!StartWorker,
           Modem!CreateTask, Modem!Undo, Modem!Say
  <1>3. Flags'
    BY <1>2, ZenonT(60) DEF Modem!PowerOn, Modem!PowerOff, Modem!ScanStart, Modem!StartWorker,
           Modem!CreateTask, Modem!Undo, Modem!Say, ModemInv, Modem!TypeOK, Flags
  <1>4. Modem!TypeOK'
    BY <1>2, <1>3 DEF Modem!PowerOn, Modem!PowerOff, Modem!ScanStart, Modem!StartWorker,
           Modem!CreateTask, Modem!Undo, Modem!Say, ModemInv, Modem!TypeOK, Flags
  <1> DEFINE Rest == /\ JobIsWorker' /\ TestsStillHold' /\ Settled' /\ Powered' /\ ResultComes'
                     /\ NoEventYet'
  <1> USE DEF ModemInv, Modem!TypeOK, JobIsWorker, Creating, TestsStillHold, Settled, Starts,
              Powered, ResultComes, NoEventYet, Modem!Booting, Modem!Scanning, Modem!Inside,
              Only, AsBefore
  <1>5. ASSUME NEW p \in Modem!Inside, NEW q \in Modem!Places, Modem!Go(c, p, q)
        PROVE  OneCommand' /\ Only(p) /\ Only(q)'
    BY <1>5, Goes DEF Modem!Places
  <1>6. CASE Modem!PowerOn(c)
    <2>1. OneCommand' /\ Only("boot") /\ Only("startPower")'
      BY <1>5, <1>6 DEF Modem!PowerOn, Modem!Places, Modem!Inside
    <2>2. ~stale' => ~stale /\ power_event = "none" /\ modem_job = "none"
      BY <1>6, Zenon DEF Modem!PowerOn
    <2>3. /\ modem_state' = "BOOTING"
          /\ UNCHANGED <<power_en, Modem!job, Modem!scan, power_event, Modem!prompt, refused>>
      BY <1>6 DEF Modem!PowerOn
    <2>4. JobIsWorker' /\ TestsStillHold' /\ Settled' /\ Powered' /\ ResultComes'
      BY <2>1, <2>3
    <2>5. NoEventYet'
      BY <2>1, <2>2, <2>3
    <2> QED BY <1>4, <2>1, <2>4, <2>5
  <1>7. CASE Modem!PowerOff(c)
    <2>1. \/ Modem!Go(c, "cut", "sayOff") /\ power_en' = FALSE /\ UNCHANGED modem_state
          \/ Modem!Go(c, "sayOff", "noticeOff") /\ modem_state' = "OFF" /\ UNCHANGED power_en
      BY <1>7 DEF Modem!PowerOff
    <2>2. CASE Modem!Go(c, "cut", "sayOff") /\ power_en' = FALSE /\ UNCHANGED modem_state
      <3>1. OneCommand' /\ Only("cut") /\ Only("sayOff")'
        BY <1>5, <2>2 DEF Modem!Places, Modem!Inside
      <3>2. Rest
        BY <1>7, <2>2, <3>1 DEF Modem!PowerOff
      <3> QED BY <1>4, <3>1, <3>2
    <2>3. CASE Modem!Go(c, "sayOff", "noticeOff") /\ modem_state' = "OFF" /\ UNCHANGED power_en
      <3>1. OneCommand' /\ Only("sayOff") /\ Only("idle")'
        BY <1>5, <2>3 DEF Modem!Places, Modem!Inside
      <3>2. Rest
        BY <1>7, <2>3, <3>1 DEF Modem!PowerOff
      <3> QED BY <1>4, <3>1, <3>2
    <2> QED BY <2>1, <2>2, <2>3
  <1>8. CASE Modem!ScanStart(c)
    <2>1. OneCommand' /\ Only("mark") /\ Only("startScan")'
      BY <1>5, <1>8 DEF Modem!ScanStart, Modem!Places, Modem!Inside
    <2>2. ~modem_scan_restore_off' => modem_state \in {"ON", "SCANNING", "BOOTING"}
      BY <1>8, Zenon DEF Modem!ScanStart
    <2>3. Rest
      BY <1>8, <2>1, <2>2 DEF Modem!ScanStart
    <2> QED BY <1>4, <2>1, <2>3
  <1>9. CASE Modem!StartWorker(c)
    <2>1. CASE Modem!Go(c, "startPower", "createPower") /\ modem_job' = "power"
               /\ modem_job = "none" /\ ~modem_task_handle /\ UNCHANGED refused
      <3>1. OneCommand' /\ Only("startPower") /\ Only("createPower")'
        BY <1>5, <2>1 DEF Modem!Places, Modem!Inside
      <3>2. Rest
        BY <1>9, <2>1, <3>1 DEF Modem!StartWorker
      <3> QED BY <1>4, <3>1, <3>2
    <2>2. CASE Modem!Go(c, "startScan", "createScan") /\ modem_job' = "scan"
               /\ modem_job = "none" /\ ~modem_task_handle /\ UNCHANGED refused
      <3>1. OneCommand' /\ Only("startScan") /\ Only("createScan")'
        BY <1>5, <2>2 DEF Modem!Places, Modem!Inside
      <3>2. Rest
        BY <1>9, <2>2, <3>1 DEF Modem!StartWorker
      <3> QED BY <1>4, <3>1, <3>2
    <2>3. CASE Modem!Go(c, "startPower", "idle") /\ refused' = TRUE /\ UNCHANGED modem_job
      <3>1. OneCommand' /\ Only("startPower") /\ Only("idle")'
        BY <1>5, <2>3 DEF Modem!Places, Modem!Inside
      <3>2. Rest
        BY <1>9, <2>3, <3>1 DEF Modem!StartWorker
      <3> QED BY <1>4, <3>1, <3>2
    <2>4. CASE Modem!Go(c, "startScan", "undo") /\ refused' = TRUE /\ UNCHANGED modem_job
      <3>1. OneCommand' /\ Only("startScan") /\ Only("undo")'
        BY <1>5, <2>4 DEF Modem!Places, Modem!Inside
      <3>2. Rest
        BY <1>9, <2>4, <3>1 DEF Modem!StartWorker
      <3> QED BY <1>4, <3>1, <3>2
    <2> QED BY <1>9, <2>1, <2>2, <2>3, <2>4 DEF Modem!StartWorker
  <1>10. CASE Modem!CreateTask(c)
    <2>1. ASSUME NEW p \in {"createPower", "createScan"}, NEW q \in {"noticeOn", "sayScan"}, Modem!Go(c, p, q),
                 p = "createScan" <=> q = "sayScan",
                 modem_task_handle' = TRUE, worker' = "begin", UNCHANGED <<modem_job, refused>>
          PROVE  ModemInv'
      <3>1. OneCommand' /\ Only(p) /\ Only(q)'
        BY <1>5, <2>1 DEF Modem!Places, Modem!Inside
      <3>2. Rest
        BY <1>10, <2>1, <3>1 DEF Modem!CreateTask
      <3> QED BY <1>4, <3>1, <3>2
    <2>2. ASSUME NEW p \in {"createPower", "createScan"}, NEW q \in {"idle", "undo"}, Modem!Go(c, p, q),
                 p = "createScan" <=> q = "undo",
                 modem_job' = "none", modem_task_handle' = FALSE, refused' = TRUE,
                 UNCHANGED worker
          PROVE  ModemInv'
      <3>1. OneCommand' /\ Only(p) /\ Only(q)'
        BY <1>5, <2>2 DEF Modem!Places, Modem!Inside
      <3>2. /\ ~Creating' /\ ~Starts' /\ worker = "none"
            /\ UNCHANGED <<Modem!power, Modem!scan, power_event, Modem!prompt, stale>>
        BY <1>10, <2>2, <3>1 DEF Modem!CreateTask
      <3>3. \A place \in Modem!Inside : Doing(place)' => place = "undo"
        BY <2>2, <3>1
      <3>4. JobIsWorker'
        BY <2>2, <3>2, <3>3
      <3>5. Doing("undo")' => ~modem_scan_pending'
        BY <1>10, <2>2, <3>1 DEF Modem!CreateTask
      <3>6. TestsStillHold'
        BY <2>2, <3>2, <3>3, <3>5
      <3>7. Settled' /\ Powered' /\ ResultComes' /\ NoEventYet'
        BY <2>2, <3>2, <3>3
      <3> QED BY <1>4, <3>1, <3>4, <3>6, <3>7
    <2> QED BY <1>10, <2>1, <2>2 DEF Modem!CreateTask
  <1>11. CASE Modem!Undo(c)
    <2>1. OneCommand' /\ Only("undo") /\ Only("idle")'
      BY <1>5, <1>11 DEF Modem!Undo, Modem!Places, Modem!Inside
    <2>2. Rest
      BY <1>11, <2>1 DEF Modem!Undo
    <2> QED BY <1>4, <2>1, <2>2
  <1>12. CASE Modem!Say(c)
    <2>1. CASE Modem!Go(c, "sayScan", "idle")
      <3>1. OneCommand' /\ Only("sayScan") /\ Only("idle")'
        BY <1>5, <2>1 DEF Modem!Places, Modem!Inside
      <3>2. Rest
        BY <1>12, <2>1, <3>1 DEF Modem!Say, Modem!Go
      <3> QED BY <1>4, <3>1, <3>2
    <2>2. CASE /\ Modem!Go(c, "noticeOn", "idle") \/ Modem!Go(c, "noticeOff", "idle")
               /\ UNCHANGED modem_scan_pending
      <3>1. OneCommand' /\ AsBefore
        BY <2>2, Goes DEF Modem!Places, Modem!Inside
      <3>2. Rest
        BY <1>12, <2>2, <3>1 DEF Modem!Say
      <3> QED BY <1>4, <3>1, <3>2
    <2> QED BY <1>12, <2>1, <2>2 DEF Modem!Say
  <1> QED BY <1>6, <1>7, <1>8, <1>9, <1>10, <1>11, <1>12

(* The worker takes a step. *)
LEMMA ModemWorks ==
  ASSUME Modem!ModemAssumption, ModemInv, ~overlap, Modem!Worker
  PROVE  ModemInv'
  <1>0. OneCommand' /\ AsBefore /\ UNCHANGED <<Modem!prompt, Modem!bounds>>
    BY DEF ModemInv, OneCommand, AsBefore, Doing, Modem!Worker, Modem!bounds, Modem!prompt,
           Modem!WorkerUnchanged,
           Modem!Begin, Modem!Boot, Modem!Answers, Modem!AtTimeout, Modem!BootFailed,
           Modem!Booted, Modem!Ping, Modem!NoPing, Modem!NoAnswer, Modem!Dwell,
           Modem!Scanned, Modem!ClearJob, Modem!ClearHandle
  <1>9. /\ Creating' <=> Creating
        /\ Starts' <=> Starts
        /\ \A p \in Modem!Inside : Doing(p)' <=> Doing(p)
        /\ {"mark", "cut", "sayOff", "createPower", "createScan", "startPower", "startScan",
            "sayScan", "undo"} \cup Modem!Scanning \subseteq Modem!Inside
    BY <1>0 DEF AsBefore, Creating, Starts, Modem!Inside, Modem!Scanning
  <1>10. UNCHANGED <<Modem!prompt, Modem!bounds>> /\ OneCommand'
    BY <1>0
  <1> USE <1>10 DEF Modem!power, Modem!job, Modem!scan, Modem!prompt, Modem!bounds, Modem!At,
              Modem!WorkerUnchanged, Modem!CutPower, Modem!EndScan,
              Modem!Begin, Modem!Boot, Modem!Answers, Modem!AtTimeout, Modem!BootFailed,
              Modem!Booted, Modem!Ping, Modem!NoPing, Modem!NoAnswer, Modem!Dwell,
              Modem!Scanned, Modem!ClearJob, Modem!ClearHandle
  <1>1. Flags'
    BY ZenonT(40) DEF Modem!Worker, ModemInv, Modem!TypeOK, Flags
  <1>2. Modem!TypeOK'
    BY <1>1 DEF Modem!Worker, ModemInv, Modem!TypeOK, Flags
  <1>3. JobIsWorker'
    BY <1>0 DEF Modem!Worker, ModemInv, Modem!TypeOK, JobIsWorker, AsBefore, Modem!Inside,
                Modem!Scanning, Creating
  <1>4. TestsStillHold'
    BY <1>9 DEF Modem!Worker, ModemInv, Modem!TypeOK, TestsStillHold, JobIsWorker, Creating
  <1>5. Settled'
    BY <1>9 DEF Modem!Worker, ModemInv, Modem!TypeOK, JobIsWorker, Settled
  <1>6. Powered'
    BY <1>9 DEF Modem!Worker, ModemInv, Modem!TypeOK, JobIsWorker, TestsStillHold, Settled,
       Powered, Creating
  <1>7. ResultComes'
    BY DEF Modem!Worker, ModemInv, Modem!TypeOK, ResultComes
  <1>8. NoEventYet'
    BY <1>0 DEF Modem!Worker, ModemInv, Modem!TypeOK, JobIsWorker, NoEventYet, Modem!Booting,
                AsBefore, Modem!Inside, Modem!Scanning, Creating
  <1> QED BY <1>2, <1>3, <1>4, <1>5, <1>6, <1>7, <1>8 DEF ModemInv

(* loop() shows an outcome. *)
LEMMA ModemPolled ==
  ASSUME Modem!ModemAssumption, ModemInv, ~overlap, Modem!Poll
  PROVE  ModemInv'
  <1>0. OneCommand' /\ AsBefore /\ UNCHANGED Modem!bounds
    BY DEF ModemInv, OneCommand, AsBefore, Doing, Modem!Poll, Modem!modemScanPoll,
           Modem!modemPowerNotifyPoll, Modem!bounds
  <1> USE <1>0 DEF AsBefore, Modem!Inside, Modem!Scanning, Creating, Starts,
              Modem!Poll, Modem!modemScanPoll, Modem!modemPowerNotifyPoll, Modem!power,
              Modem!job, Modem!scan, Modem!bounds
  <1>1. Flags'
    BY Zenon DEF ModemInv, Modem!TypeOK, Flags
  <1>2. Modem!TypeOK'
    BY <1>1 DEF ModemInv, Modem!TypeOK, Flags
  <1>3. JobIsWorker' /\ Settled' /\ Powered' /\ ResultComes' /\ NoEventYet'
    BY DEF ModemInv, JobIsWorker, Settled, Powered, ResultComes, NoEventYet, Modem!Booting
  <1>4. TestsStillHold'
    BY DEF ModemInv, TestsStillHold, Modem!Scanning
  <1> QED BY <1>2, <1>3, <1>4 DEF ModemInv

(* Every step keeps the modem's invariant. *)
LEMMA NextModemInv ==
  ASSUME Modem!ModemAssumption, ModemInv, [Modem!Next]_Modem!vars PROVE ModemInv'
  <1>1. CASE Modem!Next
    <2>1. ~overlap
      BY <1>1 DEF Modem!Next
    <2>2. CASE \E c \in Commanders : Modem!Toggle(c) \/ Modem!ScanCommand(c) \/ Modem!Act(c)
      <3>1. PICK c \in Commanders : Modem!Toggle(c) \/ Modem!ScanCommand(c) \/ Modem!Act(c)
        BY <2>2
      <3> QED BY <2>1, <3>1, ModemTests, ModemActs DEF Modem!Act
    <2>3. CASE Modem!Worker \/ Modem!Poll
      BY <2>1, <2>3, ModemWorks, ModemPolled
    <2> QED BY <1>1, <2>2, <2>3 DEF Modem!Next
  <1>2. CASE UNCHANGED Modem!vars
    <2>1. /\ OneCommand' <=> OneCommand
          /\ \A p : Doing(p)' <=> Doing(p)
      BY <1>2 DEF Modem!vars, Modem!bounds, OneCommand, Doing
    <2>2. Modem!TypeOK'
      BY <1>2 DEF Modem!vars, Modem!power, Modem!job, Modem!scan, Modem!prompt, Modem!bounds,
         ModemInv, Modem!TypeOK
    <2> QED
      BY <1>2, <2>1, <2>2 DEF Modem!vars, Modem!power, Modem!job, Modem!scan, Modem!prompt,
         Modem!bounds, ModemInv, JobIsWorker, TestsStillHold, Settled, Powered, ResultComes,
         NoEventYet, Modem!Booting, Creating, Starts
  <1> QED BY <1>1, <1>2

(* What the user sees of the modem is what its worker does. *)
LEMMA HonestModem == ASSUME ModemInv PROVE Modem!ModemHonest
  <1>1. Starts => Modem!Starting
    BY DEF Doing, Starts, Creating, Modem!Starting
  <1> QED BY <1>1 DEF ModemInv, Modem!TypeOK, JobIsWorker, Settled, Powered, ResultComes,
                      NoEventYet, Modem!ModemHonest, Modem!Booting

(* The inductive invariant of the modem. *)
THEOREM ModemInvariance ==
  ASSUME Modem!ModemAssumption PROVE Modem!Spec => []ModemInv
  <1>1. Modem!Init => ModemInv
    BY ModemStarts
  <1>2. ModemInv /\ [Modem!Next]_Modem!vars => ModemInv'
    BY NextModemInv
  <1> QED BY <1>1, <1>2, PTL DEF Modem!Spec

(* The types of the modem's flags (modem_module.hpp). *)
THEOREM ModemTyping ==
  ASSUME Modem!ModemAssumption PROVE Modem!Spec => []Modem!TypeOK
  <1>1. ModemInv => Modem!TypeOK
    BY DEF ModemInv
  <1> QED BY <1>1, ModemInvariance, PTL

(* What the user sees of the modem is what its worker does: BOOTING and    *)
(* SCANNING have a worker, a worker that talks to the modem has the supply *)
(* on, a result that is waited for comes, and "Modem ready" is not shown   *)
(* while it boots.  Until a command passes its tests while another is past *)
(* its own, a worker was refused, or an earlier job's event could be taken *)
(* for the new one's.                                                      *)
THEOREM ModemIsHonest ==
  ASSUME Modem!ModemAssumption PROVE Modem!Spec => []Modem!ModemHonest
  <1>1. ModemInv => Modem!ModemHonest
    BY HonestModem
  <1> QED BY <1>1, ModemInvariance, PTL

-----------------------------------------------------------------------------
(* WiFi.                                                                   *)

Joining == {"disconnect", "begin", "poll"}

(* A task that joins has a network left to try.                            *)
SomeLeft == \A t \in Wifi!Tasks : pc[t] \in Joining => left[t] >= 1

(* One task at a time: then an idle state has no link unless a task joins, *)
(* WiFi that was switched off stays off until a command begins to join,    *)
(* and between the two statements of switching off the radio stays off.    *)
OneTask ==
  ~beside =>
    /\ \A t, u \in Wifi!Tasks : pc[t] # "idle" /\ pc[u] # "idle" => t = u
    /\ \A t \in Wifi!Tasks : pc[t] = "say off" => radio = "off"
    /\ wifi_state = "IDLE" =>
         radio \in {"off", "no link"} \/ \E t \in Wifi!Tasks : pc[t] \in Joining
    /\ off => /\ wifi_state = "IDLE" /\ radio \in {"off", "no link"}
              /\ \A t \in Wifi!Tasks : pc[t] \in {"idle", "known"}

WifiInv == Wifi!TypeOK /\ SomeLeft /\ OneTask

(* How many networks a task may have left. *)
LEMMA TryCount ==
  ASSUME Wifi!WifiAssumption
  PROVE  /\ 0 \in Wifi!Tries /\ 1 \in Wifi!Tries /\ APs \in Wifi!Tries
         /\ \A n \in Wifi!Tries : n \in Nat /\ (n >= 1 => n - 1 \in Wifi!Tries)
  BY DEF Wifi!WifiAssumption, Wifi!Tries

(* Switching the station on. *)
LEMMA StationOn ==
  ASSUME WifiInv, Wifi!WiFiOn
  PROVE  /\ radio' \in {"off", "no link", "joining", "up"}
         /\ radio \in {"off", "no link"} => radio' = "no link"
  BY DEF WifiInv, Wifi!TypeOK, Wifi!WiFiOn

(* Everything is off and nobody is inside. *)
LEMMA WifiStarts ==
  ASSUME Wifi!WifiAssumption, Wifi!Init PROVE WifiInv
  <1>1. left \in [Wifi!Tasks -> Wifi!Tries]
        /\ bounds \in [commands : 0 .. MaxCommands, changes : 0 .. MaxChanges]
    BY TryCount DEF Wifi!WifiAssumption, Wifi!Init
  <1>2. Wifi!TypeOK
    BY <1>1, Zenon DEF Wifi!Init, Wifi!TypeOK
  <1>3. SomeLeft /\ OneTask
    BY DEF Wifi!Init, SomeLeft, OneTask, Joining
  <1> QED BY <1>2, <1>3 DEF WifiInv

(* A bound counter goes up by one while it is below its bound. *)
LEMMA CountUp ==
  ASSUME Wifi!WifiAssumption, WifiInv,
         \/ bounds.commands < MaxCommands /\ bounds' = [bounds EXCEPT !.commands = @ + 1]
         \/ bounds.changes < MaxChanges /\ bounds' = [bounds EXCEPT !.changes = @ + 1]
  PROVE  bounds' \in [commands : 0 .. MaxCommands, changes : 0 .. MaxChanges]
  <1>1. /\ bounds.commands \in 0 .. MaxCommands /\ bounds.changes \in 0 .. MaxChanges
        /\ bounds = [commands |-> bounds.commands, changes |-> bounds.changes]
    BY DEF WifiInv, Wifi!TypeOK
  <1>2. CASE bounds.commands < MaxCommands /\ bounds' = [bounds EXCEPT !.commands = @ + 1]
    BY <1>1, <1>2 DEF Wifi!WifiAssumption
  <1>3. CASE bounds.changes < MaxChanges /\ bounds' = [bounds EXCEPT !.changes = @ + 1]
    BY <1>1, <1>3 DEF Wifi!WifiAssumption
  <1> QED BY <1>2, <1>3

(* What every beginning of a command has in common. *)
LEMMA WifiBegin ==
  ASSUME Wifi!WifiAssumption, WifiInv, NEW c \in Wifi!Tasks, NEW where, Wifi!Begin(c, where)
  PROVE  /\ bounds' \in [commands : 0 .. MaxCommands, changes : 0 .. MaxChanges]
         /\ beside' \in BOOLEAN /\ (~beside' => ~beside /\ Wifi!Idle)
         /\ pc[c] = "idle" /\ pc' = [pc EXCEPT ![c] = where]
  <1>1. bounds' \in [commands : 0 .. MaxCommands, changes : 0 .. MaxChanges]
    BY CountUp DEF Wifi!Begin
  <1>2. beside' \in BOOLEAN /\ (~beside' => ~beside /\ Wifi!Idle)
    BY Zenon DEF Wifi!Begin, WifiInv, Wifi!TypeOK
  <1> QED BY <1>1, <1>2 DEF Wifi!Begin, Wifi!Goto

(* A command that is typed. *)
LEMMA WifiTyped ==
  ASSUME Wifi!WifiAssumption, WifiInv, NEW c \in Commanders,
         \/ Wifi!wifiToggleCommand(c) \/ Wifi!ensureClockForDateDaily(c)
         \/ Wifi!wifiPickerConnectSelectedNetwork(c) \/ Wifi!wifiScanCommand(c)
  PROVE  WifiInv'
  <1>1. c \in Wifi!Tasks
    BY DEF Wifi!Tasks
  <1>2. ASSUME Wifi!wifiToggleCommand(c) \/ Wifi!ensureClockForDateDaily(c) PROVE WifiInv'
    <2>1. PICK where \in {"switch off", "known"} :
            /\ Wifi!Begin(c, where) /\ (where = "switch off" => wifi_state = "CONNECTED")
            /\ UNCHANGED <<wifi_state, radio, left, ssh_connecting, off>>
      BY <1>2 DEF Wifi!wifiToggleCommand, Wifi!ensureClockForDateDaily
    <2>2. /\ pc[c] = "idle" /\ pc' = [pc EXCEPT ![c] = where]
         /\ bounds' \in [commands : 0 .. MaxCommands, changes : 0 .. MaxChanges]
         /\ beside' \in BOOLEAN /\ (~beside' => ~beside /\ Wifi!Idle)
      BY <1>1, <2>1, WifiBegin
    <2>3. Wifi!TypeOK'
      BY <2>1, <2>2, StationOn DEF Wifi!WifiAssumption, WifiInv, Wifi!TypeOK
    <2>4. SomeLeft'
      BY <1>1, <2>1, <2>2, StationOn DEF Wifi!WifiAssumption, WifiInv, Wifi!TypeOK, SomeLeft, Joining
    <2>5. OneTask'
      BY <1>1, <2>1, <2>2, StationOn DEF WifiInv, Wifi!TypeOK, OneTask, Wifi!Idle, Joining
    <2> QED BY <2>3, <2>4, <2>5 DEF WifiInv
  <1>3. CASE Wifi!Begin(c, "disconnect") /\ left' = [left EXCEPT ![c] = 1] /\ Wifi!WiFiOn
             /\ UNCHANGED <<wifi_state, ssh_connecting>> /\ off' = FALSE
    <2>1. /\ pc[c] = "idle" /\ pc' = [pc EXCEPT ![c] = "disconnect"]
         /\ bounds' \in [commands : 0 .. MaxCommands, changes : 0 .. MaxChanges]
         /\ beside' \in BOOLEAN /\ (~beside' => ~beside /\ Wifi!Idle)
      BY <1>1, <1>3, WifiBegin
    <2>2. Wifi!TypeOK'
      BY <1>3, <2>1, TryCount, StationOn DEF Wifi!WifiAssumption, WifiInv, Wifi!TypeOK
    <2>3. SomeLeft'
      <3> SUFFICES ASSUME NEW u \in Wifi!Tasks, pc'[u] \in Joining PROVE left'[u] >= 1
        BY DEF SomeLeft
      <3>1. CASE u = c
        <4>1. left'[u] = 1
          BY <1>1, <1>3, <3>1 DEF WifiInv, Wifi!TypeOK
        <4> QED BY <4>1
      <3>2. CASE u # c
        BY <1>3, <2>1, <3>2 DEF WifiInv, Wifi!TypeOK, SomeLeft
      <3> QED BY <3>1, <3>2
    <2>4. OneTask'
      BY <1>1, <1>3, <2>1, TryCount, StationOn DEF WifiInv, Wifi!TypeOK, OneTask, Wifi!Idle, Joining
    <2> QED BY <2>2, <2>3, <2>4 DEF WifiInv
  <1>4. CASE Wifi!Begin(c, "idle") /\ wifi_state' = "FAILED" /\ off' = FALSE
             /\ UNCHANGED <<left, radio, ssh_connecting>>
    <2>1. /\ pc[c] = "idle" /\ pc' = [pc EXCEPT ![c] = "idle"]
         /\ bounds' \in [commands : 0 .. MaxCommands, changes : 0 .. MaxChanges]
         /\ beside' \in BOOLEAN /\ (~beside' => ~beside /\ Wifi!Idle)
      BY <1>1, <1>4, WifiBegin
    <2>2. Wifi!TypeOK'
      BY <1>4, <2>1 DEF Wifi!WifiAssumption, WifiInv, Wifi!TypeOK
    <2>3. SomeLeft'
      BY <1>1, <1>4, <2>1 DEF Wifi!WifiAssumption, WifiInv, Wifi!TypeOK, SomeLeft, Joining
    <2>4. OneTask'
      BY <1>1, <1>4, <2>1 DEF WifiInv, Wifi!TypeOK, OneTask, Wifi!Idle, Joining
    <2> QED BY <2>2, <2>3, <2>4 DEF WifiInv
  <1>5. CASE Wifi!wifiScanCommand(c)
    <2>1. Wifi!Begin(c, "idle") /\ Wifi!WiFiOn /\ UNCHANGED <<wifi_state, left, ssh_connecting, off>>
      BY <1>5 DEF Wifi!wifiScanCommand
    <2>2. /\ pc[c] = "idle" /\ pc' = [pc EXCEPT ![c] = "idle"]
         /\ bounds' \in [commands : 0 .. MaxCommands, changes : 0 .. MaxChanges]
         /\ beside' \in BOOLEAN /\ (~beside' => ~beside /\ Wifi!Idle)
      BY <1>1, <2>1, WifiBegin
    <2>3. Wifi!TypeOK'
      BY <2>1, <2>2, StationOn DEF Wifi!WifiAssumption, WifiInv, Wifi!TypeOK
    <2>4. SomeLeft'
      BY <1>1, <2>1, <2>2, StationOn DEF Wifi!WifiAssumption, WifiInv, Wifi!TypeOK, SomeLeft, Joining
    <2>5. OneTask'
      BY <1>1, <2>1, <2>2, StationOn DEF WifiInv, Wifi!TypeOK, OneTask, Wifi!Idle, Joining
    <2> QED BY <2>3, <2>4, <2>5 DEF WifiInv
  <1> QED BY <1>2, <1>3, <1>4, <1>5 DEF Wifi!wifiPickerConnectSelectedNetwork

(* A session is asked for. *)
LEMMA WifiSession ==
  ASSUME Wifi!WifiAssumption, WifiInv, Wifi!sshConnectAsync
  PROVE  WifiInv'
  <1>1. "connect" \in Wifi!Tasks
    BY DEF Wifi!Tasks
  <1>2. /\ pc["connect"] = "idle" /\ ssh_connecting' = TRUE /\ UNCHANGED wifi_state
        /\ \/ /\ wifi_state = "CONNECTED" /\ pc' = [pc EXCEPT !["connect"] = "session"]
              /\ UNCHANGED <<radio, left, off>>
           \/ /\ wifi_state # "CONNECTED"
              /\ pc' = [pc EXCEPT !["connect"] = IF APs = 0 THEN "joined" ELSE "disconnect"]
              /\ Wifi!WiFiOn /\ left' = [left EXCEPT !["connect"] = APs] /\ off' = FALSE
    BY DEF Wifi!sshConnectAsync, Wifi!Goto
  <1>3. bounds' \in [commands : 0 .. MaxCommands, changes : 0 .. MaxChanges]
    BY CountUp DEF Wifi!sshConnectAsync
  <1>4. beside' \in BOOLEAN /\ (~beside' => ~beside /\ Wifi!Idle)
    BY Zenon DEF Wifi!sshConnectAsync, WifiInv, Wifi!TypeOK
  <1>5. Wifi!TypeOK'
    BY <1>2, <1>3, <1>4, TryCount, StationOn DEF Wifi!WifiAssumption, WifiInv, Wifi!TypeOK
  <1>6. SomeLeft'
    <2> SUFFICES ASSUME NEW u \in Wifi!Tasks, pc'[u] \in Joining PROVE left'[u] >= 1
      BY DEF SomeLeft
    <2>1. CASE u = "connect"
      <3>1. left' = [left EXCEPT !["connect"] = APs] /\ APs # 0
        BY <1>1, <1>2, <2>1 DEF WifiInv, Wifi!TypeOK, Joining
      <3>2. left'[u] = APs
        BY <2>1, <3>1 DEF WifiInv, Wifi!TypeOK
      <3> QED BY <3>1, <3>2 DEF Wifi!WifiAssumption
    <2>2. CASE u # "connect"
      BY <1>2, <2>2 DEF WifiInv, Wifi!TypeOK, SomeLeft
    <2> QED BY <2>1, <2>2
  <1>7. OneTask'
    <2> SUFFICES ASSUME ~beside' PROVE OneTask'
      BY DEF OneTask
    <2>1. /\ \A u \in Wifi!Tasks : pc'[u] # "idle" => u = "connect"
          /\ pc'["connect"] \in {"session", "joined", "disconnect"}
      BY <1>1, <1>2, <1>4 DEF WifiInv, Wifi!TypeOK, Wifi!Idle
    <2>2. /\ wifi_state = "IDLE" => radio \in {"off", "no link"}
          /\ off => wifi_state = "IDLE"
      BY <1>4 DEF WifiInv, OneTask, Wifi!Idle, Joining
    <2>3. wifi_state' = "IDLE" => radio' \in {"off", "no link"}
      BY <1>2, <2>2, StationOn
    <2>4. ~off'
      BY <1>2, <2>2
    <2> QED BY <2>1, <2>3, <2>4 DEF OneTask
  <1> QED BY <1>5, <1>6, <1>7 DEF WifiInv

(* A task takes a step. *)
LEMMA WifiStep ==
  ASSUME Wifi!WifiAssumption, WifiInv, NEW t \in Wifi!Tasks, Wifi!Step(t)
  PROVE  WifiInv'
  <1>1. "connect" \in Wifi!Tasks
    BY DEF Wifi!Tasks
  <1> USE DEF Wifi!Goto, WifiInv, Wifi!TypeOK, SomeLeft, OneTask, Joining
  <1>2. CASE Wifi!Known(t)
    <2>1. CASE pc' = [pc EXCEPT ![t] = "idle"] /\ left' = left
      BY <1>2, <2>1, StationOn DEF Wifi!Known
    <2>2. CASE pc' = [pc EXCEPT ![t] = "disconnect"] /\ left' = [left EXCEPT ![t] = APs] /\ APs # 0
      <3>1. /\ pc[t] = "known" /\ off' = FALSE /\ Wifi!WiFiOn
            /\ UNCHANGED <<wifi_state, ssh_connecting, beside, bounds>>
        BY <1>2, <2>2 DEF Wifi!Known
      <3>2. Wifi!TypeOK' /\ OneTask'
        BY <2>2, <3>1, TryCount, StationOn
      <3>3. ASSUME NEW u \in Wifi!Tasks, pc'[u] \in Joining PROVE left'[u] >= 1
        <4>1. CASE u = t
          <5>1. left'[u] = APs
            BY <2>2, <4>1
          <5>2. APs \in Nat
            BY DEF Wifi!WifiAssumption
          <5> QED BY ONLY <2>2, <5>1, <5>2
        <4>2. CASE u # t
          BY <2>2, <3>3, <4>2
        <4> QED BY <4>1, <4>2
      <3> QED BY <3>2, <3>3
    <2> QED BY <1>2, <2>1, <2>2 DEF Wifi!Known
  <1>3. CASE Wifi!SwitchOff(t)
    BY <1>3 DEF Wifi!SwitchOff
  <1>4. CASE Wifi!SayOff(t)
    BY <1>4 DEF Wifi!SayOff
  <1>5. CASE Wifi!Disconnect(t)
    BY <1>5 DEF Wifi!Disconnect
  <1>6. CASE Wifi!BeginJoin(t)
    BY <1>6 DEF Wifi!BeginJoin
  <1>7. CASE Wifi!Poll(t)
    <2>1. ssh_connecting' \in BOOLEAN
      BY <1>7, Zenon DEF Wifi!Poll
    <2>2. pc[t] = "poll" /\ left[t] \in Nat /\ left[t] >= 1 /\ left[t] - 1 \in Wifi!Tries
          /\ UNCHANGED <<radio, off, beside, bounds>>
      BY <1>7, TryCount DEF Wifi!Poll
    <2>3. off /\ ~beside => FALSE
      BY <2>2
    <2>4. CASE radio = "up"
      <3>1. /\ wifi_state' = "CONNECTED" /\ left' = [left EXCEPT ![t] = 0]
            /\ pc' = [pc EXCEPT ![t] = IF t = "connect" THEN "session" ELSE "idle"]
        BY <1>7, <2>4 DEF Wifi!Poll
      <3> QED BY <2>1, <2>2, <2>3, <3>1, TryCount
    <2>5. CASE radio # "up" /\ left[t] > 1
      <3>1. /\ wifi_state' \in {wifi_state, "FAILED"} /\ left' = [left EXCEPT ![t] = @ - 1]
            /\ pc' = [pc EXCEPT ![t] = "disconnect"]
        BY <1>7, <2>5 DEF Wifi!Poll
      <3>2. Wifi!TypeOK' /\ OneTask'
        BY <2>1, <2>2, <2>3, <3>1
      <3>3. ASSUME NEW u \in Wifi!Tasks, pc'[u] \in Joining PROVE left'[u] >= 1
        <4>1. CASE u = t
          <5>1. left'[u] = left[t] - 1
            BY <3>1, <4>1
          <5> QED BY ONLY <2>5, <2>2, <5>1
        <4>2. CASE u # t
          BY <3>1, <3>3, <4>2
        <4> QED BY <4>1, <4>2
      <3> QED BY <3>2, <3>3
    <2>6. CASE radio # "up" /\ ~(left[t] > 1)
      <3>1. /\ wifi_state' = "FAILED" /\ left' = [left EXCEPT ![t] = @ - 1]
            /\ pc' = [pc EXCEPT ![t] = "idle"]
        BY <1>7, <2>6 DEF Wifi!Poll
      <3> QED BY <2>1, <2>2, <2>3, <3>1
    <2> QED BY <2>4, <2>5, <2>6
  <1>8. CASE Wifi!NoAPs
    BY <1>1, <1>8 DEF Wifi!NoAPs
  <1>9. CASE Wifi!Session
    BY <1>1, <1>9 DEF Wifi!Session
  <1> QED BY <1>2, <1>3, <1>4, <1>5, <1>6, <1>7, <1>8, <1>9 DEF Wifi!Step

(* loop() looks at the link, and the network changes. *)
LEMMA WifiAround ==
  ASSUME Wifi!WifiAssumption, WifiInv, Wifi!wifiCheck \/ Wifi!Network
  PROVE  WifiInv'
  <1>1. CASE Wifi!wifiCheck
    BY <1>1 DEF Wifi!wifiCheck, WifiInv, Wifi!TypeOK, SomeLeft, OneTask, Joining
  <1>2. CASE Wifi!Network
    <2>1. bounds' \in [commands : 0 .. MaxCommands, changes : 0 .. MaxChanges]
      <3>1. CASE Wifi!Join
        BY <3>1 DEF Wifi!Join, WifiInv, Wifi!TypeOK
      <3>2. CASE Wifi!Change
        BY <3>2, CountUp DEF Wifi!Change
      <3> QED BY <1>2, <3>1, <3>2 DEF Wifi!Network
    <2>2. /\ radio \in {"joining", "up"} /\ radio' \in {"joining", "up", "no link"}
          /\ UNCHANGED <<wifi_state, pc, left, ssh_connecting, off, beside>>
      BY <1>2 DEF Wifi!Network, Wifi!Join, Wifi!Change
    <2>3. Wifi!TypeOK'
      BY <2>1, <2>2 DEF WifiInv, Wifi!TypeOK
    <2> QED BY <2>2, <2>3 DEF WifiInv, Wifi!TypeOK, SomeLeft, OneTask, Joining
  <1> QED BY <1>1, <1>2

(* Every step keeps WiFi's invariant. *)
LEMMA NextWifiInv ==
  ASSUME Wifi!WifiAssumption, WifiInv, [Wifi!Next]_Wifi!vars PROVE WifiInv'
  <1>1. CASE Wifi!Next
    BY <1>1, WifiTyped, WifiSession, WifiStep, WifiAround DEF Wifi!Next
  <1>2. CASE UNCHANGED Wifi!vars
    BY <1>2 DEF Wifi!vars, WifiInv, Wifi!TypeOK, SomeLeft, OneTask
  <1> QED BY <1>1, <1>2

(* The inductive invariant of WiFi. *)
THEOREM WifiInvariance ==
  ASSUME Wifi!WifiAssumption PROVE Wifi!Spec => []WifiInv
  <1>1. Wifi!Init => WifiInv
    BY WifiStarts
  <1>2. WifiInv /\ [Wifi!Next]_Wifi!vars => WifiInv'
    BY NextWifiInv
  <1> QED BY <1>1, <1>2, PTL DEF Wifi!Spec

(* The types of WiFi's state; above all, no task tries one network more    *)
(* than it has.                                                            *)
THEOREM WifiTyping ==
  ASSUME Wifi!WifiAssumption PROVE Wifi!Spec => []Wifi!TypeOK
  <1>1. WifiInv => Wifi!TypeOK
    BY DEF WifiInv
  <1> QED BY <1>1, WifiInvariance, PTL

(* When the tasks are done and none was inside beside another, an idle     *)
(* state has no link, and WiFi that was switched off is off.               *)
THEOREM StateFollowsLink ==
  ASSUME Wifi!WifiAssumption PROVE Wifi!Spec => []Wifi!StateIsLink
  <1>1. WifiInv => Wifi!StateIsLink
    BY DEF WifiInv, OneTask, Wifi!StateIsLink, Wifi!Idle, Joining
  <1> QED BY <1>1, WifiInvariance, PTL

-----------------------------------------------------------------------------
(* Bluetooth.                                                              *)

(* Steps that follow at once the one whose tests they rely on,             *)
AtOnce == {"create", "mark", "start", "deinit"}
Scans == {"prepare", "start"}

(* so that nothing is before them in what a task has to do; the setting is *)
(* cleared last, after the stack is gone, and a scan comes last.           *)
InOrder(s) ==
  \A k \in 1 .. Len(s) :
    /\ k > 1 => s[k] \notin AtOnce /\ (s[k] = "disabled" => s[k - 1] = "deinit")
    /\ s[k] \in Scans => k = Len(s)
TodoInOrder == \A c \in Commanders : InOrder(todo[c])

(* One task is inside, this is its next step, and this one is to come.     *)
OneInside == \A c, d \in Commanders : todo[c] # << >> /\ todo[d] # << >> => c = d
Now(step) == \E c \in Commanders : todo[c] # << >> /\ todo[c][1] = step
ToCome(step) == \E c \in Commanders : \E k \in 1 .. Len(todo[c]) : todo[c][k] = step

(* What the steps find.                                                    *)
TestsHold ==
  /\ Now("create") => config_bt_enabled /\ ~bt.initialized
  /\ Now("mark") => stack.adv \/ stack.peer
  /\ Now("start") => bt.initialized /\ ~bt_scan.running
  /\ ToCome("prepare") => ~bt_scan.running
  /\ Now("disabled") => ~bt.initialized

(* The stack is up when the flag says so, and then not without the         *)
(* setting, or when a btInit that failed left it so; nothing else is left  *)
(* of one that the flag says is down.                                      *)
StackKnown ==
  /\ stack.up <=> bt.initialized \/ stranded
  /\ bt.initialized => config_bt_enabled /\ ~stranded
  /\ ~bt.initialized => ~stack.adv /\ ~stack.peer /\ ~stack.scan /\ events = << >>

(* The peer is as the last event on its way says, or as the flag says.     *)
Links == {"connect", "disconnect"}
PeerKnown ==
  \/ /\ bt.connected <=> stack.peer
     /\ \A k \in 1 .. Len(events) : events[k] \notin Links
  \/ \E k \in 1 .. Len(events) :
       /\ events[k] = IF stack.peer THEN "connect" ELSE "disconnect"
       /\ \A j \in k + 1 .. Len(events) : events[j] \notin Links

(* The device is on the air when it thinks so, but for an event on its way. *)
AirKnown ==
  bt.advertising =>
    stack.adv \/ stack.peer \/ \E k \in 1 .. Len(events) : events[k] \in Links

(* A scan runs, or its end is on its way, once; none does when it is shut   *)
(* down.                                                                   *)
Scanned == {k \in 1 .. Len(events) : events[k] = "scanned"}
ScanKnown ==
  IF Now("deinit") THEN ~stack.scan /\ ~bt_scan.running
  ELSE /\ bt_scan.running <=> (stack.scan \/ Scanned # {})
       /\ stack.scan => Scanned = {}
       /\ \A j, k \in Scanned : j = k

BtInv ==
  /\ Bt!TypeOK /\ TodoInOrder
  /\ ~raced => OneInside /\ TestsHold /\ StackKnown /\ PeerKnown /\ AirKnown /\ ScanKnown

(* A list with its head replaced. *)
LEMMA Replaced ==
  ASSUME NEW S, NEW s \in Seq(S), s # << >>, NEW more \in Seq(S)
  PROVE  /\ more \o Tail(s) \in Seq(S) /\ Len(more \o Tail(s)) = Len(more) + Len(s) - 1
         /\ Len(s) \in Nat /\ Len(s) >= 1 /\ Len(more) \in Nat
         /\ \A k \in 1 .. Len(more) : (more \o Tail(s))[k] = more[k]
         /\ \A k \in Len(more) + 1 .. Len(more) + Len(s) - 1 :
              (more \o Tail(s))[k] = s[k - Len(more) + 1]
  <1>1. /\ Tail(s) \in Seq(S) /\ Len(Tail(s)) = Len(s) - 1 /\ Len(s) \in Nat /\ Len(s) >= 1
        /\ \A k \in 1 .. Len(s) - 1 : Tail(s)[k] = s[k + 1]
    <2>1. Len(s) \in Nat /\ Len(s) # 0
      BY EmptySeq, LenProperties
    <2> QED BY <2>1, HeadTailProperties
  <1>2. PICK n \in Nat, m \in Nat : n = Len(more) /\ m = Len(s) - 1
    BY <1>1, LenProperties
  <1>3. /\ more \o Tail(s) \in Seq(S) /\ Len(more \o Tail(s)) = n + m
        /\ \A k \in 1 .. n + m :
             (more \o Tail(s))[k] = IF k <= n THEN more[k] ELSE Tail(s)[k - n]
    BY <1>1, <1>2, ConcatProperties
  <1>4. ASSUME NEW k \in n + 1 .. n + m PROVE (more \o Tail(s))[k] = s[k - n + 1]
    <2>1. k \in 1 .. n + m /\ ~(k <= n) /\ k - n \in 1 .. m
      BY <1>2
    <2>2. (more \o Tail(s))[k] = Tail(s)[k - n]
      BY <1>3, <2>1
    <2> QED BY <1>1, <1>2, <2>1, <2>2
  <1>5. ASSUME NEW k \in 1 .. n PROVE (more \o Tail(s))[k] = more[k]
    <2>1. k \in 1 .. n + m /\ k <= n
      BY <1>2
    <2> QED BY <1>3, <2>1
  <1>6. /\ n + m = Len(more) + Len(s) - 1
        /\ n + 1 .. n + m = Len(more) + 1 .. Len(more) + Len(s) - 1
    BY <1>1, <1>2
  <1> QED BY <1>1, <1>2, <1>3, <1>4, <1>5, <1>6

(* What a task has to do after a step, if that calls for more. *)
LEMMA ReplacedInOrder ==
  ASSUME NEW s \in Seq(Bt!Steps), s # << >>, NEW more \in Seq(Bt!Steps), InOrder(s), InOrder(more),
         more # << >> => s[1] # "deinit",
         s[1] = "prepare" \/ \A k \in 1 .. Len(more) : more[k] \notin Scans
  PROVE  InOrder(more \o Tail(s))
  <1> DEFINE u == more \o Tail(s)
  <1>1. PICK n \in Nat, m \in Nat \ {0} : n = Len(more) /\ m = Len(s)
    BY Replaced
  <1>2. /\ Len(u) = n + m - 1
        /\ \A k \in 1 .. n : u[k] = more[k]
        /\ \A k \in n + 1 .. n + m - 1 : u[k] = s[k - n + 1]
    BY <1>1, Replaced
  <1>3. n = 0 <=> more = << >>
    BY <1>1, EmptySeq
  <1> HIDE DEF u
  <1>4. ASSUME NEW k \in 1 .. n + m - 1, k <= n
        PROVE  /\ k > 1 => u[k] \notin AtOnce /\ (u[k] = "disabled" => u[k - 1] = "deinit")
               /\ u[k] \in Scans => k = n + m - 1
    <2>1. k \in 1 .. n /\ u[k] = more[k] /\ (k > 1 => k - 1 \in 1 .. n)
      BY <1>1, <1>2, <1>4
    <2>2. k > 1 => u[k - 1] = more[k - 1]
      BY <1>2, <2>1
    <2>3. u[k] \in Scans => k = n /\ s[1] = "prepare"
      BY <1>1, <2>1 DEF InOrder
    <2>4. s[1] = "prepare" => m = 1
      <3>1. 1 \in 1 .. m
        BY <1>1
      <3> QED BY <1>1, <3>1 DEF InOrder, Scans
    <2> QED BY <1>1, <2>1, <2>2, <2>3, <2>4 DEF InOrder
  <1>5. ASSUME NEW k \in 1 .. n + m - 1, k > n
        PROVE  /\ k > 1 => u[k] \notin AtOnce /\ (u[k] = "disabled" => u[k - 1] = "deinit")
               /\ u[k] \in Scans => k = n + m - 1
    <2>1. k \in n + 1 .. n + m - 1 /\ k - n + 1 \in 1 .. m /\ k - n + 1 > 1
          /\ k - n + 1 - 1 = k - n /\ (k - n + 1 = m => k = n + m - 1)
      BY <1>1, <1>5
    <2>2. u[k] = s[k - n + 1]
      BY <1>2, <2>1
    <2>3. /\ s[k - n + 1] \notin AtOnce /\ (s[k - n + 1] = "disabled" => s[k - n] = "deinit")
          /\ s[k - n + 1] \in Scans => k - n + 1 = m
      BY <1>1, <2>1 DEF InOrder
    <2>4. ASSUME k > 1, s[k - n] = "deinit" PROVE u[k - 1] = "deinit"
      <3>1. CASE k = n + 1
        <4>1. s[1] = "deinit" /\ n # 0
          BY <1>1, <2>4, <3>1
        <4> QED BY <1>3, <4>1
      <3>2. CASE k # n + 1
        <4>1. k - 1 \in n + 1 .. n + m - 1 /\ k - 1 - n + 1 = k - n
          BY <1>1, <1>5, <3>2
        <4> QED BY <1>2, <2>4, <4>1
      <3> QED BY <3>1, <3>2
    <2> QED BY <2>1, <2>2, <2>3, <2>4
  <1> QED BY <1>1, <1>2, <1>4, <1>5 DEF InOrder, u

(* What the steps leave a task to do, but the start of a scan and the      *)
(* shutting down of the stack,                                             *)
Short ==
  {<< >>, <<"create">>, <<"adv">>, <<"mark">>, <<"disable">>, <<"adv", "enabled">>,
   <<"init", "enabled">>, <<"adv", "disable">>, <<"deinit", "disabled">>}

(* is in order and prepares no scan. *)
LEMMA ShortInOrder ==
  ASSUME NEW more \in Short \cup {<<"start">>}
  PROVE  /\ more \in Seq(Bt!Steps) /\ InOrder(more) /\ (more # << >> => more[1] # "disabled")
         /\ \A k \in 1 .. Len(more) : more[k] # "prepare"
         /\ more \in Short => \A k \in 1 .. Len(more) : more[k] \notin Scans
  <1> USE DEF Bt!Steps, InOrder, Scans, AtOnce
  <1>1. CASE more = << >>
    BY <1>1
  <1>2. CASE more \in {<<"create">>, <<"adv">>, <<"mark">>, <<"disable">>}
    <2>1. PICK x \in Bt!Steps \ {"disabled", "prepare", "start"} : more = <<x>>
      BY <1>2
    <2> QED BY <2>1
  <1>3. CASE more = <<"start">>
    BY <1>3 DEF Short
  <1>4. CASE more \in {<<"adv", "enabled">>, <<"init", "enabled">>}
    <2>1. PICK x \in {"adv", "init"} : more = <<x, "enabled">>
      BY <1>4
    <2> QED BY <2>1
  <1>5. CASE more = <<"adv", "disable">>
    BY <1>5
  <1>6. CASE more = <<"deinit", "disabled">>
    BY <1>6
  <1> QED BY <1>1, <1>2, <1>3, <1>4, <1>5, <1>6 DEF Short

(* A step: what is left to do is in order, and what comes next is known. *)
LEMMA BtDoes ==
  ASSUME Bt!TypeOK, TodoInOrder, OneInside, NEW c \in Commanders, NEW step,
         NEW more \in Short \cup {<<"start">>},
         more # << >> => step # "deinit", more \in Short \/ step = "prepare",
         Bt!Do(c, step, more)
  PROVE  /\ todo' \in [Commanders -> Seq(Bt!Steps)] /\ TodoInOrder' /\ OneInside'
         /\ Now(step) /\ \A s : Now(s) => s = step
         /\ more # << >> => \A s : Now(s)' => s = more[1]
         /\ more = << >> => \A s : Now(s)' => s \notin AtOnce /\ (s = "disabled" => step = "deinit")
         /\ ToCome("prepare")' => ToCome("prepare") /\ step \notin Scans
         /\ step = "prepare" => ToCome("prepare")
         /\ UNCHANGED <<raced, bt_commands>>
  <1> DEFINE s == todo[c]
             u == more \o Tail(s)
  <1>1. s \in Seq(Bt!Steps) /\ s # << >> /\ s[1] = step /\ InOrder(s)
        /\ todo' = [todo EXCEPT ![c] = u] /\ UNCHANGED <<raced, bt_commands>>
    BY DEF Bt!TypeOK, TodoInOrder, Bt!Do
  <1>2. /\ more \in Seq(Bt!Steps) /\ InOrder(more) /\ (more # << >> => more[1] # "disabled")
        /\ \A k \in 1 .. Len(more) : more[k] # "prepare"
        /\ step = "prepare" \/ \A k \in 1 .. Len(more) : more[k] \notin Scans
    BY ShortInOrder
  <1>3. /\ u \in Seq(Bt!Steps) /\ InOrder(u)
    BY <1>1, <1>2, Replaced, ReplacedInOrder
  <1>4. /\ Len(u) = Len(more) + Len(s) - 1 /\ Len(s) \in Nat \ {0} /\ Len(more) \in Nat
        /\ \A k \in 1 .. Len(more) : u[k] = more[k]
        /\ \A k \in Len(more) + 1 .. Len(more) + Len(s) - 1 : u[k] = s[k - Len(more) + 1]
    <2> HIDE DEF s
    <2> QED BY <1>1, <1>2, Replaced
  <1> HIDE DEF u, s
  <1>5. PICK n \in Nat, m \in Nat \ {0} :
          /\ n = Len(more) /\ m = Len(s) /\ Len(u) = n + m - 1
          /\ \A k \in 1 .. n : u[k] = more[k]
          /\ \A k \in n + 1 .. n + m - 1 : u[k] = s[k - n + 1]
    BY <1>4
  <1>6. /\ todo' \in [Commanders -> Seq(Bt!Steps)] /\ todo'[c] = u
        /\ \A d \in Commanders \ {c} : todo'[d] = todo[d]
    BY <1>1, <1>3 DEF Bt!TypeOK, s
  <1>7. \A d \in Commanders \ {c} : todo[d] = << >> /\ todo'[d] = << >>
    BY <1>1, <1>6 DEF OneInside, s
  <1>8. TodoInOrder'
    BY <1>3, <1>6 DEF TodoInOrder
  <1>9. OneInside'
    BY <1>7 DEF OneInside
  <1>10. Now(step) /\ \A q : Now(q) => q = step
    BY <1>1, <1>7 DEF Now, s
  <1>11. ASSUME NEW q, Now(q)' PROVE u # << >> /\ u[1] = q
    BY <1>6, <1>7, <1>11 DEF Now
  <1>12. /\ more = << >> <=> n = 0
         /\ u = << >> <=> n + m - 1 = 0
    BY <1>2, <1>3, <1>5, EmptySeq
  <1>13. more # << >> => u[1] = more[1]
    <2>1. n # 0 => 1 \in 1 .. n
      BY <1>5
    <2> QED BY <1>5, <1>12, <2>1
  <1>14. more = << >> /\ u # << >> =>
           m > 1 /\ u[1] \notin AtOnce /\ (u[1] = "disabled" => step = "deinit")
    <2>1. SUFFICES ASSUME n = 0, n + m - 1 # 0
                   PROVE m > 1 /\ u[1] \notin AtOnce /\ (u[1] = "disabled" => step = "deinit")
      BY <1>12
    <2>2. m > 1 /\ 1 \in n + 1 .. n + m - 1 /\ 1 - n + 1 = 2 /\ 2 \in 1 .. m /\ 2 - 1 = 1
      BY <1>5, <2>1
    <2>3. u[1] = s[2]
      BY <1>5, <2>2
    <2>4. s[2] \notin AtOnce /\ (s[2] = "disabled" => s[1] = "deinit")
      BY <1>1, <1>5, <2>2 DEF InOrder
    <2> QED BY <1>1, <2>2, <2>3, <2>4
  <1>15. ASSUME ToCome("prepare")' PROVE ToCome("prepare") /\ step \notin Scans
    <2>1. PICK k \in 1 .. n + m - 1 : u[k] = "prepare"
      <3>1. PICK d \in Commanders : \E k \in 1 .. Len(todo'[d]) : todo'[d][k] = "prepare"
        BY <1>15 DEF ToCome
      <3>2. d = c
        BY <1>7, <3>1
      <3> QED BY <1>5, <1>6, <3>1, <3>2
    <2>2. k \in n + 1 .. n + m - 1 /\ k - n + 1 \in 2 .. m
      <3>1. k \notin 1 .. n
        BY <1>2, <1>5, <2>1
      <3> QED BY <1>5, <3>1
    <2>3. s[k - n + 1] = "prepare" /\ k - n + 1 \in 1 .. Len(s) /\ Len(s) # 1 /\ 1 \in 1 .. Len(s)
      BY <1>5, <2>1, <2>2
    <2>4. s[1] \notin Scans
      BY <1>1, <2>3 DEF InOrder
    <2> QED BY <1>1, <2>3, <2>4 DEF ToCome, s
  <1>16. step = "prepare" => ToCome("prepare")
    <2>1. 1 \in 1 .. Len(s)
      BY <1>5
    <2> QED BY <1>1, <2>1 DEF ToCome, s
  <1> QED BY <1>1, <1>6, <1>8, <1>9, <1>10, <1>11, <1>12, <1>13, <1>14, <1>15, <1>16

(* The records of the flags are typed, and their parts. *)
Typed(b, sc, st) ==
  /\ b \in [initialized : BOOLEAN, connected : BOOLEAN, advertising : BOOLEAN,
            state : {"OFF", "ADVERTISING", "CONNECTED", "ERROR"}]
  /\ sc \in [running : BOOLEAN, done : BOOLEAN, restore : BOOLEAN, resume : BOOLEAN]
  /\ st \in [up : BOOLEAN, adv : BOOLEAN, peer : BOOLEAN, scan : BOOLEAN]

(* A step that is taken while one task is inside keeps the invariant when  *)
(* it keeps what the flags say of the stack.                               *)
LEMMA BtKeeps ==
  ASSUME BtInv, ~raced, raced' = raced,
         todo' \in [Commanders -> Seq(Bt!Steps)], TodoInOrder', OneInside',
         Typed(bt, bt_scan, stack)',
         config_bt_enabled' \in BOOLEAN, bt_scan_pending' \in BOOLEAN, cut' \in BOOLEAN, stranded' \in BOOLEAN,
         bt_commands' \in 0 .. MaxCommands,
         events' \in Seq({"connect", "disconnect", "scanned"}) /\ Len(events)' <= MaxEvents,
         TestsHold', StackKnown', PeerKnown', AirKnown', ScanKnown'
  PROVE  BtInv'
  <1>1. Bt!TypeOK'
    BY DEF BtInv, Bt!TypeOK, Typed
  <1> QED BY <1>1 DEF BtInv

(* Switching on changes the setting alone. *)
LEMMA BtEnable == ASSUME BtInv, ~raced, NEW c \in Commanders, Bt!Enable(c) PROVE BtInv'
  <1> USE DEF Bt!Enable
  <1>1. PICK more \in {<<"adv", "enabled">>, <<"init", "enabled">>} : Bt!Do(c, "enable", more)
    OBVIOUS
  <1>2. /\ todo' \in [Commanders -> Seq(Bt!Steps)] /\ TodoInOrder' /\ OneInside'
        /\ \A s : Now(s)' => s \in {"adv", "init"}
        /\ ToCome("prepare")' => ToCome("prepare")
        /\ UNCHANGED <<raced, bt_commands>>
        /\ \A s : Now(s) => s = "enable"
    <2>1. more \in Short /\ more # << >> /\ more[1] \in {"adv", "init"}
      BY DEF Short
    <2> QED BY <1>1, <2>1, BtDoes DEF BtInv
  <1>3. TestsHold'
    BY <1>2, SMTT(20) DEF BtInv, TestsHold
  <1>4. StackKnown' /\ PeerKnown' /\ AirKnown'
    BY DEF BtInv, StackKnown, PeerKnown, AirKnown
  <1>5. ScanKnown'
    BY <1>2 DEF BtInv, ScanKnown, Scanned
  <1> QED BY <1>2, <1>3, <1>4, <1>5, BtKeeps DEF BtInv, Bt!TypeOK, Typed

(* It is taken back when the stack did not come up. *)
LEMMA BtEnabled == ASSUME BtInv, ~raced, NEW c \in Commanders, Bt!Enabled(c) PROVE BtInv'
  <1> USE DEF Bt!Enabled
  <1>1. config_bt_enabled' \in BOOLEAN
    BY Zenon DEF BtInv, Bt!TypeOK
  <1>2. /\ todo' \in [Commanders -> Seq(Bt!Steps)] /\ TodoInOrder' /\ OneInside'
        /\ \A s : Now(s)' => s \notin AtOnce \cup {"disabled"}
        /\ ToCome("prepare")' => ToCome("prepare")
        /\ UNCHANGED <<raced, bt_commands>>
        /\ \A s : Now(s) => s = "enabled"
    <2>1. << >> \in Short
      BY DEF Short
    <2> QED BY <2>1, BtDoes DEF BtInv
  <1>3. TestsHold'
    BY <1>2 DEF BtInv, TestsHold, AtOnce
  <1>4. StackKnown' /\ PeerKnown' /\ AirKnown'
    BY DEF BtInv, StackKnown, PeerKnown, AirKnown
  <1>5. ScanKnown'
    BY <1>2 DEF BtInv, ScanKnown, Scanned, AtOnce
  <1> QED BY <1>1, <1>2, <1>3, <1>4, <1>5, BtKeeps DEF BtInv, Bt!TypeOK, Typed

(* btInit's test, and what it is about to create. *)
LEMMA BtInit == ASSUME BtInv, ~raced, NEW c \in Commanders, Bt!btInit(c) PROVE BtInv'
  <1>1. /\ Typed(bt, bt_scan, stack)' /\ UNCHANGED <<config_bt_enabled, bt_scan, stack, events>>
        /\ bt'.initialized = bt.initialized /\ bt'.connected = bt.connected
        /\ bt'.advertising = bt.advertising
        /\ UNCHANGED <<bt_scan_pending, cut, stranded>>
    BY DEF BtInv, Bt!TypeOK, Typed, Bt!btInit
  <1>2. \E more \in {<<"create">>, << >>} :
           /\ Bt!Do(c, "init", more)
           /\ more # << >> => config_bt_enabled /\ ~bt.initialized
    BY DEF Bt!btInit
  <1>3. /\ todo' \in [Commanders -> Seq(Bt!Steps)] /\ TodoInOrder' /\ OneInside'
        /\ \A s : Now(s)' => s \notin {"mark", "start", "deinit", "disabled"}
        /\ Now("create")' => config_bt_enabled /\ ~bt.initialized
        /\ ToCome("prepare")' => ToCome("prepare")
        /\ UNCHANGED <<raced, bt_commands>>
        /\ \A s : Now(s) => s = "init"
    <2>1. PICK more \in {<<"create">>, << >>} :
             /\ Bt!Do(c, "init", more)
             /\ more # << >> => config_bt_enabled /\ ~bt.initialized
      BY <1>2
    <2>2. more \in Short /\ (more # << >> => more[1] = "create")
      BY DEF Short
    <2> QED BY <2>1, <2>2, BtDoes DEF BtInv, AtOnce
  <1>4. TestsHold'
    BY <1>1, <1>3 DEF BtInv, TestsHold
  <1>5. StackKnown' /\ PeerKnown' /\ AirKnown'
    BY <1>1 DEF BtInv, StackKnown, PeerKnown, AirKnown
  <1>6. ScanKnown'
    BY <1>1, <1>3 DEF BtInv, ScanKnown, Scanned
  <1> QED BY <1>1, <1>3, <1>4, <1>5, <1>6, BtKeeps DEF BtInv, Bt!TypeOK

(* The stack is up, and the flags are as at a start. *)
LEMMA BtCreate == ASSUME BtInv, ~raced, NEW c \in Commanders, Bt!Create(c) PROVE BtInv'
  <1>1. /\ UNCHANGED <<config_bt_enabled, bt_scan, bt_scan_pending, events, cut>>
        /\ stack' = [stack EXCEPT !.up = TRUE]
    BY DEF Bt!Create
  <1>2. PICK more \in {<<"adv">>, << >>} :
          /\ Bt!Do(c, "create", more)
          /\ IF more # << >>
             THEN /\ bt' = [Bt!BtOff EXCEPT !.initialized = TRUE, !.state = bt.state]
                  /\ stranded' = FALSE
             ELSE bt' = [bt EXCEPT !.state = "ERROR"] /\ stranded' = TRUE
    BY DEF Bt!Create
  <1>3. /\ todo' \in [Commanders -> Seq(Bt!Steps)] /\ TodoInOrder' /\ OneInside'
        /\ \A s : Now(s)' => s \notin AtOnce \cup {"disabled"}
        /\ Now("create") /\ \A s : Now(s) => s = "create"
        /\ ToCome("prepare")' => ToCome("prepare")
        /\ UNCHANGED <<raced, bt_commands>>
    <2>1. more \in Short /\ (more # << >> => more[1] = "adv")
      BY DEF Short
    <2> QED BY <1>2, <2>1, BtDoes DEF BtInv, AtOnce
  <1>4. /\ config_bt_enabled /\ ~bt.initialized /\ events = << >>
        /\ ~stack.peer /\ ~stack.adv /\ ~stack.scan
    BY <1>3 DEF BtInv, TestsHold, StackKnown, Bt!TypeOK
  <1>5. /\ ~bt_scan.running
        /\ ~Now("deinit") /\ ~Now("deinit")' /\ Scanned = {} /\ Scanned' = {}
    BY <1>1, <1>3, <1>4 DEF BtInv, ScanKnown, Scanned, Bt!Down, AtOnce
  <1>6. /\ Typed(bt, bt_scan, stack)'
        /\ stack'.up /\ ~stack'.peer /\ ~stack'.adv /\ ~stack'.scan
        /\ bt'.connected => bt.connected
        /\ bt'.advertising => bt.advertising
        /\ stranded' \in BOOLEAN /\ (bt'.initialized <=> ~stranded')
    <2>1. CASE more # << >>
      <3>1. bt' = [Bt!BtOff EXCEPT !.initialized = TRUE, !.state = bt.state] /\ stranded' = FALSE
        BY <1>2, <2>1
      <3> QED BY <1>1, <1>4, <3>1 DEF BtInv, Bt!TypeOK, Typed, Bt!BtOff
    <2>2. CASE more = << >>
      <3>1. bt' = [bt EXCEPT !.state = "ERROR"] /\ stranded' = TRUE
        BY <1>2, <2>2
      <3> QED BY <1>1, <1>4, <3>1 DEF BtInv, Bt!TypeOK, Typed
    <2> QED BY <2>1, <2>2
  <1>7. ~bt.connected /\ ~bt.advertising
    BY <1>4, <1>5 DEF BtInv, PeerKnown, AirKnown, Bt!TypeOK
  <1>8. TestsHold'
    BY <1>1, <1>3 DEF BtInv, TestsHold, AtOnce
  <1>9. StackKnown' /\ PeerKnown' /\ AirKnown'
    BY <1>1, <1>4, <1>6, <1>7 DEF BtInv, StackKnown, PeerKnown, AirKnown, Bt!TypeOK, Typed
  <1>10. ScanKnown'
    BY <1>1, <1>5, <1>6 DEF ScanKnown
  <1> QED BY <1>1, <1>3, <1>6, <1>8, <1>9, <1>10, BtKeeps DEF BtInv, Bt!TypeOK

(* The device goes on the air before the flag says so, *)
LEMMA BtAdvertise == ASSUME BtInv, ~raced, NEW c \in Commanders, Bt!btStartAdvertising(c) PROVE BtInv'
  <1>1. UNCHANGED <<config_bt_enabled, bt, bt_scan, bt_scan_pending, events, cut, stranded>>
    BY DEF Bt!btStartAdvertising
  <1>2. PICK more \in {<<"mark">>, << >>} :
          /\ Bt!Do(c, "adv", more)
          /\ IF more # << >> THEN bt.initialized /\ stack' = [stack EXCEPT !.adv = stack.up]
             ELSE UNCHANGED stack
    BY DEF Bt!btStartAdvertising
  <1>3. /\ todo' \in [Commanders -> Seq(Bt!Steps)] /\ TodoInOrder' /\ OneInside'
        /\ \A s : Now(s)' => s \notin {"create", "start", "deinit", "disabled"}
        /\ Now("mark")' => more # << >>
        /\ \A s : Now(s) => s = "adv"
        /\ ToCome("prepare")' => ToCome("prepare")
        /\ UNCHANGED <<raced, bt_commands>>
    <2>1. more \in Short /\ (more # << >> => more[1] = "mark")
      BY DEF Short
    <2> QED BY <1>2, <2>1, BtDoes DEF BtInv, AtOnce
  <1>4. /\ stack'.up = stack.up /\ stack'.peer = stack.peer /\ stack'.scan = stack.scan
        /\ stack' \in [up : BOOLEAN, adv : BOOLEAN, peer : BOOLEAN, scan : BOOLEAN]
        /\ more # << >> => stack'.adv
        /\ more = << >> => stack' = stack
        /\ ~bt.initialized => more = << >>
    BY <1>2 DEF BtInv, Bt!TypeOK, StackKnown
  <1>5. TestsHold'
    BY <1>1, <1>3, <1>4 DEF BtInv, TestsHold
  <1>6. StackKnown' /\ PeerKnown' /\ AirKnown'
    BY <1>1, <1>4 DEF BtInv, StackKnown, PeerKnown, AirKnown
  <1>7. ScanKnown'
    BY <1>1, <1>3, <1>4 DEF BtInv, ScanKnown, Scanned
  <1> QED BY <1>1, <1>3, <1>4, <1>5, <1>6, <1>7, BtKeeps DEF BtInv, Bt!TypeOK, Typed

(* and is there, or was found by a peer, when it does. *)
LEMMA BtMark == ASSUME BtInv, ~raced, NEW c \in Commanders, Bt!Mark(c) PROVE BtInv'
  <1>1. UNCHANGED <<config_bt_enabled, bt_scan, bt_scan_pending, stack, events, cut, stranded>>
        /\ Bt!Do(c, "mark", << >>)
    BY DEF Bt!Mark
  <1>2. /\ todo' \in [Commanders -> Seq(Bt!Steps)] /\ TodoInOrder' /\ OneInside'
        /\ \A s : Now(s)' => s \notin AtOnce \cup {"disabled"}
        /\ Now("mark") /\ \A s : Now(s) => s = "mark"
        /\ ToCome("prepare")' => ToCome("prepare")
        /\ UNCHANGED <<raced, bt_commands>>
    <2>1. << >> \in Short
      BY DEF Short
    <2> QED BY <1>1, <2>1, BtDoes DEF BtInv
  <1>3. /\ Typed(bt, bt_scan, stack)'
        /\ bt'.initialized = bt.initialized /\ bt'.connected = bt.connected
        /\ stack.adv \/ stack.peer
    BY <1>1, <1>2 DEF BtInv, Bt!TypeOK, Typed, Bt!Mark, TestsHold
  <1>4. TestsHold'
    BY <1>1, <1>2, <1>3 DEF BtInv, TestsHold, AtOnce
  <1>5. StackKnown' /\ PeerKnown' /\ AirKnown'
    BY <1>1, <1>3 DEF BtInv, StackKnown, PeerKnown, AirKnown
  <1>6. ScanKnown'
    BY <1>1, <1>2 DEF BtInv, ScanKnown, Scanned, AtOnce
  <1> QED BY <1>1, <1>2, <1>3, <1>4, <1>5, <1>6, BtKeeps DEF BtInv, Bt!TypeOK

(* Short lists of steps joined. *)
LEMMA Joined ==
  ASSUME NEW x, NEW y
  PROVE  /\ << >> \o << >> = << >> /\ << >> \o <<x>> = <<x>> /\ <<x>> \o << >> = <<x>>
         /\ <<x>> \o <<y>> = <<x, y>>
  <1>1. << >> \o << >> = << >>
    OBVIOUS
  <1>2. << >> \o <<x>> = <<x>> /\ <<x>> \o << >> = <<x>>
    OBVIOUS
  <1> DEFINE S == {x, y}
  <1>3. /\ <<x>> \in Seq(S) /\ <<y>> \in Seq(S) /\ <<x, y>> \in Seq(S)
        /\ Len(<<x>>) = 1 /\ Len(<<y>>) = 1 /\ Len(<<x, y>>) = 2
    OBVIOUS
  <1>4. <<x>> \o <<y>> = <<x, y>>
    <2>1. <<x>> \o <<y>> \in Seq(S) /\ Len(<<x>> \o <<y>>) = 2
          /\ (<<x>> \o <<y>>)[1] = x /\ (<<x>> \o <<y>>)[2] = y
      BY <1>3, ConcatProperties
    <2>2. \A k \in 1 .. Len(<<x>> \o <<y>>) : (<<x>> \o <<y>>)[k] = <<x, y>>[k]
      BY <2>1
    <2> QED BY ONLY <1>3, <2>1, <2>2, SeqEqual
  <1> QED BY <1>1, <1>2, <1>4

(* The device goes back on the air, or is switched off again. *)
LEMMA ResumeRestore ==
  Bt!Resume \o Bt!Restore \in {<<"adv">>, <<"disable">>, <<"adv", "disable">>, << >>}
  <1>1. Bt!Resume \in {<<"adv">>, << >>} /\ Bt!Restore \in {<<"disable">>, << >>}
    BY DEF Bt!Resume, Bt!Restore
  <1>2. /\ << >> \o << >> = << >> /\ << >> \o <<"disable">> = <<"disable">>
        /\ <<"adv">> \o << >> = <<"adv">> /\ <<"adv">> \o <<"disable">> = <<"adv", "disable">>
    BY Joined
  <1> QED BY <1>1, <1>2

(* Switching off: the scan is stopped, *)
LEMMA BtDisable == ASSUME BtInv, ~raced, NEW c \in Commanders, Bt!Disable(c) PROVE BtInv'
  <1>1. UNCHANGED <<config_bt_enabled, bt, bt_scan_pending, events, stranded>>
        /\ Bt!Do(c, "disable", <<"deinit", "disabled">>) /\ bt_scan' = Bt!NoScan
        /\ stack' = [stack EXCEPT !.scan = @ /\ ~bt_scan.running]
    BY DEF Bt!Disable
  <1>2. /\ todo' \in [Commanders -> Seq(Bt!Steps)] /\ TodoInOrder' /\ OneInside'
        /\ \A s : Now(s)' => s = "deinit"
        /\ Now("deinit")'
        /\ \A s : Now(s) => s = "disable"
        /\ UNCHANGED <<raced, bt_commands>>
    <2>1. <<"deinit", "disabled">> \in Short
      BY DEF Short
    <2>2. /\ todo' \in [Commanders -> Seq(Bt!Steps)] /\ TodoInOrder' /\ OneInside'
          /\ \A s : Now(s)' => s = <<"deinit", "disabled">>[1]
          /\ \A s : Now(s) => s = "disable"
          /\ UNCHANGED <<raced, bt_commands>>
      BY <1>1, <2>1, BtDoes DEF BtInv
    <2>3. Now("deinit")'
      <3>1. /\ <<"deinit", "disabled">> \o Tail(todo[c]) \in Seq(Bt!Steps)
            /\ Len(<<"deinit", "disabled">> \o Tail(todo[c])) >= 2
            /\ (<<"deinit", "disabled">> \o Tail(todo[c]))[1] = "deinit"
        <4>1. /\ todo[c] \in Seq(Bt!Steps) /\ todo[c] # << >>
              /\ <<"deinit", "disabled">> \in Seq(Bt!Steps) /\ Len(<<"deinit", "disabled">>) = 2
          BY <1>1 DEF Bt!Do, BtInv, Bt!TypeOK, Bt!Steps
        <4>2. 1 \in 1 .. Len(<<"deinit", "disabled">>)
          BY <4>1
        <4> QED BY <4>1, <4>2, Replaced
      <3>2. todo'[c] = <<"deinit", "disabled">> \o Tail(todo[c])
        BY <1>1 DEF Bt!Do, BtInv, Bt!TypeOK
      <3> QED BY <3>1, <3>2, EmptySeq DEF Now
    <2> QED BY <2>2, <2>3
  <1>3. Bt!NoScan \in [running : BOOLEAN, done : BOOLEAN, restore : BOOLEAN, resume : BOOLEAN]
        /\ ~bt_scan'.running
    BY <1>1, Zenon DEF Bt!NoScan
  <1>4. /\ stack' \in [up : BOOLEAN, adv : BOOLEAN, peer : BOOLEAN, scan : BOOLEAN]
        /\ stack'.up = stack.up /\ stack'.adv = stack.adv /\ stack'.peer = stack.peer
        /\ ~stack'.scan
        /\ stack.scan = FALSE => stack' = stack
    BY <1>1, <1>2 DEF BtInv, Bt!TypeOK, ScanKnown
  <1>5. cut' \in BOOLEAN
    BY Zenon DEF Bt!Disable, BtInv, Bt!TypeOK
  <1>6. TestsHold'
    BY <1>1, <1>2, <1>3 DEF TestsHold
  <1>7. PeerKnown' /\ AirKnown'
    BY <1>1, <1>4 DEF BtInv, PeerKnown, AirKnown
  <1>8. StackKnown'
    BY <1>1, <1>4 DEF BtInv, StackKnown
  <1>9. ScanKnown'
    BY <1>2, <1>3, <1>4 DEF ScanKnown
  <1> QED BY <1>1, <1>2, <1>3, <1>4, <1>5, <1>6, <1>7, <1>8, <1>9, BtKeeps DEF BtInv, Bt!TypeOK, Typed

(* the peer and the stack go, *)
LEMMA BtDeinit ==
  ASSUME Bt!BluetoothAssumption, BtInv, ~raced, NEW c \in Commanders, Bt!Deinit(c) PROVE BtInv'
  <1>1. UNCHANGED <<config_bt_enabled, bt_scan, bt_scan_pending, cut, stranded>>
        /\ Bt!Do(c, "deinit", << >>)
    BY DEF Bt!Deinit
  <1>2. /\ todo' \in [Commanders -> Seq(Bt!Steps)] /\ TodoInOrder' /\ OneInside'
        /\ \A s : Now(s)' => s \notin AtOnce
        /\ Now("deinit") /\ \A s : Now(s) => s = "deinit"
        /\ ToCome("prepare")' => ToCome("prepare")
        /\ UNCHANGED <<raced, bt_commands>>
    <2>1. << >> \in Short
      BY DEF Short
    <2> QED BY <1>1, <2>1, BtDoes DEF BtInv
  <1>3. events' = << >> /\ bt' = Bt!BtOff /\ stack' \in {Bt!Down, stack}
        /\ (stack' = stack => ~stack.adv /\ ~stack.peer /\ ~stack.scan /\ (stack.up <=> stranded))
        /\ (stack' # stack => ~stranded)
    <2>1. CASE bt.initialized
      <3>1. stack.up /\ ~stranded /\ stack' = Bt!Down /\ ~Bt!Down.up
        BY <2>1 DEF Bt!Deinit, BtInv, StackKnown, Bt!Down
      <3> QED BY <2>1, <3>1 DEF Bt!Deinit
    <2>2. CASE ~bt.initialized
      BY <2>2 DEF Bt!Deinit, BtInv, StackKnown
    <2> QED BY <2>1, <2>2
  <1>4. /\ Typed(bt, bt_scan, stack)'
        /\ (stack'.up <=> stranded') /\ ~stack'.adv /\ ~stack'.peer /\ ~stack'.scan
        /\ ~bt'.initialized /\ ~bt'.connected /\ ~bt'.advertising
    <2>1. CASE stack' = stack
      BY <1>1, <1>3, <2>1 DEF BtInv, Bt!TypeOK, Typed, Bt!BtOff
    <2>2. CASE stack' = Bt!Down /\ stack' # stack
      BY <1>1, <1>3, <2>2 DEF BtInv, Bt!TypeOK, Typed, Bt!Down, Bt!BtOff
    <2> QED BY <1>3, <2>1, <2>2
  <1>5. /\ events' \in Seq({"connect", "disconnect", "scanned"}) /\ Len(events') = 0
        /\ Len(events)' <= MaxEvents
    BY <1>3 DEF Bt!BluetoothAssumption
  <1>6. TestsHold'
    BY <1>1, <1>2, <1>4 DEF BtInv, TestsHold, AtOnce
  <1>7. StackKnown' /\ PeerKnown' /\ AirKnown'
    BY <1>3, <1>4, <1>5 DEF StackKnown, PeerKnown, AirKnown
  <1>8. ScanKnown'
    BY <1>1, <1>2, <1>4, <1>5 DEF BtInv, ScanKnown, Scanned, AtOnce
  <1> QED BY <1>1, <1>2, <1>4, <1>5, <1>6, <1>7, <1>8, BtKeeps DEF BtInv, Bt!TypeOK

(* and then the setting. *)
LEMMA BtDisabled == ASSUME BtInv, ~raced, NEW c \in Commanders, Bt!Disabled(c) PROVE BtInv'
  <1>1. UNCHANGED <<bt, bt_scan, bt_scan_pending, stack, events, cut, stranded>>
        /\ Bt!Do(c, "disabled", << >>) /\ config_bt_enabled' = FALSE
    BY DEF Bt!Disabled
  <1>2. /\ todo' \in [Commanders -> Seq(Bt!Steps)] /\ TodoInOrder' /\ OneInside'
        /\ \A s : Now(s)' => s \notin AtOnce \cup {"disabled"}
        /\ Now("disabled") /\ \A s : Now(s) => s = "disabled"
        /\ ToCome("prepare")' => ToCome("prepare")
        /\ UNCHANGED <<raced, bt_commands>>
    <2>1. << >> \in Short
      BY DEF Short
    <2> QED BY <1>1, <2>1, BtDoes DEF BtInv
  <1>3. config_bt_enabled' \in BOOLEAN
    BY <1>1, Zenon
  <1>4. TestsHold'
    BY <1>1, <1>2 DEF BtInv, TestsHold, AtOnce
  <1>5. StackKnown' /\ PeerKnown' /\ AirKnown'
    BY <1>1, <1>2 DEF BtInv, TestsHold, StackKnown, PeerKnown, AirKnown
  <1>6. ScanKnown'
    BY <1>1, <1>2 DEF BtInv, ScanKnown, Scanned, AtOnce
  <1> QED BY <1>1, <1>2, <1>3, <1>4, <1>5, <1>6, BtKeeps DEF BtInv, Bt!TypeOK, Typed

(* A scan that switched the keyboard on will switch it off. *)
LEMMA BtMarkRestore == ASSUME BtInv, ~raced, NEW c \in Commanders, Bt!MarkRestore(c) PROVE BtInv'
  <1>1. UNCHANGED <<config_bt_enabled, bt, bt_scan_pending, stack, events, cut, stranded>>
        /\ Bt!Do(c, "restore", << >>) /\ bt_scan' = [bt_scan EXCEPT !.restore = TRUE]
    BY DEF Bt!MarkRestore
  <1>2. /\ todo' \in [Commanders -> Seq(Bt!Steps)] /\ TodoInOrder' /\ OneInside'
        /\ \A s : Now(s)' => s \notin AtOnce \cup {"disabled"}
        /\ \A s : Now(s) => s = "restore"
        /\ ToCome("prepare")' => ToCome("prepare")
        /\ UNCHANGED <<raced, bt_commands>>
    <2>1. << >> \in Short
      BY DEF Short
    <2> QED BY <1>1, <2>1, BtDoes DEF BtInv
  <1>3. Typed(bt, bt_scan, stack)' /\ bt_scan'.running = bt_scan.running
    BY <1>1 DEF BtInv, Bt!TypeOK, Typed
  <1>4. TestsHold'
    BY <1>1, <1>2, <1>3 DEF BtInv, TestsHold, AtOnce
  <1>5. StackKnown' /\ PeerKnown' /\ AirKnown'
    BY <1>1 DEF BtInv, StackKnown, PeerKnown, AirKnown
  <1>6. ScanKnown'
    BY <1>1, <1>2, <1>3 DEF BtInv, ScanKnown, Scanned, AtOnce
  <1> QED BY <1>1, <1>2, <1>3, <1>4, <1>5, <1>6, BtKeeps DEF BtInv, Bt!TypeOK

(* The device leaves the air for a scan; without a stack there is none. *)
LEMMA BtPrepareScan == ASSUME BtInv, ~raced, NEW c \in Commanders, Bt!PrepareScan(c) PROVE BtInv'
  <1>1. UNCHANGED <<config_bt_enabled, bt_scan_pending, events, cut, stranded>>
    BY DEF Bt!PrepareScan
  <1>2. PICK more \in {<<"start">>, <<"disable">>, << >>} :
          /\ Bt!Do(c, "prepare", more)
          /\ more = <<"start">> => bt.initialized
    BY DEF Bt!PrepareScan, Bt!Restore
  <1>3. /\ todo' \in [Commanders -> Seq(Bt!Steps)] /\ TodoInOrder' /\ OneInside'
        /\ \A s : Now(s)' => s \notin {"create", "mark", "deinit", "disabled"}
        /\ Now("start")' => bt.initialized
        /\ ToCome("prepare") /\ \A s : Now(s) => s = "prepare"
        /\ ~ToCome("prepare")'
        /\ UNCHANGED <<raced, bt_commands>>
    <2>1. more \in Short \cup {<<"start">>} /\ (more # << >> => more[1] \in {"start", "disable"})
          /\ (more # << >> /\ more[1] = "start" => more = <<"start">>)
      BY DEF Short
    <2> QED BY <1>2, <2>1, BtDoes DEF BtInv, AtOnce, Scans
  <1>4. /\ Typed(bt, bt_scan, stack)' /\ bt_scan'.running = bt_scan.running /\ ~bt_scan.running
        /\ stack'.up = stack.up /\ stack'.peer = stack.peer /\ stack'.scan = stack.scan
        /\ bt'.initialized = bt.initialized /\ bt'.connected = bt.connected
        /\ bt'.advertising => bt.advertising /\ stack' = stack
        /\ ~bt.initialized => stack' = stack
    BY <1>3, ZenonT(40) DEF BtInv, Bt!TypeOK, Typed, Bt!PrepareScan, TestsHold
  <1>5. TestsHold'
    BY <1>1, <1>3, <1>4 DEF BtInv, TestsHold
  <1>6. StackKnown' /\ PeerKnown' /\ AirKnown'
    BY <1>1, <1>4 DEF BtInv, StackKnown, PeerKnown, AirKnown
  <1>7. ScanKnown'
    BY <1>1, <1>3, <1>4 DEF BtInv, ScanKnown, Scanned
  <1> QED BY <1>1, <1>3, <1>4, <1>5, <1>6, <1>7, BtKeeps DEF BtInv, Bt!TypeOK

(* The scan begins, or fails to. *)
LEMMA BtStartScan == ASSUME BtInv, ~raced, NEW c \in Commanders, Bt!StartScan(c) PROVE BtInv'
  <1>1. UNCHANGED <<config_bt_enabled, bt, events, cut, stranded>>
    BY DEF Bt!StartScan
  <1>2. PICK more \in {<<"adv">>, <<"disable">>, <<"adv", "disable">>, << >>} : Bt!Do(c, "start", more)
    BY ResumeRestore DEF Bt!StartScan
  <1>3. /\ todo' \in [Commanders -> Seq(Bt!Steps)] /\ TodoInOrder' /\ OneInside'
        /\ \A s : Now(s)' => s \notin AtOnce \cup {"disabled"}
        /\ Now("start") /\ \A s : Now(s) => s = "start"
        /\ ~ToCome("prepare")'
        /\ UNCHANGED <<raced, bt_commands>>
    <2>1. more \in Short /\ (more # << >> => more[1] \in {"adv", "disable"})
      BY DEF Short
    <2> QED BY <1>2, <2>1, BtDoes DEF BtInv, AtOnce, Scans
  <1>4. bt.initialized /\ stack.up /\ ~bt_scan.running /\ ~stack.scan /\ Scanned = {}
    BY <1>3 DEF BtInv, TestsHold, StackKnown, ScanKnown
  <1>5. /\ Typed(bt, bt_scan, stack)' /\ bt_scan'.running = stack'.scan
        /\ stack'.up = stack.up /\ stack'.peer = stack.peer /\ stack'.adv = stack.adv
        /\ bt_scan_pending' \in BOOLEAN
    BY <1>1, <1>4 DEF BtInv, Bt!TypeOK, Typed, Bt!StartScan
  <1>6. TestsHold'
    BY <1>3 DEF TestsHold, AtOnce
  <1>7. StackKnown' /\ PeerKnown' /\ AirKnown'
    BY <1>1, <1>4, <1>5 DEF BtInv, StackKnown, PeerKnown, AirKnown
  <1>8. ScanKnown'
    BY <1>1, <1>3, <1>4, <1>5 DEF ScanKnown, Scanned, AtOnce
  <1> QED BY <1>1, <1>3, <1>5, <1>6, <1>7, <1>8, BtKeeps DEF BtInv, Bt!TypeOK

(* Its results are taken. *)
LEMMA BtTaken == ASSUME BtInv, ~raced, NEW c \in Commanders, Bt!Taken(c) PROVE BtInv'
  <1>1. UNCHANGED <<config_bt_enabled, bt, stack, events, cut, stranded>> /\ bt_scan_pending' \in BOOLEAN
        /\ Bt!Do(c, "taken", << >>)
    BY Zenon DEF Bt!Taken
  <1>2. /\ todo' \in [Commanders -> Seq(Bt!Steps)] /\ TodoInOrder' /\ OneInside'
        /\ \A s : Now(s)' => s \notin AtOnce \cup {"disabled"}
        /\ \A s : Now(s) => s = "taken"
        /\ ToCome("prepare")' => ToCome("prepare")
        /\ UNCHANGED <<raced, bt_commands>>
    <2>1. << >> \in Short
      BY DEF Short
    <2> QED BY <1>1, <2>1, BtDoes DEF BtInv
  <1>3. Typed(bt, bt_scan, stack)' /\ bt_scan'.running = bt_scan.running
    BY <1>1 DEF BtInv, Bt!TypeOK, Typed, Bt!Taken
  <1>4. TestsHold'
    BY <1>1, <1>2, <1>3 DEF BtInv, TestsHold, AtOnce
  <1>5. StackKnown' /\ PeerKnown' /\ AirKnown'
    BY <1>1 DEF BtInv, StackKnown, PeerKnown, AirKnown
  <1>6. ScanKnown'
    BY <1>1, <1>2, <1>3 DEF BtInv, ScanKnown, Scanned, AtOnce
  <1> QED BY <1>1, <1>2, <1>3, <1>4, <1>5, <1>6, BtKeeps DEF BtInv, Bt!TypeOK

(* Three steps joined. *)
LEMMA JoinedThree ==
  ASSUME NEW x, NEW y, NEW z PROVE <<x, y>> \o <<z>> = <<x, y, z>>
  <1> DEFINE S == {x, y, z}
  <1>1. <<x, y>> \in Seq(S) /\ <<z>> \in Seq(S) /\ Len(<<x, y>>) = 2 /\ Len(<<z>>) = 1
    OBVIOUS
  <1>2. <<x, y>> \o <<z>> \in Seq(S) /\ Len(<<x, y>> \o <<z>>) = 3
        /\ (<<x, y>> \o <<z>>)[1] = x /\ (<<x, y>> \o <<z>>)[2] = y /\ (<<x, y>> \o <<z>>)[3] = z
    BY <1>1, ConcatProperties
  <1>3. \A k \in 1 .. Len(<<x, y>> \o <<z>>) : (<<x, y>> \o <<z>>)[k] = <<x, y, z>>[k]
    BY <1>2
  <1>4. <<x, y, z>> \in Seq(S) /\ Len(<<x, y, z>>) = 3
    OBVIOUS
  <1> QED BY ONLY <1>2, <1>3, <1>4, SeqEqual

(* What the commands and the polls leave a task to do is in order, *)
Plans ==
  {<<"enable">>, <<"disable">>, <<"init">>, <<"adv">>, <<"taken">>, <<"adv", "taken">>,
   <<"disable", "taken">>, <<"adv", "disable", "taken">>}
ScanPlans == {<<"prepare">>, <<"init", "prepare">>, <<"enable", "restore", "prepare">>}

(* and none of them begins in the middle. *)
LEMMA PlansInOrder ==
  ASSUME NEW steps \in Plans \cup ScanPlans
  PROVE  /\ steps \in Seq(Bt!Steps) /\ InOrder(steps) /\ steps # << >>
         /\ steps[1] \notin AtOnce \cup {"disabled"}
         /\ steps \in Plans => \A k \in 1 .. Len(steps) : steps[k] # "prepare"
  <1> USE DEF Bt!Steps, InOrder, Scans, AtOnce
  <1>1. CASE steps \in {<<"enable">>, <<"disable">>, <<"init">>, <<"adv">>, <<"taken">>}
    <2>1. PICK x \in Bt!Steps \ (AtOnce \cup Scans \cup {"disabled"}) : steps = <<x>>
      BY <1>1
    <2> QED BY <2>1
  <1>2. CASE steps \in {<<"adv", "taken">>, <<"disable", "taken">>}
    <2>1. PICK x \in {"adv", "disable"} : steps = <<x, "taken">>
      BY <1>2
    <2> QED BY <2>1
  <1>3. CASE steps = <<"adv", "disable", "taken">>
    BY <1>3
  <1>4. CASE steps = <<"prepare">>
    BY <1>4 DEF Plans
  <1>5. CASE steps = <<"init", "prepare">>
    BY <1>5 DEF Plans
  <1>6. CASE steps = <<"enable", "restore", "prepare">>
    BY <1>6 DEF Plans
  <1> QED BY <1>1, <1>2, <1>3, <1>4, <1>5, <1>6 DEF Plans, ScanPlans

(* What a command or a poll begins with: from now on one task is inside, or *)
(* two are and that is noted.  No flag changes but those of a scan that     *)
(* does not run.                                                            *)
LEMMA BtBegins ==
  ASSUME BtInv, ~raced, NEW c \in Commanders,
         NEW steps \in Plans \cup ScanPlans, Bt!Begin(c, steps),
         \/ steps \in Plans /\ UNCHANGED bt_scan
         \/ ~bt_scan.running /\ bt_scan' = Bt!NoScan,
         bt_commands' \in 0 .. MaxCommands,
         UNCHANGED <<config_bt_enabled, bt, bt_scan_pending, stack, events, cut, stranded>>
  PROVE  BtInv'
  <1>1. /\ todo[c] = << >> /\ todo' = [todo EXCEPT ![c] = steps]
        /\ raced' = (raced \/ \E d \in Commanders : todo[d] # << >>)
    BY DEF Bt!Begin
  <1>2. /\ steps \in Seq(Bt!Steps) /\ InOrder(steps) /\ steps # << >>
        /\ steps[1] \notin AtOnce \cup {"disabled"}
        /\ steps \in Plans => \A k \in 1 .. Len(steps) : steps[k] # "prepare"
    BY PlansInOrder
  <1>3. /\ todo' \in [Commanders -> Seq(Bt!Steps)] /\ todo'[c] = steps
        /\ \A d \in Commanders \ {c} : todo'[d] = todo[d]
    BY <1>1, <1>2 DEF BtInv, Bt!TypeOK
  <1>4. TodoInOrder'
    BY <1>2, <1>3 DEF BtInv, TodoInOrder
  <1>5. /\ raced' \in BOOLEAN
        /\ ~raced' => \A d \in Commanders : todo[d] = << >>
    BY <1>1, Zenon
  <1>6. bt_scan' \in [running : BOOLEAN, done : BOOLEAN, restore : BOOLEAN, resume : BOOLEAN]
        /\ bt_scan'.running = bt_scan.running /\ (steps \notin Plans => ~bt_scan.running)
    <2>1. Bt!NoScan \in [running : BOOLEAN, done : BOOLEAN, restore : BOOLEAN, resume : BOOLEAN]
      BY Zenon DEF Bt!NoScan
    <2>2. Bt!NoScan.running = FALSE
      BY DEF Bt!NoScan
    <2>3. bt_scan.running \in BOOLEAN
      BY DEF BtInv, Bt!TypeOK
    <2>4. CASE steps \in Plans /\ UNCHANGED bt_scan
      BY <2>4 DEF BtInv, Bt!TypeOK
    <2>5. CASE ~bt_scan.running /\ bt_scan' = Bt!NoScan
      BY <2>1, <2>2, <2>3, <2>5
    <2> QED BY <2>4, <2>5
  <1>7. Bt!TypeOK'
    BY <1>3, <1>5, <1>6 DEF BtInv, Bt!TypeOK
  <1>8. ASSUME ~raced'
        PROVE  OneInside' /\ TestsHold' /\ StackKnown' /\ PeerKnown' /\ AirKnown' /\ ScanKnown'
    <2>1. OneInside'
      BY <1>3, <1>5, <1>8 DEF OneInside
    <2>2. (\A s : ~Now(s)) /\ \A s : Now(s)' => s \notin AtOnce \cup {"disabled"}
      BY <1>2, <1>3, <1>5, <1>8 DEF Now
    <2>3. ASSUME steps \in Plans PROVE ~ToCome("prepare")'
      <3>1. \A d \in Commanders \ {c} : todo'[d] = << >>
        BY <1>3, <1>5, <1>8
      <3>2. \A d \in Commanders \ {c} : Len(todo'[d]) = 0
        BY <3>1
      <3>3. ASSUME NEW d \in Commanders, NEW k \in 1 .. Len(todo'[d]), todo'[d][k] = "prepare" PROVE FALSE
        <4>1. d = c
          BY <3>2, <3>3
        <4> QED BY <1>2, <1>3, <2>3, <3>3, <4>1
      <3> QED BY <3>3 DEF ToCome
    <2>4. TestsHold'
      BY <1>6, <2>2, <2>3 DEF TestsHold, AtOnce
    <2>5. ScanKnown'
      BY <1>6, <2>2 DEF BtInv, ScanKnown, Scanned, AtOnce
    <2> QED BY <2>1, <2>4, <2>5 DEF BtInv, StackKnown, PeerKnown, AirKnown
  <1> QED BY <1>4, <1>7, <1>8 DEF BtInv

(* `bt`. *)
LEMMA BtCommandInv == ASSUME Bt!BluetoothAssumption, BtInv, ~raced, NEW c \in Commanders, Bt!BtCommand(c) PROVE BtInv'
  <1>1. PICK steps \in {<<"disable">>, <<"enable">>} : Bt!Begin(c, steps)
    BY DEF Bt!BtCommand
  <1>2. bt_commands' \in 0 .. MaxCommands
    BY DEF Bt!BtCommand, Bt!Type, BtInv, Bt!TypeOK, Bt!BluetoothAssumption
  <1>3. steps \in Plans
    BY DEF Plans
  <1> QED BY <1>1, <1>2, <1>3, BtBegins DEF Bt!BtCommand

(* `bs`. *)
LEMMA BtScanCommandInv == ASSUME Bt!BluetoothAssumption, BtInv, ~raced, NEW c \in Commanders, Bt!btScanCommand(c) PROVE BtInv'
  <1>1. PICK first \in {<<"enable", "restore">>, <<"init">>, << >>} : Bt!Begin(c, first \o <<"prepare">>)
    BY DEF Bt!btScanCommand
  <1>2. bt_commands' \in 0 .. MaxCommands
    BY DEF Bt!btScanCommand, Bt!Type, BtInv, Bt!TypeOK, Bt!BluetoothAssumption
  <1>3. first \o <<"prepare">> \in ScanPlans
    <2>1. /\ << >> \o <<"prepare">> = <<"prepare">>
          /\ <<"init">> \o <<"prepare">> = <<"init", "prepare">>
          /\ <<"enable", "restore">> \o <<"prepare">> = <<"enable", "restore", "prepare">>
      BY Joined, JoinedThree
    <2> QED BY <2>1 DEF ScanPlans
  <1> QED BY <1>1, <1>2, <1>3, BtBegins DEF Bt!btScanCommand

(* The polls of loop(). *)
LEMMA BtPollInv == ASSUME Bt!BluetoothAssumption, BtInv, ~raced, Bt!btPoll \/ Bt!btScanPoll PROVE BtInv'
  <1>1. bt_commands' \in 0 .. MaxCommands /\ "loop" \in Commanders
    BY DEF Bt!btPoll, Bt!btScanPoll, BtInv, Bt!TypeOK, Bt!BluetoothAssumption
  <1>2. CASE Bt!btPoll
    <2>1. PICK steps \in {<<"init">>, <<"adv">>} : Bt!Begin("loop", steps)
      BY <1>2 DEF Bt!btPoll
    <2>2. steps \in Plans
      BY DEF Plans
    <2> QED BY <1>1, <1>2, <2>1, <2>2, BtBegins DEF Bt!btPoll
  <1>3. CASE Bt!btScanPoll
    <2>1. PICK rest : /\ rest = Bt!Resume \o Bt!Restore
                      /\ rest \in {<<"adv">>, <<"disable">>, <<"adv", "disable">>, << >>}
      BY ResumeRestore
    <2>2. Bt!Begin("loop", rest \o <<"taken">>)
      BY <1>3, <2>1 DEF Bt!btScanPoll
    <2>3. rest \o <<"taken">> \in Plans
      <3>1. /\ << >> \o <<"taken">> = <<"taken">>
            /\ <<"adv">> \o <<"taken">> = <<"adv", "taken">>
            /\ <<"disable">> \o <<"taken">> = <<"disable", "taken">>
            /\ <<"adv", "disable">> \o <<"taken">> = <<"adv", "disable", "taken">>
        BY Joined, JoinedThree
      <3> QED BY <2>1, <3>1 DEF Plans
    <2> QED BY <1>1, <1>3, <2>2, <2>3, BtBegins DEF Bt!btScanPoll
  <1> QED BY <1>2, <1>3

(* An event more, and one less. *)
LEMMA EventComes ==
  ASSUME Bt!BluetoothAssumption, Bt!TypeOK, NEW event \in {"connect", "disconnect", "scanned"},
         Bt!Happens(event)
  PROVE  /\ events' \in Seq({"connect", "disconnect", "scanned"}) /\ Len(events') <= MaxEvents
         /\ \E n \in Nat : /\ Len(events) = n /\ Len(events') = n + 1
                           /\ \A k \in 1 .. n : events'[k] = events[k]
                           /\ events'[n + 1] = event
  <1>1. /\ events \in Seq({"connect", "disconnect", "scanned"}) /\ Len(events) \in Nat
        /\ Len(events) < MaxEvents /\ events' = Append(events, event)
    BY LenProperties DEF Bt!Happens, Bt!TypeOK
  <1>2. /\ events' \in Seq({"connect", "disconnect", "scanned"}) /\ Len(events') = Len(events) + 1
        /\ \A k \in 1 .. Len(events) : events'[k] = events[k]
        /\ events'[Len(events) + 1] = event
    BY <1>1, AppendProperties
  <1>3. Len(events) + 1 <= MaxEvents
    BY <1>1 DEF Bt!BluetoothAssumption
  <1> QED BY <1>1, <1>2, <1>3

(* The first event goes when its callback has run. *)
LEMMA EventGoes ==
  ASSUME Bt!BluetoothAssumption, Bt!TypeOK, Bt!Deliver
  PROVE  /\ events' \in Seq({"connect", "disconnect", "scanned"}) /\ Len(events') <= MaxEvents
         /\ events[1] \in {"connect", "disconnect", "scanned"} /\ Head(events) = events[1]
         /\ \E n \in Nat : /\ Len(events) = n + 1 /\ Len(events') = n
                           /\ \A k \in 1 .. n : events'[k] = events[k + 1]
  <1>1. /\ events \in Seq({"connect", "disconnect", "scanned"}) /\ Len(events) <= MaxEvents
        /\ events # << >> /\ events' = Tail(events)
    BY DEF Bt!Deliver, Bt!TypeOK
  <1>2. Len(events) \in Nat /\ Len(events) # 0
    BY <1>1, EmptySeq, LenProperties
  <1>3. /\ events' \in Seq({"connect", "disconnect", "scanned"}) /\ Len(events') = Len(events) - 1
        /\ \A k \in 1 .. Len(events) - 1 : events'[k] = events[k + 1]
    BY <1>1, <1>2, HeadTailProperties
  <1>4. PICK n \in Nat : Len(events) = n + 1
    <2>1. Len(events) - 1 \in Nat /\ Len(events) = (Len(events) - 1) + 1
      BY <1>2
    <2> QED BY <2>1
  <1>5. n + 1 - 1 = n /\ n <= MaxEvents /\ 1 \in 1 .. n + 1
    BY <1>1, <1>4 DEF Bt!BluetoothAssumption
  <1>6. events[1] \in {"connect", "disconnect", "scanned"} /\ Head(events) = events[1]
    BY <1>1, <1>4, <1>5
  <1> QED BY <1>3, <1>4, <1>5, <1>6

(* What of the invariant a callback or an event leaves as it is. *)
LEMMA BtOutside ==
  ASSUME BtInv, ~raced, UNCHANGED <<config_bt_enabled, bt_scan_pending, todo, raced, cut, stranded, bt_commands>>,
         Typed(bt, bt_scan, stack)',
         events' \in Seq({"connect", "disconnect", "scanned"}), Len(events') <= MaxEvents,
         bt'.initialized = bt.initialized, stack'.up = stack.up,
         stack.adv \/ stack.peer => stack'.adv \/ stack'.peer \/ ~Now("mark"),
         bt_scan'.running => bt_scan.running,
         bt.initialized,
         PeerKnown', AirKnown', ScanKnown'
  PROVE  BtInv'
  <1>1. /\ TodoInOrder' /\ OneInside' /\ (\A s : Now(s)' <=> Now(s)) /\ (ToCome("prepare")' <=> ToCome("prepare"))
        /\ todo' \in [Commanders -> Seq(Bt!Steps)]
    BY DEF BtInv, Bt!TypeOK, TodoInOrder, OneInside, Now, ToCome
  <1>2. TestsHold'
    BY <1>1 DEF BtInv, TestsHold
  <1>3. StackKnown'
    BY DEF BtInv, StackKnown
  <1> QED BY <1>1, <1>2, <1>3, BtKeeps DEF BtInv, Bt!TypeOK

(* A callback: what it says was so when its event came. *)
LEMMA BtDeliver == ASSUME Bt!BluetoothAssumption, BtInv, ~raced, Bt!Deliver PROVE BtInv'
  <1>1. /\ UNCHANGED <<config_bt_enabled, bt_scan_pending, stack, todo, raced, cut, stranded, bt_commands>>
        /\ events # << >>
    BY DEF Bt!Deliver
  <1>2. /\ events' \in Seq({"connect", "disconnect", "scanned"}) /\ Len(events') <= MaxEvents
        /\ events[1] \in {"connect", "disconnect", "scanned"} /\ Head(events) = events[1]
        /\ \E n \in Nat : /\ Len(events) = n + 1 /\ Len(events') = n
                          /\ \A k \in 1 .. n : events'[k] = events[k + 1]
    BY EventGoes DEF BtInv
  <1>3. PICK n \in Nat : /\ Len(events) = n + 1 /\ Len(events') = n
                         /\ \A k \in 1 .. n : events'[k] = events[k + 1]
    BY <1>2
  <1>4. bt.initialized
    BY <1>1 DEF BtInv, StackKnown, Bt!TypeOK
  <1>5. /\ Typed(bt, bt_scan, stack)' /\ bt'.initialized = bt.initialized
        /\ events[1] = "connect" => bt'.connected /\ ~bt'.advertising /\ bt_scan' = bt_scan
        /\ events[1] = "disconnect" => ~bt'.connected /\ ~bt'.advertising /\ bt_scan' = bt_scan
        /\ events[1] = "scanned" => ~bt_scan'.running /\ bt' = bt
        /\ bt_scan'.running => bt_scan.running
    <2>1. CASE events[1] = "connect"
      BY <1>1, <1>2, <2>1 DEF BtInv, Bt!TypeOK, Typed, Bt!Deliver
    <2>2. CASE events[1] = "disconnect"
      BY <1>1, <1>2, <2>2, ZenonT(40) DEF BtInv, Bt!TypeOK, Typed, Bt!Deliver
    <2>3. CASE events[1] = "scanned"
      BY <1>1, <1>2, <2>3 DEF BtInv, Bt!TypeOK, Typed, Bt!Deliver
    <2> QED BY <1>2, <2>1, <2>2, <2>3
  <1>6. /\ 1 \in 1 .. n + 1 /\ \A k \in 1 .. n : k + 1 \in 1 .. n + 1
        /\ \A k \in 2 .. n + 1 : k - 1 \in 1 .. n /\ events'[k - 1] = events[k]
    BY <1>3
  <1>7. PeerKnown'
    <2>1. CASE /\ bt.connected <=> stack.peer
               /\ \A k \in 1 .. Len(events) : events[k] \notin Links
      <3>1. events[1] = "scanned" /\ \A k \in 1 .. n : events'[k] \notin Links
        BY <1>2, <1>3, <1>6, <2>1 DEF Links
      <3> QED BY <1>1, <1>3, <1>5, <2>1, <3>1 DEF PeerKnown
    <2>2. CASE \E k \in 1 .. Len(events) :
                 /\ events[k] = IF stack.peer THEN "connect" ELSE "disconnect"
                 /\ \A j \in k + 1 .. Len(events) : events[j] \notin Links
      <3>1. PICK k \in 1 .. n + 1 :
                 /\ events[k] = IF stack.peer THEN "connect" ELSE "disconnect"
                 /\ \A j \in k + 1 .. n + 1 : events[j] \notin Links
        BY <1>3, <2>2
      <3>2. CASE k = 1
        <4>1. \A j \in 1 .. n : events'[j] \notin Links
          BY <1>3, <3>1, <3>2
        <4> QED BY <1>1, <1>3, <1>5, <3>1, <3>2, <4>1 DEF PeerKnown
      <3>3. CASE k # 1
        <4>1. k - 1 \in 1 .. n /\ events'[k - 1] = events[k]
          BY <1>6, <3>3
        <4>2. \A j \in (k - 1) + 1 .. n : events'[j] \notin Links
          <5>1. \A j \in (k - 1) + 1 .. n : j \in 1 .. n /\ j + 1 \in k + 1 .. n + 1
            BY <3>3
          <5> QED BY <1>3, <3>1, <5>1
        <4> QED BY <1>1, <1>3, <3>1, <4>1, <4>2 DEF PeerKnown
      <3> QED BY <3>2, <3>3
    <2> QED BY <2>1, <2>2 DEF BtInv, PeerKnown
  <1>8. AirKnown'
    <2>1. SUFFICES ASSUME bt'.advertising, ~stack.adv, ~stack.peer
                   PROVE \E k \in 1 .. n : events'[k] \in Links
      BY <1>1, <1>3 DEF AirKnown
    <2>2. events[1] = "scanned" /\ bt' = bt
      BY <1>2, <1>5, <2>1
    <2>3. PICK k \in 1 .. n + 1 : events[k] \in Links
      BY <1>3, <2>1, <2>2 DEF BtInv, AirKnown
    <2>4. k \in 2 .. n + 1
      BY <2>2, <2>3 DEF Links
    <2> QED BY <1>6, <2>3, <2>4
  <1>9. ScanKnown'
    <2>1. Now("deinit")' <=> Now("deinit")
      BY <1>1 DEF Now
    <2>2. CASE Now("deinit")
      BY <1>1, <1>5, <2>1, <2>2 DEF BtInv, ScanKnown
    <2>3. CASE ~Now("deinit")
      <3>1. /\ bt_scan.running <=> (stack.scan \/ Scanned # {})
            /\ stack.scan => Scanned = {}
            /\ \A j, k \in Scanned : j = k
        BY <2>3 DEF BtInv, ScanKnown
      <3>2. Scanned = {k \in 1 .. n + 1 : events[k] = "scanned"} /\ Scanned' = {k \in 1 .. n : events'[k] = "scanned"}
        BY <1>3 DEF Scanned
      <3>3. \A k \in Scanned' : k + 1 \in Scanned
        BY <1>3, <1>6, <3>2
      <3>4. \A j, k \in Scanned' : j = k
        <4>1. \A j, k \in Scanned' : j + 1 = k + 1 /\ j \in Nat /\ k \in Nat
          BY <3>1, <3>2, <3>3
        <4> QED BY <4>1
      <3>5. CASE events[1] = "scanned"
        <4>1. 1 \in Scanned
          BY <1>6, <3>2, <3>5
        <4>2. Scanned' = {}
          <5>1. \A k \in Scanned' : k + 1 = 1 /\ k \in 1 .. n
            BY <3>1, <3>2, <3>3, <4>1
          <5> QED BY <5>1
        <4> QED BY <1>1, <1>5, <2>1, <2>3, <3>1, <3>5, <4>1, <4>2 DEF ScanKnown
      <3>6. CASE events[1] # "scanned"
        <4>1. \A k \in Scanned : k - 1 \in Scanned'
          BY <1>3, <1>6, <3>2, <3>6
        <4>2. bt_scan' = bt_scan
          BY <1>2, <1>5, <3>6
        <4> QED BY <1>1, <2>1, <2>3, <3>1, <3>3, <3>4, <4>1, <4>2 DEF ScanKnown
      <3> QED BY <3>5, <3>6
    <2> QED BY <2>2, <2>3
  <1> QED BY <1>1, <1>2, <1>4, <1>5, <1>7, <1>8, <1>9, BtOutside DEF Bt!Deliver

(* What an event that comes does to what is known of the events. *)
LEMMA EventKnown ==
  ASSUME Bt!BluetoothAssumption, Bt!TypeOK, NEW event \in {"connect", "disconnect", "scanned"},
         Bt!Happens(event)
  PROVE  /\ event = "scanned" =>
              /\ PeerKnown /\ stack'.peer = stack.peer => PeerKnown'
              /\ AirKnown /\ stack'.peer = stack.peer /\ stack'.adv = stack.adv => AirKnown'
              /\ Scanned = {} => Scanned' # {} /\ \A j, k \in Scanned' : j = k
         /\ event # "scanned" =>
              /\ event = (IF stack'.peer THEN "connect" ELSE "disconnect") => PeerKnown'
              /\ AirKnown' /\ Scanned' = Scanned
  <1>1. PICK n \in Nat : /\ Len(events) = n /\ Len(events') = n + 1
                         /\ \A k \in 1 .. n : events'[k] = events[k]
                         /\ events'[n + 1] = event
    BY EventComes
  <1>2. /\ n + 1 \in 1 .. n + 1 /\ \A k \in 1 .. n : k \in 1 .. n + 1 /\ k # n + 1
        /\ \A k \in 1 .. n + 1 : k = n + 1 \/ k \in 1 .. n
    OBVIOUS
  <1>3. UNCHANGED bt
    BY DEF Bt!Happens
  <1>4. Scanned = {k \in 1 .. n : events[k] = "scanned"} /\ Scanned' = {k \in 1 .. n + 1 : events'[k] = "scanned"}
    BY <1>1 DEF Scanned
  <1>5. ASSUME event = "scanned", PeerKnown, stack'.peer = stack.peer PROVE PeerKnown'
    <2>1. CASE /\ bt.connected <=> stack.peer
               /\ \A k \in 1 .. Len(events) : events[k] \notin Links
      <3>1. \A k \in 1 .. n + 1 : events'[k] \notin Links
        BY <1>1, <1>2, <1>5, <2>1 DEF Links
      <3> QED BY <1>1, <1>3, <1>5, <2>1, <3>1 DEF PeerKnown
    <2>2. CASE \E k \in 1 .. Len(events) :
                 /\ events[k] = IF stack.peer THEN "connect" ELSE "disconnect"
                 /\ \A j \in k + 1 .. Len(events) : events[j] \notin Links
      <3>1. PICK k \in 1 .. n :
                 /\ events[k] = IF stack.peer THEN "connect" ELSE "disconnect"
                 /\ \A j \in k + 1 .. n : events[j] \notin Links
        BY <1>1, <2>2
      <3>2. events'[k] = events[k] /\ k \in 1 .. n + 1
        BY <1>1, <1>2
      <3>3. ASSUME NEW j \in k + 1 .. n + 1 PROVE events'[j] \notin Links
        <4>1. CASE j = n + 1
          BY <1>1, <1>5, <4>1 DEF Links
        <4>2. CASE j # n + 1
          <5>1. j \in k + 1 .. n /\ j \in 1 .. n
            BY <4>2
          <5> QED BY <1>1, <3>1, <5>1
        <4> QED BY <4>1, <4>2
      <3> QED BY <1>1, <1>5, <3>1, <3>2, <3>3 DEF PeerKnown
    <2> QED BY <1>5, <2>1, <2>2 DEF PeerKnown
  <1>6. ASSUME event # "scanned", event = (IF stack'.peer THEN "connect" ELSE "disconnect")
        PROVE  PeerKnown'
    <2>1. \A j \in (n + 1) + 1 .. n + 1 : FALSE
      OBVIOUS
    <2> QED BY <1>1, <1>2, <1>6, <2>1 DEF PeerKnown
  <1>7. ASSUME AirKnown, stack'.peer = stack.peer /\ stack'.adv = stack.adv PROVE AirKnown'
    BY <1>1, <1>2, <1>3, <1>7 DEF AirKnown
  <1>8. event # "scanned" => AirKnown'
    BY <1>1, <1>2 DEF AirKnown, Links
  <1>9. ASSUME event = "scanned", Scanned = {} PROVE Scanned' # {} /\ \A j, k \in Scanned' : j = k
    <2>1. n + 1 \in Scanned'
      BY <1>1, <1>2, <1>4, <1>9
    <2>2. \A k \in Scanned' : k = n + 1
      BY <1>1, <1>2, <1>4, <1>9
    <2> QED BY <2>1, <2>2
  <1>10. event # "scanned" => Scanned' = Scanned
    BY <1>1, <1>2, <1>4
  <1> QED BY <1>5, <1>6, <1>7, <1>8, <1>9, <1>10

(* A peer comes or goes, a scan ends. *)
LEMMA BtWorld ==
  ASSUME Bt!BluetoothAssumption, BtInv, ~raced, Bt!PeerConnects \/ Bt!PeerLeaves \/ Bt!ScanEnds
  PROVE  BtInv'
  <1>1. Bt!TypeOK /\ stack \in [up : BOOLEAN, adv : BOOLEAN, peer : BOOLEAN, scan : BOOLEAN]
    BY DEF BtInv, Bt!TypeOK
  <1>2. bt.initialized
    BY <1>1 DEF BtInv, StackKnown, Bt!PeerConnects, Bt!PeerLeaves, Bt!ScanEnds
  <1>3. UNCHANGED <<config_bt_enabled, bt, bt_scan, bt_scan_pending, todo, raced, cut, stranded, bt_commands>>
        /\ (Now("deinit")' <=> Now("deinit"))
    BY DEF Bt!PeerConnects, Bt!PeerLeaves, Bt!ScanEnds, Bt!Happens, Now
  <1>4. CASE Bt!PeerConnects
    <2>1. Bt!Happens("connect") /\ stack' = [stack EXCEPT !.peer = TRUE, !.adv = FALSE]
      BY <1>4 DEF Bt!PeerConnects
    <2>2. /\ Typed(bt, bt_scan, stack)' /\ stack'.up = stack.up /\ stack'.peer
          /\ stack'.scan = stack.scan
      BY <1>1, <1>3, <2>1 DEF Bt!TypeOK, Typed
    <2>3. PeerKnown' /\ AirKnown' /\ Scanned' = Scanned
      BY <1>1, <2>1, <2>2, EventKnown
    <2>4. ScanKnown'
      BY <1>3, <2>2, <2>3 DEF BtInv, ScanKnown
    <2> QED BY <1>1, <1>2, <1>3, <2>1, <2>2, <2>3, <2>4, EventComes, BtOutside
  <1>5. CASE Bt!PeerLeaves
    <2>1. Bt!Happens("disconnect") /\ stack' = [stack EXCEPT !.peer = FALSE] /\ ~Now("mark")
      <3>1. \A c \in Commanders : todo[c] # << >> => todo[c][1] # "mark"
        BY <1>1, <1>5 DEF Bt!PeerLeaves, Bt!TypeOK
      <3> QED BY <1>5, <3>1 DEF Bt!PeerLeaves, Now
    <2>2. /\ Typed(bt, bt_scan, stack)' /\ stack'.up = stack.up /\ ~stack'.peer
          /\ stack'.scan = stack.scan
      BY <1>1, <1>3, <2>1 DEF Bt!TypeOK, Typed
    <2>3. PeerKnown' /\ AirKnown' /\ Scanned' = Scanned
      BY <1>1, <2>1, <2>2, EventKnown
    <2>4. ScanKnown'
      BY <1>3, <2>2, <2>3 DEF BtInv, ScanKnown
    <2> QED BY <1>1, <1>2, <1>3, <2>1, <2>2, <2>3, <2>4, EventComes, BtOutside
  <1>6. CASE Bt!ScanEnds
    <2>1. Bt!Happens("scanned") /\ stack' = [stack EXCEPT !.scan = FALSE] /\ stack.scan
      BY <1>6 DEF Bt!ScanEnds
    <2>2. /\ Typed(bt, bt_scan, stack)' /\ stack'.up = stack.up /\ stack'.peer = stack.peer
          /\ stack'.adv = stack.adv /\ ~stack'.scan
      BY <1>1, <1>3, <2>1, ZenonT(40) DEF Bt!TypeOK, Typed
    <2>3. ~Now("deinit") /\ Scanned = {} /\ bt_scan.running
      BY <2>1 DEF BtInv, ScanKnown
    <2>4. PeerKnown' /\ AirKnown' /\ Scanned' # {} /\ \A j, k \in Scanned' : j = k
      BY <1>1, <2>1, <2>2, <2>3, EventKnown DEF BtInv
    <2>5. ScanKnown'
      BY <1>3, <2>2, <2>3, <2>4 DEF ScanKnown
    <2> QED BY <1>1, <1>2, <1>3, <2>1, <2>2, <2>4, <2>5, EventComes, BtOutside
  <1> QED BY <1>4, <1>5, <1>6

(* The keyboard begins switched off. *)
LEMMA InitBtInv == ASSUME Bt!BluetoothAssumption, Bt!Init PROVE BtInv
  <1>1. /\ \A c \in Commanders : todo[c] = << >> /\ Len(todo[c]) = 0
        /\ todo \in [Commanders -> Seq(Bt!Steps)]
        /\ events = << >> /\ Len(events) = 0 /\ Len(events) <= MaxEvents
        /\ events \in Seq({"connect", "disconnect", "scanned"}) /\ bt_commands \in 0 .. MaxCommands
    BY DEF Bt!Init, Bt!BluetoothAssumption
  <1>2. /\ bt = Bt!BtOff /\ bt_scan = Bt!NoScan /\ stack = Bt!Down
        /\ Typed(bt, bt_scan, stack)
        /\ ~bt.initialized /\ ~bt.connected /\ ~bt.advertising /\ ~bt_scan.running
        /\ ~stack.up /\ ~stack.adv /\ ~stack.peer /\ ~stack.scan
    BY DEF Bt!Init, Typed, Bt!BtOff, Bt!NoScan, Bt!Down
  <1>3. /\ config_bt_enabled \in BOOLEAN /\ bt_scan_pending \in BOOLEAN
        /\ raced \in BOOLEAN /\ cut \in BOOLEAN /\ stranded \in BOOLEAN /\ ~stranded
    BY Zenon DEF Bt!Init
  <1>4. Bt!TypeOK
    BY <1>1, <1>2, <1>3 DEF Bt!TypeOK, Typed
  <1>5. TodoInOrder /\ OneInside
    BY <1>1 DEF TodoInOrder, InOrder, OneInside
  <1>6. (\A s : ~Now(s)) /\ ~ToCome("prepare") /\ Scanned = {}
    BY <1>1 DEF Now, ToCome, Scanned
  <1>7. TestsHold /\ StackKnown /\ PeerKnown /\ AirKnown /\ ScanKnown
    BY <1>1, <1>2, <1>3, <1>6 DEF TestsHold, StackKnown, PeerKnown, AirKnown, ScanKnown
  <1> QED BY <1>4, <1>5, <1>7 DEF BtInv

(* Every step keeps the invariant. *)
LEMMA NextBtInv ==
  ASSUME Bt!BluetoothAssumption, BtInv, [Bt!Next]_(Bt!vars) PROVE BtInv'
  <1>1. CASE UNCHANGED Bt!vars
    BY <1>1 DEF Bt!vars, BtInv, Bt!TypeOK, TodoInOrder, OneInside, Now, ToCome, TestsHold, StackKnown,
                PeerKnown, AirKnown, ScanKnown, Scanned
  <1>2. CASE Bt!Next
    <2>1. ASSUME NEW c \in Commanders, Bt!Step(c), ~raced PROVE BtInv'
      <3>1. CASE Bt!Enable(c) \/ Bt!Enabled(c) \/ Bt!btInit(c) \/ Bt!Create(c)
        BY <2>1, <3>1, BtEnable, BtEnabled, BtInit, BtCreate
      <3>2. CASE Bt!btStartAdvertising(c) \/ Bt!Mark(c)
        BY <2>1, <3>2, BtAdvertise, BtMark
      <3>3. CASE Bt!Disable(c) \/ Bt!Deinit(c) \/ Bt!Disabled(c)
        BY <2>1, <3>3, BtDisable, BtDeinit, BtDisabled
      <3>4. CASE Bt!MarkRestore(c) \/ Bt!PrepareScan(c) \/ Bt!StartScan(c) \/ Bt!Taken(c)
        BY <2>1, <3>4, BtMarkRestore, BtPrepareScan, BtStartScan, BtTaken
      <3> QED BY <2>1, <3>1, <3>2, <3>3, <3>4 DEF Bt!Step
    <2> QED BY <1>2, <2>1, BtCommandInv, BtScanCommandInv, BtPollInv, BtDeliver, BtWorld DEF Bt!Next
  <1> QED BY <1>1, <1>2

(* At rest, the flags are the state of the stack. *)
LEMMA BtFlagsAtRest == ASSUME BtInv PROVE Bt!BtFlagsMatch
  <1>1. SUFFICES ASSUME events = << >>, \A c \in Commanders : todo[c] = << >>, ~raced
                 PROVE  /\ bt.connected = stack.peer /\ bt_scan.running = stack.scan
                        /\ bt.advertising => stack.adv \/ stack.peer
                        /\ bt.initialized = (stack.up /\ ~stranded)
                        /\ stack.up => config_bt_enabled \/ stranded
    BY DEF Bt!BtFlagsMatch, Bt!Quiet
  <1>2. Len(events) = 0 /\ ~Now("deinit") /\ Scanned = {}
    BY <1>1 DEF Now, Scanned
  <1>3. /\ bt.connected \in BOOLEAN /\ stack.peer \in BOOLEAN /\ bt_scan.running \in BOOLEAN
        /\ stack.scan \in BOOLEAN /\ bt.initialized \in BOOLEAN /\ stack.up \in BOOLEAN
        /\ stranded \in BOOLEAN
    BY DEF BtInv, Bt!TypeOK
  <1>4. /\ bt.connected <=> stack.peer
        /\ bt.advertising => stack.adv \/ stack.peer
    BY <1>1, <1>2 DEF BtInv, PeerKnown, AirKnown
  <1>5. bt_scan.running <=> stack.scan
    BY <1>1, <1>2 DEF BtInv, ScanKnown
  <1> QED BY <1>1, <1>3, <1>4, <1>5 DEF BtInv, StackKnown

(* The keyboard's inductive invariant, for any number of tasks that give   *)
(* commands and any number of callbacks on their way, until two tasks are  *)
(* inside the keyboard's functions at a time: the stack is up when the     *)
(* flag says so, and also after a btInit that failed (btInit, btShutdown). *)
THEOREM BtInvariance == Bt!Spec => []BtInv
  <1>1. Bt!Init => BtInv
    BY InitBtInv, RadiosAssumption
  <1>2. BtInv /\ [Bt!Next]_(Bt!vars) => BtInv'
    BY NextBtInv, RadiosAssumption
  <1> QED BY <1>1, <1>2, PTL DEF Bt!Spec

-----------------------------------------------------------------------------
(* The three together: what is proved of each holds where a behaviour      *)
(* follows one of them.                                                    *)

(* A step of the composition is a step or a stutter of every radio. *)
LEMMA OneOfTheRadios ==
  ASSUME [RadiosNext]_radios
  PROVE  /\ part' = part
         /\ [Modem!Next]_(Modem!vars) /\ [Bt!Next]_(Bt!vars) /\ [Wifi!Next]_(Wifi!vars)
  <1>1. UNCHANGED modem => UNCHANGED Modem!vars
    BY DEF modem, Modem!vars, Modem!power, Modem!job, Modem!scan, Modem!prompt, Modem!bounds
  <1>2. UNCHANGED bluetooth => UNCHANGED Bt!vars
    BY DEF bluetooth, Bt!vars
  <1>3. UNCHANGED wifi => UNCHANGED Wifi!vars
    BY DEF wifi, Wifi!vars
  <1> QED BY <1>1, <1>2, <1>3 DEF RadiosNext, InModem, InBluetooth, InWifi, radios

RadiosInv ==
  /\ part \in {"modem", "bluetooth", "wifi"}
  /\ ModemInv /\ BtInv /\ WifiInv

(* The invariants of the three hold together. *)
LEMMA InitRadiosInv == ASSUME RadiosInit PROVE RadiosInv
  BY ModemStarts, InitBtInv, WifiStarts, RadiosAssumption DEF RadiosInit, RadiosInv

(* Every step keeps them. *)
LEMMA NextRadiosInv == ASSUME RadiosInv, [RadiosNext]_radios PROVE RadiosInv'
  BY OneOfTheRadios, NextModemInv, NextBtInv, NextWifiInv, RadiosAssumption DEF RadiosInv

(* The invariants of the radios, of whichever is followed. *)
THEOREM RadiosInvariance == RadiosSpec => []RadiosInv
  <1>1. RadiosInit => RadiosInv
    BY InitRadiosInv
  <1>2. RadiosInv /\ [RadiosNext]_radios => RadiosInv'
    BY NextRadiosInv
  <1> QED BY <1>1, <1>2, PTL DEF RadiosSpec

(* The types of the three. *)
THEOREM RadiosTyping == RadiosSpec => []RadiosTypeOK
  <1>1. RadiosInv => RadiosTypeOK
    BY DEF RadiosInv, RadiosTypeOK, ModemInv, BtInv, WifiInv
  <1> QED BY <1>1, RadiosInvariance, PTL

(* What the user sees of the modem is what its worker does                 *)
(* (modemWorkerTask), for any number of tasks and commands, until a        *)
(* command passes its tests while another is past its own, a worker was    *)
(* refused, or power went on over a job that had not ended.                *)
THEOREM RadiosModem == RadiosSpec => []ModemHonest
  <1>1. RadiosInv => ModemHonest
    BY HonestModem DEF RadiosInv, ModemHonest
  <1> QED BY <1>1, RadiosInvariance, PTL

(* At rest, the flags of Bluetooth and WiFi are the state of their stacks, *)
(* unless two tasks were inside their functions at a time or a btInit that *)
(* failed has left the stack of Bluetooth up.                              *)
THEOREM RadiosFlags == RadiosSpec => []FlagsMatch
  <1>1. WifiInv => Wifi!StateIsLink
    BY DEF WifiInv, OneTask, Wifi!StateIsLink, Wifi!Idle, Joining
  <1>2. RadiosInv => FlagsMatch
    BY <1>1, BtFlagsAtRest DEF RadiosInv, FlagsMatch
  <1> QED BY <1>2, RadiosInvariance, PTL
=============================================================================
