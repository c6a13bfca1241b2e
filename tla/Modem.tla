-------------------------------- MODULE Modem --------------------------------
(***************************************************************************)
(* The cellular modem: `mdm` switches it, `mds` scans.  Both hand the work *)
(* to a worker task and return; loop() picks up the outcome later.  The    *)
(* commands come from loop() and from the task of a shortcut, and nothing  *)
(* locks the flags they share with the worker.                             *)
(***************************************************************************)
EXTENDS Naturals

CONSTANTS
  Commanders,   \* tasks that run commands
  MaxCommands   \* bound: commands in a behaviour

ModemAssumption == MaxCommands \in Nat

VARIABLES
  modem_state, modem_job, modem_task_handle,
  power_en,                        \* the pin of the modem's supply
  modem_scan_running, modem_scan_done, modem_scan_restore_off,
  power_event,                     \* modem_power_event_pending with its _ok
  modem_scan_pending, modem_power_pending_notice,
  worker,    \* where modemWorkerTask is
  command,   \* where each task is in its command
  refused,   \* ghost: a worker was refused to a command whose tests had passed
  stale,     \* ghost: power was asked for with the event of an earlier job unread or to come
  overlap,   \* ghost: two commands were past their tests at a time
  commands   \* bound counter

scan == <<modem_scan_running, modem_scan_done, modem_scan_restore_off>>
job == <<modem_job, modem_task_handle, worker>>
power == <<modem_state, power_en>>
prompt == <<modem_scan_pending, modem_power_pending_notice>>
bounds == <<command, refused, stale, overlap, commands>>
vars == <<power, job, scan, power_event, prompt, bounds>>

\* Past the tests: from the first test that counts to the return of the command.
Scanning == {"scan", "mark", "startScan", "createScan", "undo", "sayScan"}
Inside == Scanning \cup {"boot", "startPower", "createPower", "cut", "sayOff"}
Places == Inside \cup {"idle", "on", "off", "noticeOn", "noticeOff"}

TypeOK ==
  /\ modem_state \in {"OFF", "BOOTING", "ON", "SCANNING", "ERROR"}
  /\ modem_job \in {"none", "power", "scan"} /\ modem_task_handle \in BOOLEAN
  /\ power_en \in BOOLEAN
  /\ modem_scan_running \in BOOLEAN /\ modem_scan_done \in BOOLEAN
  /\ modem_scan_restore_off \in BOOLEAN
  /\ power_event \in {"none", "ok", "failed"}
  /\ modem_scan_pending \in BOOLEAN /\ modem_power_pending_notice \in BOOLEAN
  /\ worker \in {"none", "begin", "boot", "wait", "bootfailed", "booted", "ping", "noping",
                 "noanswer", "dwell", "scanned", "clear", "handle"}
  /\ command \in [Commanders -> Places]
  /\ refused \in BOOLEAN /\ stale \in BOOLEAN /\ overlap \in BOOLEAN
  /\ commands \in 0 .. MaxCommands

Init ==
  /\ modem_state = "OFF" /\ modem_job = "none" /\ modem_task_handle = FALSE
  /\ power_en = FALSE
  /\ modem_scan_running = FALSE /\ modem_scan_done = FALSE /\ modem_scan_restore_off = FALSE
  /\ power_event = "none"
  /\ modem_scan_pending = FALSE /\ modem_power_pending_notice = FALSE
  /\ worker = "none" /\ command = [c \in Commanders |-> "idle"]
  /\ refused = FALSE /\ stale = FALSE /\ overlap = FALSE /\ commands = 0

modemIsPowered == modem_state \in {"ON", "SCANNING", "BOOTING"}
modemOperationInProgress == modem_job # "none"

-----------------------------------------------------------------------------
(* The commands.  A command is preempted between its tests and what it     *)
(* does, and between any two of its writes that another task looks at; the *)
(* tests of one function are one step.                                     *)

Go(c, here, next) == command[c] = here /\ command' = [command EXCEPT ![c] = next]
Beside(c) == \E d \in Commanders \ {c} : command[d] \in Inside

\* The command line's own tests (a toggle's lead to no state that counts on them).
Type(c, next) ==
  /\ Go(c, "idle", next) /\ commands < MaxCommands /\ commands' = commands + 1
  /\ UNCHANGED <<power, job, scan, power_event, prompt, refused, stale>>
Toggle(c) ==
  /\ ~modem_scan_running /\ ~modemOperationInProgress
  /\ Type(c, IF modemIsPowered THEN "off" ELSE "on") /\ UNCHANGED overlap
ScanCommand(c) ==
  ~modem_scan_pending /\ Type(c, "scan") /\ overlap' = (overlap \/ Beside(c))

\* The tests of modemSetPowered and of modemScanStartAsync.
Tests(c, here, fails, next, otherwise) ==
  /\ IF fails THEN Go(c, here, otherwise) /\ UNCHANGED overlap
     ELSE Go(c, here, next) /\ overlap' = (overlap \/ Beside(c))
  /\ UNCHANGED <<power, job, scan, power_event, prompt, refused, stale, commands>>
OnTests(c) == Tests(c, "on", modemIsPowered \/ modem_scan_running, "boot", "idle")
\* Mutant: the supply goes whatever the worker does.
OffTestsScanOnly(c) ==
  Tests(c, "off", modem_scan_running \/ modem_state = "OFF", "cut", "noticeOff")
OffTests(c) ==
  Tests(c, "off", modem_scan_running \/ modemOperationInProgress \/ modem_state = "OFF",
        "cut", "noticeOff")
ScanTests(c) ==
  Tests(c, "scan", modem_scan_running \/ modemOperationInProgress, "mark", "idle")

\* modemSetPowered(true) says BOOTING before it has a worker.
PowerOn(c) ==
  /\ Go(c, "boot", "startPower") /\ modem_state' = "BOOTING"
  /\ stale' = (stale \/ power_event # "none" \/ modemOperationInProgress)
  /\ UNCHANGED <<power_en, job, scan, power_event, prompt, refused, overlap, commands>>

\* modemSetPowered(false) switches off at once, in the task of the command.
PowerOff(c) ==
  /\ \/ Go(c, "cut", "sayOff") /\ power_en' = FALSE /\ UNCHANGED modem_state
     \/ Go(c, "sayOff", "noticeOff") /\ modem_state' = "OFF" /\ UNCHANGED power_en
  /\ UNCHANGED <<job, scan, power_event, prompt, refused, stale, overlap, commands>>

\* modemScanStartAsync: the first of the flags stops every other command.
ScanStart(c) ==
  /\ Go(c, "mark", "startScan")
  /\ modem_scan_running' = TRUE /\ modem_scan_done' = FALSE
  /\ modem_scan_restore_off' = ~modemIsPowered /\ modem_state' = "SCANNING"
  /\ UNCHANGED <<power_en, job, power_event, prompt, refused, stale, overlap, commands>>

\* modemStartWorker: two tests, the job, and the task, which may fail to start.
StartWorker(c) ==
  /\ \/ /\ modem_job = "none" /\ ~modem_task_handle /\ UNCHANGED refused
        /\ \/ Go(c, "startPower", "createPower") /\ modem_job' = "power"
           \/ Go(c, "startScan", "createScan") /\ modem_job' = "scan"
     \/ /\ modem_job # "none" \/ modem_task_handle
        /\ refused' = TRUE /\ UNCHANGED modem_job
        /\ Go(c, "startPower", "idle") \/ Go(c, "startScan", "undo")
  /\ UNCHANGED <<power, modem_task_handle, worker, scan, power_event, prompt, stale,
                 overlap, commands>>
CreateTask(c) ==
  /\ \/ /\ Go(c, "createPower", "noticeOn") \/ Go(c, "createScan", "sayScan")
        /\ modem_task_handle' = TRUE /\ worker' = "begin" /\ UNCHANGED <<modem_job, refused>>
     \/ /\ Go(c, "createPower", "idle") \/ Go(c, "createScan", "undo")
        /\ modem_job' = "none" /\ modem_task_handle' = FALSE /\ refused' = TRUE
        /\ UNCHANGED worker
  /\ UNCHANGED <<power, scan, power_event, prompt, stale, overlap, commands>>

\* A scan that was refused its worker takes its flags back.
Undo(c) ==
  /\ Go(c, "undo", "idle")
  /\ modem_scan_running' = FALSE /\ modem_scan_done' = FALSE
  /\ modem_state' = IF modem_state # "SCANNING" THEN modem_state
                    ELSE IF modem_scan_restore_off THEN "OFF" ELSE "ON"
  /\ UNCHANGED <<power_en, job, modem_scan_restore_off, power_event, prompt, refused, stale,
                 overlap, commands>>

\* The command line's last word, when the worker may be at its end already.
Say(c) ==
  /\ \/ /\ Go(c, "sayScan", "idle") /\ modem_scan_pending' = TRUE
        /\ UNCHANGED modem_power_pending_notice
     \/ /\ Go(c, "noticeOn", "idle") /\ modem_power_pending_notice' = TRUE
        /\ UNCHANGED modem_scan_pending
     \/ /\ Go(c, "noticeOff", "idle") /\ modem_power_pending_notice' = FALSE
        /\ UNCHANGED modem_scan_pending
  /\ UNCHANGED <<power, job, scan, power_event, refused, stale, overlap, commands>>

-----------------------------------------------------------------------------
(* modemWorkerTask.                                                        *)

WorkerUnchanged == UNCHANGED <<modem_job, modem_task_handle, prompt, bounds>>
At(here, next) == worker = here /\ worker' = next

\* Nobody looks between the two writes: the worker has its job.
CutPower == modem_state' = "OFF" /\ power_en' = FALSE

\* What the worker's job does first.
Begin ==
  /\ WorkerUnchanged /\ UNCHANGED <<power_en, scan, power_event>>
  /\ \/ /\ modem_job = "scan" /\ modem_state' = "SCANNING"
        /\ At("begin", IF modem_scan_restore_off THEN "boot" ELSE "ping")
     \/ modem_job = "power" /\ At("begin", "boot") /\ UNCHANGED modem_state

\* modemPowerOnBlocking: the supply, the power key, then AT until it answers.
Boot ==
  /\ At("boot", "wait") /\ modem_state' = "BOOTING" /\ power_en' = TRUE
  /\ WorkerUnchanged /\ UNCHANGED <<scan, power_event>>
Answers ==
  /\ At("wait", IF modem_job = "scan" THEN "ping" ELSE "booted")
  /\ modem_state' = "ON"
  /\ WorkerUnchanged /\ UNCHANGED <<power_en, scan, power_event>>
AtTimeout ==
  /\ At("wait", "bootfailed") /\ CutPower
  /\ WorkerUnchanged /\ UNCHANGED <<scan, power_event>>

EndScan ==
  /\ modem_scan_running' = FALSE /\ modem_scan_done' = TRUE
  /\ UNCHANGED modem_scan_restore_off

\* Mutant: a modem that does not boot says nothing of the scan.
BootFailedSilently ==
  /\ At("bootfailed", "clear") /\ modem_state' = "ERROR"
  /\ WorkerUnchanged /\ UNCHANGED <<power_en, scan>>
  /\ power_event' = (IF modem_job = "power" THEN "failed" ELSE power_event)

BootFailed ==
  /\ At("bootfailed", "clear") /\ modem_state' = "ERROR"
  /\ WorkerUnchanged /\ UNCHANGED power_en
  /\ \/ modem_job = "scan" /\ EndScan /\ UNCHANGED power_event
     \/ modem_job = "power" /\ power_event' = "failed" /\ UNCHANGED scan
Booted ==
  /\ At("booted", "clear") /\ power_event' = "ok"
  /\ WorkerUnchanged /\ UNCHANGED <<power, scan>>

\* modemRunScanBlocking once the modem is on: AT, the queries and the samples.
\* The result is announced before the power goes off again.
Ping ==
  /\ \/ At("ping", "dwell") /\ UNCHANGED scan
     \/ At("ping", "noping") /\ EndScan
  /\ WorkerUnchanged /\ UNCHANGED <<power, power_event>>
NoPing ==
  /\ At("noping", "noanswer")
  /\ IF modem_scan_restore_off THEN CutPower ELSE UNCHANGED power
  /\ WorkerUnchanged /\ UNCHANGED <<scan, power_event>>
NoAnswer ==
  /\ At("noanswer", "clear") /\ modem_state' = "ERROR"
  /\ WorkerUnchanged /\ UNCHANGED <<power_en, scan, power_event>>
Dwell ==
  /\ At("dwell", "scanned") /\ EndScan
  /\ WorkerUnchanged /\ UNCHANGED <<power, power_event>>
Scanned ==
  /\ At("scanned", "clear")
  /\ IF modem_scan_restore_off THEN CutPower
     ELSE modem_state' = "ON" /\ UNCHANGED power_en
  /\ WorkerUnchanged /\ UNCHANGED <<scan, power_event>>

ClearJob ==
  /\ At("clear", "handle") /\ modem_job' = "none"
  /\ UNCHANGED <<power, modem_task_handle, scan, power_event, prompt, bounds>>
ClearHandle ==
  /\ At("handle", "none") /\ modem_task_handle' = FALSE
  /\ UNCHANGED <<power, modem_job, scan, power_event, prompt, bounds>>

Worker ==
  \/ Begin \/ Boot \/ Answers \/ AtTimeout \/ BootFailed \/ Booted
  \/ Ping \/ NoPing \/ NoAnswer \/ Dwell \/ Scanned \/ ClearJob \/ ClearHandle

-----------------------------------------------------------------------------
(* loop() shows the outcomes.                                              *)

modemScanPoll ==
  /\ modem_scan_pending /\ ~modem_scan_running /\ modem_scan_done
  /\ modem_scan_pending' = FALSE /\ modem_scan_done' = FALSE
  /\ UNCHANGED <<power, job, modem_scan_running, modem_scan_restore_off, power_event,
                 modem_power_pending_notice, bounds>>

modemPowerNotifyPoll ==
  /\ modem_power_pending_notice /\ power_event # "none"
  /\ modem_power_pending_notice' = FALSE /\ power_event' = "none"
  /\ UNCHANGED <<power, job, scan, modem_scan_pending, bounds>>

Poll == modemScanPoll \/ modemPowerNotifyPoll
Act(c) ==
  \/ OnTests(c) \/ OffTests(c) \/ ScanTests(c) \/ PowerOn(c) \/ PowerOff(c)
  \/ ScanStart(c) \/ StartWorker(c) \/ CreateTask(c) \/ Undo(c) \/ Say(c)

\* Bound: a behaviour is followed until two commands are past their tests.
Next ==
  /\ ~overlap
  /\ \/ \E c \in Commanders : Toggle(c) \/ ScanCommand(c) \/ Act(c)
     \/ Worker \/ Poll

Spec == Init /\ [][Next]_vars

\* The tasks run and loop() polls; the user owes nothing.
FairSpec ==
  /\ Spec /\ \A c \in Commanders : WF_vars(Act(c))
  /\ WF_vars(Worker) /\ WF_vars(Poll)

-----------------------------------------------------------------------------
(* Properties.                                                             *)

\* What the user sees is right: BOOTING and SCANNING mean that a worker exists or is
\* being started, no command cuts the supply while the worker talks to the modem, and
\* a result that is waited for is being made or is there.  Excluded are the two ways
\* in which the code breaks this: a command that is refused its worker after its tests
\* leaves BOOTING behind or throws away the result of an earlier scan; and of two
\* commands that are past their tests at a time, loop()'s and a shortcut's, either acts
\* on tests that no longer hold (a second worker, a supply cut under the first).
\* "Modem ready" never comes while it boots, unless the event of an earlier power-on
\* had not been shown, or had not come yet, when the power was asked for.
Booting == modem_job = "power" /\ worker \in {"begin", "boot", "wait"}
Starting ==
  \E c \in Commanders :
    command[c] \in {"startPower", "createPower", "startScan", "createScan"}
ModemHonest ==
  ~overlap =>
    /\ ~refused =>
         /\ modem_state \in {"BOOTING", "SCANNING"} => modem_task_handle \/ Starting
         /\ worker \in {"wait", "ping", "dwell"} => power_en
         /\ modem_scan_pending => modem_scan_running \/ modem_scan_done
    /\ ~stale => ~(modem_power_pending_notice /\ power_event = "ok" /\ Booting)

\* A scan that was started is answered.
ScanAnswered == modem_scan_pending ~> (~modem_scan_pending \/ refused \/ overlap)
=============================================================================
