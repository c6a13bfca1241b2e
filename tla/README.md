# Verification of the T-Deck notepad

TLA+ modules for the firmware under `src/src` (an e-ink notepad, SSH terminal
and radio companion on an ESP32-S3), TLC configurations that model-check them
on small instances, and TLAPS proofs of what matters most for every instance.
Definitions keep the names of the source; `PROJECT.json` maps each of them to
the lines it stands for.

## The system

The firmware is one program of cooperating FreeRTOS tasks on two cores.

| Component | State | Operations | Talks to | What makes it correct |
|---|---|---|---|---|
| SPI bus and display task (`main.cpp:82-88,1086-1090`, `screen_module.hpp`) | `sd_busy`, `display_idle`, `state_mutex`, `render_requested`, `term_render_requested`, `app_mode` | `displayTask` loop, `sdAcquire`, `sdRelease`, key handlers in `loop()` | every other component, by flags and the mutex | the card and the panel do not use the bus together; every change is drawn; nobody waits for ever |
| Terminal emulator (`main.cpp:224-1080`) | `term_buf`, cursor, region, alternate screen, view | one control function per byte sequence, under `state_mutex` | fed by the SSH receive task, read by the display | cursor and view inside the buffer, regions respected, scrollback and main screen survive |
| Input parser (`main.cpp:868-1080`) | `in_escape`, `in_bracket`, `csi_*`, `utf8_remaining` | one byte of a chunk | terminal emulator | a sequence means the same however the stream is cut |
| SSH session (`network_module.hpp`) | `ssh_connected`, `ssh_connecting`, session, channel, `ssh_io_mutex`, receive task | connect, send, receive, disconnect | terminal, transfers | the shell has its receive task, a lost session comes back |
| Upload and download (`cli_module.hpp:420-960`) | `file_list`, streams, the manifest, `upload_running`, `download_running` | `uploadTask`, `downloadTask`, shell scripts on the host | SSH exec channel, card, display | "done" means mirrored, no torn files, only extras are pruned, every transfer ends |
| Transfer gating and shortcuts (`cli_module.hpp:910-1450`) | running flags, step list | start, pause/resume of the receive task, `shortcutTask` | SSH session, transfers | one transfer at a time; a step starts after the one before ended |
| Notepad editor and files (`main.cpp:1095-1900`) | text buffer, `file_modified`, mounts | edit, save, load, automatic save | card, picker | no unsaved text is lost |
| Command line, history, pickers (`main.cpp:1330-1778`, `cli_module.hpp:2222-2680`) | `cmd_buf`, history, `cmd_picker_*`, the shared lists | typed commands, browsing, picking, MIC tap | everything | history order, Enter acts on the row that is marked |
| WiFi and VPN (`network_module.hpp:20-125`, `cli_module.hpp:98-260`) | `wifi_state`, the station, the networks of /CONFIG | `wfi`, `ws`, the picker, `date`, sshConnectTask's join, loop()'s check every five seconds | SSH session, clock | a lost link is noticed, WiFi that was switched off stays off |
| Cellular modem (`modem_module.hpp`) | `modem_state`, `modem_job`, the worker's handle, scan and power events | `mdm`, `mds`, the worker task, two polls | loop() | what is shown is what the modem does, a scan is answered |
| Bluetooth HID (`bluetooth_module.hpp`) | `bt_initialized`, `bt_connected`, `bt_advertising`, `bt_state`, the scan's flags | `bt`, `bs`, two polls, callbacks on the BLE task | loop(), keyboard, trackpad mode | flags agree with the stack, the device comes back on the air, a scan ends |
| Meshtastic radio (`meshtastic_module.hpp`) | `msh_state`, `msh_radio_ready`, the chip, the duplicate cache | `msh`, `mss`, `mss tx`, the poll | loop(), SPI bus | the radio listens again after a send, a packet or a scan that went well (not after a command that failed or a send that timed out), "tx ok" is true, a packet is handled once |
| GNSS and time (`gnss_module.hpp`, `time_sync_module.hpp`) | speed of the line, last RMC and GGA, the clock and its source | sentences, `gps`, NTP, `date` | loop() | the clock is not ahead and follows the receiver, the speed is found |
| Power off, keyboard, serial agent | flags | straight sequences | display, key handlers | |

### How they interact

- `loop()` (core 1) polls the keyboard, touch, the BOOT button and the
  peripherals. A key event is handled under `state_mutex` (25 ms timeout); Enter
  in the prompt gives the mutex back while the command runs.
- `displayTask` (core 0) waits while `sd_busy`, picks work from the render flags
  and `app_mode`, copies state under `state_mutex`, and refreshes the panel with
  `display_idle` FALSE.
- `sshReceiveTask` (core 0) reads the channel under `ssh_io_mutex` and hands
  chunks to `terminalAppendOutput` under `state_mutex`.
- `uploadTask`, `downloadTask`, `shortcutTask`, `sshConnectTask` and the modem
  worker are background tasks that use the card, the channel or a radio, and report
  by `render_requested`. A shortcut's task runs the same commands as the prompt, so
  every command may meet itself in another task.
- The BLE library calls back on a task of its own, some time after the event; the
  modem's worker, the mesh radio and the GPS receiver are polled by loop().

### What is hard in it

Two flags stand in for a bus lock and are read and written in separate steps;
handlers wait for one resource holding the other; render requests are set while
a refresh that may clear them is running; tasks are deleted while they hold
mutexes; streams are cut at any byte, by the network and by chunking; the host
side of a transfer fails independently of the device; commands act on what a callback or a
worker has yet to report; a radio is given its orders one bus cycle at a time; alternate screens, scroll
regions and one shared cursor slot interact over long legal sequences. The
`hazards` of `PROJECT.json` list these at their lines, with the properties that
cover them or the reason why none does.

## Modules

| Module | Models | State and actions against the code |
|---|---|---|
| `SpiBus` | handshake of displayTask, loop() and card users | `dpc` is displayTask's program point (`check`: the `sd_busy` test, `pick`: the branches on mode and flags, `mark`: `display_idle = false`, `lock`: the snapshot under the mutex, `render`, `clear`: flags cleared after a mode switch); `pc[t]` is the place of a card-using task; one action per step between two shared accesses |
| `Terminal` | cursor, region, alternate screen, view | one action per control function of `terminalAppendOutput` and `handleCSI`; `IntSum` is the sum of a cursor and a count as an int; `EndChunk` is its epilogue, `TouchScroll` loop()'s touch handler |
| `TermRows` | `term_buf` row by row | the same functions seen as movements of rows; `Edit`, `EraseBelow`...; `LineCountOverflows` restarts the device, as the copies outside the buffer do |
| `TermCells` | the cells of a row | `PutChar`, tab, backspace, insert, delete and erase characters; `CharCountOverflows` as above |
| `VtStream` | abstract specification: what a byte stream means | a mode, the CSI arguments (further ones are dropped) and the operation performed; a number past int is any int (`Grown`) |
| `CsiParser` | the parser with the code's variables and its chunks | `csi_param_count` goes on past the array, values wrap (`Wrapped`), `Handled` is what `handleCSI` sees of them; refines `VtStream` (`Stream == INSTANCE VtStream WITH ...`) |
| `SshSession` | the session, the receive task and those that delete and start it | `pc[t]` is the program point of each task, `freeing[t]` its place inside `sshDisconnect`, which three kinds of task call; deleting a task makes `Dead` the owner of what it held; `ssh_sess` is `broken` once the network lost it |
| `Editor` | the buffer, the files on the card and on a mounted directory | `text_buf` tells one followed passage from other text; `pc` and `job` are the place of the file command under way (`autosave`, `clear`: the flag after the write, `load`, `fetched`: the server's answer before the buffer takes it), given by loop() or by a shortcut's task, beside which keys arrive; `atRisk` records that a known way to lose text was taken |
| `CmdPicker` | the file, network and mount pickers | `job[t]` is where a picker command of loop() or of a shortcut is (`listed`, `indexed`, `fetched`), `opened` where Enter is in loop(); `marked` is the row with '>' in `cmd_result`; `UploadList`, `OtherResult` and `finishWifiScanCommand` write over the lists and rows meanwhile; `FileRefs` are the entries of a listing that are files, `Found` the networks of a scan without the second of a name |
| `CmdHistory` | the prompt's line and history | the functions of the source on `cmd_history`, `cmd_history_nav`, `cmd_history_draft` |
| `Shortcut` | who may start a transfer, and `.x` scripts | `running` are `upload_running` and `download_running`; each starter (loop(), the shortcut's task) goes through the tests and the assignment of `start*Transfer` one access at a time; `transfer` are the tasks, `steps` and `i` the script |
| `Upload` | `uploadTask`, `uploadStreamFile`, the host's script | two processes joined by a FIFO `wire`; one action per message written or read and per failure; `blind` records a listing that failed, `astray` a file that came up short, after which the script takes lines for data and data for lines (`DataAstray`, `SeparatorAstray`, `HeaderAstray`) |
| `Download` | the host's script, `downloadTask`, manifest and pruning | as above, the other way round |
| `Modem` | `mdm`, `mds`, `modemWorkerTask`, the two polls | `command[c]` is where a command is: its tests and each of its effects are separate steps (`OnTests`, `PowerOn`, `StartWorker`, `CreateTask`, ...), so that the worker and another command come between them; `worker` is the worker's place (`clear` and `handle`: the job and the handle are cleared apart); `refused`, `stale` and `overlap` record the races the properties exclude |
| `Bluetooth` | `bt`, `bs`, `btPoll`, the scan's poll, the BLE task's callbacks | `todo[c]` is what a task has still to do of its command, one element per statement group another task can come between; `stack` is the library, `events` the callbacks it has yet to run; `stranded` records a btInit that failed after `BLEDevice::init` and left the stack up |
| `Wifi` | the commands, sshConnectTask's join, loop()'s check | `pc[t]` and `left[t]` are the place and the networks still to try of each task; `radio` is the station |
| `MeshRadio` | power, send, receive and scan as sequences of commands to the chip | `todo[c]` is the rest of the sequence, `op[c]` whose it is; `chip` the SX1262's supply, mode, interrupt flags, length and buffer; `Fault` fails any command |
| `SeenPackets` | `mshIsDuplicatePacket` | the slots of the cache and a clock |
| `GnssClock` | the parsers of RMC and GGA, speed probing, `timeSyncMaybeFromGnss` | `left` is what is left of a second's sentences, `error` the clock less the true time |

`SpiBusProofs`, `TerminalProofs`, `CsiParserProofs`, `ScreenProofs` (`TermRows`, `TermCells`
and their composition `TermScreen`), `SshSessionProofs`, `UploadProofs` (`Upload`, `Download`,
`Shortcut`, and the composition `Transfers`), `PartsProofs` (`Editor`, `CmdHistory`,
`SeenPackets`, `CmdPicker`, `GnssClock`, `MeshRadio`, and the composition `Parts`) and
`RadioProofs` (`Modem`, `Wifi`, `Bluetooth`, and the composition `Radios`) hold the
theorems. `TermScreen`, `Transfers`, `Parts` and `Radios` compose modules that share no
state; their invariants say of each component what its own module says.

`MC*` modules give TLC small sets; each run has its `.cfg`. The compositions hold several modules that share no state: a behaviour picks one
(`part`) and follows it, so that their states add and do not
multiply. A liveness property of such a module is the modules' own, stated once: a
behaviour has one upload, download or shortcut, so `TransfersEnd` is `UploadEnds`,
`DownloadEnds` and `ShortcutEnds`; `RadiosRecover` is `ScanAnswered` of Modem and of
Bluetooth, `BackOnAir` and `LostLinkNoticed`. Terminal, TermRows
and TermCells are three views of one component: their control functions have
the same names, and each view keeps the state its properties are about. TermRows
takes the region bounds as `Terminal!SetRegion` normalises them. CsiParser says
which control function a byte performs.

## Runs

| Run | Shows | Bounds, and why they are enough |
|---|---|---|
| `MCSpiBus_handshake` | types; a busy period overlaps at most one refresh; nobody enters the card in the middle of a refresh; every change is drawn, the panel reaches `app_mode`, `sdAcquire` returns - unless the picker's deadlock was reached | loop() with the picker and one background task, the notepad, the terminal and the prompt, one SD session of each task (`MaxSessions` counts per task), so that two users of the card overlap and the first `sdRelease` clears the flag of the second; the two safety properties are proved for any number of sessions, tasks and modes |
| `MCSpiBus_deadlock` (violated) | "never blocks on display" is false: the picker and a mode switch wait for each other | one SD session of each task |
| `MCTerminal_safety` | region, view and pending wrap inside the buffer (`AddressesInBuffer`), cursor in view, main screen kept | buffer of 4 rows, screen of 3 (so that the buffer scrolls and the view moves), 2 columns, parameters missing, inside and beyond; all fit an int when added to a cursor (`ParamsFit`; what happens beyond is `OverflowLeaves`) |
| `MCTermScreen` | printed lines stay in the scrollback, regions hold, CSI L and CSI M are scrolls (`EditsScroll`); printing reads back, insert and delete characters shift the row (`EditsShift`; the two together are `EditsMove`) | `TermRows` with the same geometry, one text token and blank, counts of one and of a whole screen, or (`part`) `TermCells` with 2 rows of 3 columns and counts up to one more than the row |
| `MCCsiParser_stream` | the parser implements `VtStream` | one byte of each class, two digits, two parameters, an int of 3 bits (`INT_MAX` = 3), so that values wrap, and three separators, one more than the array has room for |
| `MCSshSession_heard` | a transfer ends and leaves the shell with a receive task; a lost session is connected again - unless a lock or a half-freed session was lost | one transfer, one connect task at a time, two receive tasks (a third would be a second leak), one failure, two of `dc` and transfer starts, so that `dc` meets a transfer and two transfers follow each other |
| `MCTransfers_mirror` | upload: no torn file, done means mirrored (unless the listing failed or a file came up short: both happen in the run, and only the end of the transfer is claimed then); download: done means mirrored, a file the host has is never pruned; shortcuts: the running flags are honest and a passed wait means a finished transfer, unless two starts met; all three end, a shortcut even if a transfer hangs | upload: three names, one refused by the transfer; two blocks, so that a part is not the whole; one message in flight, the device being at most one ahead of the script; one upload from every mixture of old and missing files, so that a second would start from states like these; download: two, so that what the first left (manifest included) meets the second; shortcut: every script of up to two steps (start, wait, go on), two typed commands, two transfer tasks, so that one overlap fits |
| `MCUpload_cut` (violated) | only extras are deleted on the host | link loss only |
| `MCUpload_relist` (violated) | done means mirrored, with `l` or a picker at the prompt | no failures; `RelistSpec` adds `Relist`: another command fills `file_list` while the upload walks it |
| `MCParts_safety` | Enter acts on the marked row unless a task wrote over the lists or rows since it was drawn; the history holds the most recent commands; text typed or kept in a file is lost only in the ways listed below, an unmodified buffer is what its file holds; the mesh radio listens again unless a command failed or a send timed out, and "tx ok" is true; the cache remembers the packets heard last; the clock follows the receiver and its speed is found | pickers: two visible rows of up to three files and a directory, two listings, two networks heard in any order, one mount; history: three commands, two kept, four entered; notepad: one mount, two names (one `UNSAVED`), every starting content of the four places, nothing else bounded; mesh: three commands of two tasks, one failing command to the chip, one packet; cache: two slots, four packets, an age of 3 in 7 ticks, so that entries expire and are displaced; clock: days of 5 s, so that midnights fall inside, three speeds with the right one in the middle, three lost sentences, so that a whole second can be lost and the probe leaves the right speed |
| `MCRadios_recover` | modem: what is shown is what the modem does, unless a worker was refused, an event was unread or two commands overlapped; Bluetooth and WiFi: at rest, the flags are the state of their stacks, unless two tasks were inside or a failed btInit left the stack up; scans are answered, the device comes back on the air, a lost link is noticed | four commands of two tasks each; two callbacks waiting; two known networks, two changes of the network |
| `Bluetooth_scan` (violated) | a scan in progress ends and the next may start | three commands of loop(), a scan and `bt` among them |

`CHECK_DEADLOCK FALSE` is set where the system really stops: the bounded transfers
(the user starts no more), `MCSshSession_heard` (the same, and a lost mutex stops
everybody), `MCSpiBus_handshake`, where the picker deadlock and power off are ends of
behaviours, and the runs whose bounds on commands or on time are: `MCParts_safety`,
`MCRadios_recover`, `Bluetooth_scan`. The violated runs are real
disagreements between the code and what its comments or README say; `findings`
quotes both.

### Fairness

- `SpiBus!FairSpec`: the display and every task past its first step keep running
  (weak fairness; two cores and a preemptive scheduler); a task that waits for
  `state_mutex` with `portMAX_DELAY` gets it (strong fairness; FreeRTOS queues
  waiters by priority and loop() sleeps between key events). Nothing obliges the
  user: no fairness on key events, commands or BOOT.
- `Upload!FairSpec`, `Download!FairSpec`: the task and the host's script run. Links
  may fail for ever; no fairness on failures, or on the user starting a transfer.
  A lost link is noticed (libssh's and the shell's reads end).

- `SshSession!FairSpec`: every task keeps running; one that waits for a mutex, or tries
  it again after a delay, gets it when it is free again and again (strong fairness); a
  broken session is read as closed some time; the terminal is shown, so that loop()
  gets to its five-second check between two keys. Failures are bounded, not fair.

- `Modem!FairSpec`: the worker and the tasks of the commands run, and loop() polls.

- `Bluetooth!FairSpec`: the tasks and the BLE task run, a scan has a duration. loop()
  comes to both polls in every pass, whatever happens between two passes (strong
  fairness); the peer and the user owe nothing.

- `Wifi!FairSpec`: the tasks run (a join ends by its timeout), and loop() comes to its
  five-second check again and again between commands (strong fairness). Nothing
  obliges a network to answer.

- `Shortcut!FairSpec`: only the shortcut's own task is obliged to go on (its waits poll
  a clock); a transfer may hang and the user owes nothing.

### What a lost session may not survive

`SshSession` shows two ways in which the terminal stays dead, and states
`Reconnects` apart from them. `LockLost`: `vTaskDelete` on the receive task while it
owns `ssh_io_mutex` or `state_mutex` (a transfer started while output arrives,
`dc`, a reconnect); keys are then dropped after their timeouts, and a connection
attempt waits for `state_mutex` for ever. `HalfFreed`: an `sshDisconnect` of
another task that clears `ssh_connected` before the connect task sets it, and frees
the channel after, leaves it TRUE without a channel, and nobody connects again.
Transfers end in both cases, with an error.

### How text can be lost

`Editor` follows one passage. `NoTextLost` is stated apart from `atRisk`, whose
causes are these; dropping any one of them makes the run fail.

- `autoSaveDirty` does not look at what `saveToFile` returned, and the buffer is
  replaced (`main.cpp:1834-1838`); `saveToFile` does not look at what was written, and
  a full card leaves a part (`main.cpp:1812`).
- A file that cannot be read, on the card or on the mount, is taken for a new one,
  and the next save overwrites it (`cli_module.hpp:2269,2285`); what is beyond
  `MAX_TEXT_LEN` is not loaded and is cut by the next save (`main.cpp:1824`).
- `mount` and `umount` keep the buffer's name: from there it stands for the file
  of that name on the card (`cli_module.hpp:2329,2345`).
- A buffer that was never named is saved over an existing `/UNSAVED`
  (`main.cpp:1845`).
- Keys pressed while a shortcut's command is between its save and its load are
  cleared with the flag, or replaced (`main.cpp:1808-1815`).

### Reading the SpiBus liveness properties

The picker's deadlock is a state from which nothing moves, so liveness is stated
"unless `Deadlocked`"; `NeverBlocksOnDisplay` is the run that shows it reached.
`ChangeIsDrawn` follows a ghost `stale`: TRUE since a visible change, FALSE at a
snapshot. The redraw after a mode switch clears the request flags after it has
drawn, which loses a request made meanwhile; the ghost gives the change up there
(`DClear`), unless its task is still about to set the flag. Everywhere else a
change must reach the panel. Requests are made by one task at a time; with a second
task assigning `app_mode` without the mutex a request can be lost when the mode goes
away and back faster than displayTask looks, so `ModeTasks` is `{loop}`.

## Proofs

Checked by `tlapm`, for every value of the constants under the named assumptions, which
are also the assumptions TLC evaluates. In each proof the property itself is not
inductive; the list says what had to be added and why.

**SpiBus** (`SpiBusProofs`: `Typing`, `Interference`, `EntersBetweenRefreshes`; from the
three assumptions of `SpiBus`). `BusyBudget`: during a busy period a display that
has passed its check has drawn nothing yet, so the refresh it is committed to is the only
one. `IdleFlagHonest`: `display_idle` is FALSE exactly from `DMark` to `DDone`.

**Terminal** (`TerminalProofs`: `Typing`, `AddressesSafe`, `CursorShown`, `MainKept`, `OverflowLeaves`; from
`GeometryAssumption`, `ParamAssumption`: a screen of at least two rows in a buffer at least
as high, parameters that are ints). All but `MainKept` under `ParamsFit`: no parameter overflows int when it is
added to a cursor. The condition is needed: `OverflowLeaves` proves that a CSI B, C or E whose sum
overflows (`main.cpp:661-675`, which do not test it) leaves the buffer. `MainCounted`: the line count saved with the main screen is at least one, without
which leaving the alternate screen would break the view. Lemma `Jump` covers the movements
that end a wrap.

**CsiParser** (`CsiParserProofs`: `Typing`; `Parsed` if no chunk ends inside a string
that is skipped by looking ahead; from `ParserAssumption` and `BytesAssumption`: digits are
decimal, and no control byte is also a printable one). `Parsed` is the refinement of `VtStream`,
byte by byte: each action of the parser is the step `Stream!Byte` takes in the mode the
code's flags stand for (`ModeNow`, `ArgsNow`). `Typing` says that every write of a parameter is inside
`csi_params`, although the count goes on, and that values stay ints by wrapping. It needs `OneOpen` (a character, a sequence
and a look-ahead are never open together) and `RoomForOpen` (a number being read has
a slot, and the slots after it are 0, so that a digit or a `;` finds 0 there).

**TermRows** (`ScreenProofs`: `ScreenTyping`, `ScrollbackKept`, `EditsAreScrolls`,
`OutsideUntouched`; from `RowsAssumption`). `Scrollback` is not inductive: what the alternate
screen saved must be the log too, and below the log the buffer must be blank, or a line
feed would uncover old text (`LinesKept`, `Shows`). CSI S, T, L and M scroll by recursion in their
reference; `UpByIs` and `DownByIs` prove that n single scrolls move the rows by n, and the
edits are compared with that, for counts that `Fits`.

**TermCells** (`ScreenProofs`: `ScreenTyping`, `ReadsBack`, `EditsAreScrolls`; from
`ScreenAssumption`: at least one row, column and tab stop). Cells are numbered across rows.
`WrapAtEnd`: a wrap is pending at the end of a row only. `Follows`: wherever the next
character goes, also after the buffer scrolled, the cells before it hold what the cells
before the last one held; the rest is division with remainder (`Division`, `RowOf`,
`RowUp`). `Closing` and `Opening` compare CSI P and CSI @ with cutting the row and joining
three pieces (`Joined`).

**SshSession** (`SshSessionProofs`: `Typing`, `AlwaysHeard`; from `SessionAssumption`, the
four kinds of task being disjoint). `Heard` says who will start the receive task of a
connected shell that has none (`Owes`); it needs `Spare` (the bounded pool has room when no
receive task is known) and `PausedRetries` (a transfer that paused the task and is back at
the wait is at its second attempt, so giving up leads it to the resume). Which mutex is lost
plays no part: safety holds in those states too.

**Upload** (`UploadProofs`: `Invariance`, `NeverTorn`; `DoneMirrors` if `Fits`).
`Stream`: there is a state of the stream for every message in flight, the first being where
the script is and the last where the device is. What the script holds of a file is then the
beginning of one version, or of a file saved meanwhile (`mixed`). `Walk`, `Sending`:
the device is inside the list it announces and sends only to a script that reads. That
suffices for `NoTornFile`. `DoneMeansMirrored` needs the hypothesis `Fits` (the card's files
fit `MAX_FILE_LIST`: those beyond it are deleted on the host) and `Manifest` (the names told
and in flight are those the walk passed), `Delivered`, and `Heard` (OK is read only after
the prune). It says nothing of an upload that is `blind` or `astray`; the steps of a script that is
astray are in `Next`, and `Stream` and the manifest are claimed only of one that is not. The proof found an error of an earlier version of the model: with the link
gone, the script printed OK before it failed.

**Download** (`UploadProofs`: `DownloadInvariance`; `DownloadMirroring`, `PrunesExtra` if `NamesFit`).
`InFlight`: headers in flight name files of the host, DONE comes last. `NoneForgotten`:
while DONE may still come, every file of the host is noted, in flight or to be sent.
`Noted`: a good transfer's notes are on the card. `PrunesExtra` is about the prune step. `NamesFit` says that names fit the 64-byte
buffer; with a longer one the property is false (below).

**Shortcut** (`UploadProofs`: `ShortcutInvariance`). Unless two starts overlapped (`raced`),
what a starter has tested still holds at its next step, since nobody else sets a flag; each
flag is up exactly if a transfer of its kind runs or is being started.

**Transfers** (`UploadProofs`: `TransfersTyping`, `TransfersNeverTorn`, `TransfersMirror`,
`TransfersPrune`, `TransfersFlags`, `TransfersWait`): the same as theorems of the composition,
the mirror and the prune under `Fits` and `NamesFit`. `TransfersPrune` and `TransfersWait` are
action properties.

**Modem, WiFi, Bluetooth** (`RadioProofs`: `ModemInvariance`, `WifiInvariance`,
`BtInvariance`, `RadiosTyping`, `RadiosModem`, `RadiosFlags`). Modem: handle and job say
where the worker is (`JobIsWorker`), a state in between is left before the worker goes
(`Settled`), what needs the supply has it (`Powered`), and what a command has tested still holds at its
next step, for it is alone past its tests (until `overlap`). WiFi: a task that joins has a network
left to try (also with `APs` = 0, since the picker's network need not be one that /CONFIG
knows: the proof found `Tries` too small there), and one task joins unless another was beside it. Bluetooth: a test and the
step that relies on it are next to each other in `todo` (`TodoInOrder`, `TestsHold`), the stack
is up when the flag says so or a failed btInit left it up (`StackKnown`: `stack.up` if and only if `initialized` or `stranded`), peer and scan are as the last callback on its way
says, or else as the flags say (`PeerKnown`, `ScanKnown`); `AirKnown` for advertising.

**Editor** (`PartsProofs`: `Invariance`, `PartsTextKept`, `PartsUnmodifiedStored`; from
`EditorAssumption`). `NoTextLost` does not survive a save over the passage; `TargetSafe` says
that neither the place the buffer is saved to nor the one it came from (`home`) holds the passage
beside a buffer without it. `KeptBeforeReplaced`: a buffer about to be replaced is stored.
`JobHonest`: what the server answered is what it has, for the file the command names.

**CmdHistory, SeenPackets** (`PartsHistory`, `PartsCache`). The reference of the history is a
recursive function of all lines entered. The invariant says that there is a sequence of
results, one for each line (`KeptBy`), of which the ring holds the last; the function is
proved to be that sequence. `HeardOnce`: a packet is in one slot at most. The slot written
is free, or is one of the oldest of a full cache (`WriteSlot`).

**CmdPicker** (`PartsPicker`). `Marked`: the marked row shows the selected entry; `Entered`:
an Enter under way has taken the entry of the row it was pressed at. Both unless a task wrote
over the lists or rows since the picker was drawn (`disturbed`). Typing needs the lemmas on
`FileRefs` and `Found`: what they return are entries of the list, and no more than
`MAX_FILE_LIST`.

**GnssClock** (`PartsClock`). Time and date heard are those of two seconds r <= q <= now
(`HeardSeconds`), so what they combine to is never ahead. `Fresh`, `Synced`, `Exact`: after
a second heard whole they are of this second, a synchronisation came within the interval, and
the clock is right but for one taken at midnight. `Probing`: no more time was lost at a wrong
speed than a probe for each; a receiver that is on sends the bytes a probe waits for (`EnoughBytes`,
`PROBE_BYTES` at most one sentence a second). All for any lengths of day, interval and probe.

**MeshRadio** (`MeshInvariance`, `PartsMesh`). While tasks use the radio one
at a time, what a task has still to do is the rest of what its command began, and supply,
mode, length, buffer and interrupt flags of the chip are where that rest expects them
(`Doing`, one clause for each kind of command); after a command that failed or a send that timed out (`deaf`) it need not
be in reception. The proof found CASEs of the model whose
arms could hold together (`After`, `Fault`); they are IFs now, in the order of the code.

**Parts** (`PartsTyping`, with those above): the same as theorems of the composition.

What a recursive function computes is proved where it was needed (`Distinct`, `Found`,
`FileRefs`, the rounds of a loop over a list) without the library's induction: a set of
naturals without a least counterexample is empty (`Least`, `LeastNat`, `NatSetInduction`,
which have a set, not an operator, as parameter).

Only model-checked: the liveness properties, and `ENABLED` in their fairness. Every invariant
and every action property of a passing run is a theorem, `DoneIsMirrored` and
`PrunesExtrasOnly` under `Fits` and `NamesFit`, those of `Terminal` but `MainScreenKept` under
`ParamsFit`, `StreamParsed` for `CutStrings` FALSE. What the
violated runs refute is shown by their traces.

## What the models leave out

- What is drawn, wording, timing in milliseconds, battery and touch requests.
- Keyboard and touch: key maps and modifiers are tables; key events are in SpiBus, touch
  scrolling in Terminal. Power off and the serial agent (debug builds only) are straight
  sequences of calls. The VPN is one optional attempt inside `sshConnect`; WireGuard, the
  panel driver and the build scripts are vendored or host tooling.
- `SpiBus` starts after setup(), with displayTask about to draw the notepad.
  `powerOff` is one step: it draws with `display_idle` TRUE and never returns.
- `Terminal` takes the CSI parameters from `Params`; after a cursor has left the buffer
  (`OverflowLeaves`) nothing is claimed. `TermRows` and `TermCells` have the edits whose sum
  with the cursor fits an int, and a restart for the others. `CsiParser` bounds the separators
  of a sequence (`MaxSeparators`, more than the array has room for); that `csi_param_count`
  itself passes the range of int takes 2^31 of them and is left out, as is what a private `h`
  or `l` reads past the array (`Foreign`: any operation).
- `SshSession`: the handshake, host key, authentication, PTY and VPN fallback are steps
  that succeed or fail; a freed session is "not live" for whoever uses it next (the
  code would use freed memory); `vTaskDelete` and clearing the handle are one step;
  `paste` and a shortcut's remote step, which does not pause the receive task again after
  its reconnect, are left out. When the bounded pool of connect (receive) tasks is
  used up, a further one is not started.
- `Editor`: two file commands at the same moment, a reset during a save, transfers that
  rewrite files behind the buffer, the cursor, and the keys `MAX_TEXT_LEN` refuses.
- `CmdPicker`: a listing fills `file_list` in one step, a scan's end draws its picker in
  one; sizes, signal strengths and what connecting does are left out. `CmdHistory`: a
  line is typed as a whole.
- `Upload` and `Download` give every file the same number of blocks, of which a read may
  return fewer (`SendShort`); after that the host's script is followed with the outcomes its
  lines can have, not byte by byte; the script of an
  earlier upload is assumed to have ended when the next one starts; names fit the
  64-byte buffer in the run (`Short` says what a longer name becomes). The shell
  scripts are modelled from their text in the source. `Relist` is in the relist run
  only: with it `DoneMeansMirrored` fails, and the other properties are asked of a walk
  nobody disturbs. A transfer that reconnects and starts over is in `SshSession` only. The runs keep `MAX_FILE_LIST` at the number of files.
- `Modem`: what AT answers say, and the samples of a scan; a behaviour is followed until
  two commands are past their tests at a time. `Bluetooth`: HID reports,
  bonding, battery; a peer does not come and go between two statements of
  `btStartAdvertising`. `Wifi`: the VPN, what a scan finds (CmdPicker), the passwords in
  /CONFIG. `MeshRadio`: encoding, encryption, and `meshtasticConfigureChannel`, which
  runs only in setup(); a chip without its supply answers nothing. `GnssClock`: position,
  speed and the time zone; one sentence of each kind in a second.

## Where the code departs from its comments, besides the findings

These are encoded in the models as the code has them:

- `?1049h` shares its cursor slot with ESC 7 and CSI s, so a program that saves a
  cursor on the alternate screen decides where `?1049l` leaves it (`main.cpp:603,629`).
- ESC 8 on the alternate screen can restore a row below the visible rows, where line
  feeds do nothing (`main.cpp:834`).
- CSI L above the scroll region shifts rows outside it (`main.cpp:756`); CSI M with a
  count beyond the rows left blanks rows above the cursor (`main.cpp:774`).
  `InsertScrollsDown` and `DeleteScrollsUp` are stated where these do not bite.
- An OSC string cut by the end of a chunk is printed and executed from there on
  (`main.cpp:906`), although `main.cpp:903` says "skip until ST (ESC \ or BEL)":
  `StreamParsed` is stated for `CutStrings` FALSE and fails for TRUE.
- The byte after `ESC (` is skipped only when it is in the same chunk (`main.cpp:955`).
- `sdRelease` of one task clears the `sd_busy` another still relies on (`main.cpp:1090`).
- Files beyond `MAX_FILE_LIST` are not uploaded and are deleted on the host as extras. A
  root that cannot be listed counts as empty, and the host is emptied and "Upload done"
  shown (`cli_module.hpp:740`), beside "Mirror SD root" (`src/README.md:157`);
  `DoneMeansMirrored` excludes an upload whose listing failed or ended early (`blind`).
- A file that is read shorter than the size sent ahead of it puts the host's script out of
  step (`cli_module.hpp:478-498`): `dd` takes the next header for its data, and "done"
  may be shown without a mirror (`astray`).
- A count of CSI B, C or E whose sum with the cursor overflows int leaves the buffer
  (`main.cpp:661-675`; theorem `OverflowLeaves`); one of CSI P, @, X, L or M copies outside it
  (`main.cpp:735-771`). `ParamsFit` and `Fits` exclude them.
- `csi_param_count` grows with every `;` past `MAX_CSI_PARAMS` (`main.cpp:975-983`), and
  a private `h` or `l` then reads past the array (`main.cpp:601,626`).
- A btInit that fails after `BLEDevice::init` leaves the stack up with the setting cleared,
  and `bt` off skips the deinit (`bluetooth_module.hpp:332-393,435,472`): ghost `stranded`.
- The modem's commands test and act in separate steps without a lock
  (`modem_module.hpp:304-311,403-417,425-442`): of two that are past their tests at a time
  one may cut the supply under the other's worker, or both start one (`overlap`).
- displayTask does not read `sd_busy` again after it decided to draw
  (`screen_module.hpp:477,490`), so one refresh can overlap a card user although
  `src/README.md:255` speaks of a shared bus; `InterferenceBounded` says how far it goes.
- A shortcut's `wait upload` passes when the upload failed, and the steps after it run;
  `cmd upload` goes on when the upload was refused; both beside "stop on first
  failure" (`src/README.md:196`). The flags of transfers are tested and set without a
  lock (`cli_module.hpp:917,923`): `FlagsHonest` and `WaitedIsOver` hold while loop()
  and the shortcut do not start transfers at the same moment (ghost `raced`).
- A file saved while it is being uploaded arrives as a mixture of versions
  (`cli_module.hpp:478`): ghost `mixed`.
- Enter on a blank line leaves the history where it was browsed to
  (`main.cpp:1422`): the next arrow goes on from there.
- The end of a scan opens its picker over another one (`cli_module.hpp:258`), and the
  result of a command or a poll replaces the rows of a picker that still takes keys.
- A name of 64 bytes or more is downloaded under a cut name (`cli_module.hpp:635`).
- `msh` with a radio that does not start cuts its supply and leaves `MSH_STATE_ERROR`,
  which `meshtasticIsPowered` counts as powered: "MSH on" is shown
  (`meshtastic_module.hpp:1217`, `cli_module.hpp:2510`).
- A mesh radio whose send timed out, or that was given a command it did not take, is not
  put into reception again (`meshtastic_module.hpp:1032-1058`): ghost `deaf`.
- A command that is refused the modem's worker, because the last one has cleared
  `modem_job` but not yet its handle, leaves `BOOTING` for ever or throws an earlier
  scan's result away (`modem_module.hpp:304`); the event of a power-on nobody waited for
  is taken for the next one (`ModemHonest`: `refused`, `stale`, `overlap`).
- After midnight a GGA is combined with the date of the last RMC, and the clock is a day
  behind until the next synchronisation (`gnss_module.hpp:215`). Lost sentences alone
  make the probe leave the right speed, and it does not come back (`gnss_module.hpp:68`).

### What happens when two tasks use a radio

The properties of `MeshRadio`, `Bluetooth` and `Wifi` that speak of a radio at rest, and those of
`Modem`, are
stated for behaviours in which no two tasks were inside it at once (ghosts `overlap`,
`raced`, `beside`; for the modem, two commands past their tests), because with two of them they fail: a poll and a shortcut's `mss tx`
mix their lengths and buffers, a `bt` in the middle of a scan's start switches off what
the scan just marked, a join beside `wfi` leaves IDLE with a link, an `mdm` between the tests and the worker of
a shortcut's `mds` cuts the supply of its scan. `Bluetooth` and `Modem` are
followed up to the first overlap; the others go on, and what they still promise then is
in their properties (`LostLinkNoticed`, the types).

## Plan

1. Modelled: SpiBus, Terminal, TermRows, TermCells, CsiParser over VtStream, SshSession,
   Shortcut, Editor, CmdPicker, CmdHistory, Upload, Download, Modem, Bluetooth, Wifi,
   MeshRadio, SeenPackets, GnssClock; `file_list` shared between uploadTask and the
   prompt.
2. Proved: the safety properties of all of them.
3. To prove: that each handler of `Terminal` moves the cursor as its namesake of `TermRows`
   does (a refinement of the rows by the geometry); the safety part of recovery, e.g.
   that while a scan of the modem is unanswered its worker has it.
4. Left of the model: a shortcut's remote step with its reconnect, on top of SshSession;
   `powerOff` as steps of SpiBus (`screen_module.hpp:481`).
