------------------------------ MODULE CmdPicker ------------------------------
(***************************************************************************)
(* The pickers of the command prompt: a file, a network or a mount is      *)
(* chosen from a list by its position.  The lists are shared: loop(), the  *)
(* commands of a shortcut and uploadTask fill the same arrays, a network   *)
(* scan that ends takes the picker over, and every command writes its      *)
(* result over the rows the picker shows.                                  *)
(***************************************************************************)
EXTENDS Integers, SequencesExt

CONSTANTS
  Files, Dirs,       \* names on the card
  Listings,          \* bound: what a listing of the card or of a mount can be
  Networks, Remotes, \* names of networks and of mounts
  MAX_FILE_LIST, WIFI_SCAN_PICKER_MAX, MAX_MOUNT_LIST, CMD_RESULT_LINES,
  None

PickerAssumption ==
  /\ {MAX_FILE_LIST, WIFI_SCAN_PICKER_MAX, MAX_MOUNT_LIST} \subseteq Nat \ {0}
  /\ \A list \in Listings : list \in Seq(Files \cup Dirs) /\ Len(list) <= MAX_FILE_LIST
  /\ CMD_RESULT_LINES \in Nat /\ CMD_RESULT_LINES >= 2
  /\ None \notin Files \cup Dirs \cup Networks \cup Remotes

VARIABLES
  prompt,               \* app_mode = MODE_COMMAND
  file_list, wifi_scan_picker, mount_list,
  active_mount, wifi_scan_pending,
  cmd_picker_mode, cmd_picker_indices, cmd_picker_selected, cmd_picker_top,
  marked,               \* cmd_result: the name in the row that begins with '>'
  job,                  \* per task: where its command is, what its listing counted
  opened,               \* where Enter is: the row it was pressed at, what came of it
  disturbed             \* ghost: a list or the rows were written over by a task since
                        \* the picker was drawn

lists == <<file_list, wifi_scan_picker, mount_list>>
picker == <<cmd_picker_mode, cmd_picker_indices, cmd_picker_selected, cmd_picker_top>>
vars == <<prompt, lists, active_mount, wifi_scan_pending, picker, marked, job, opened, disturbed>>

Tasks == {"loop", "shortcut"}
Modes == {"edit", "wifi", "mount"}
Items == Files \cup Dirs \cup Networks \cup Remotes
Idle == [at |-> "idle", n |-> 0]
Closed == [at |-> "closed", row |-> None, ref |-> 0, loaded |-> None, named |-> None]

cmd_picker_count == Len(cmd_picker_indices)
mountActive == active_mount # None
cmdPickerIsActive == cmd_picker_mode # "none" /\ cmd_picker_count > 0
cmdPickerVisibleRows == CMD_RESULT_LINES - 1
ListOf(mode) == CASE mode = "edit" -> file_list [] mode = "wifi" -> wifi_scan_picker
                  [] mode = "mount" -> mount_list [] OTHER -> << >>
NameAt(list, ref) == IF ref <= Len(list) THEN list[ref] ELSE None

TypeOK ==
  /\ prompt \in BOOLEAN /\ disturbed \in BOOLEAN /\ wifi_scan_pending \in BOOLEAN
  /\ file_list \in Seq(Files \cup Dirs) /\ Len(file_list) <= MAX_FILE_LIST
  /\ wifi_scan_picker \in BoundedSeq(Networks, WIFI_SCAN_PICKER_MAX)
  /\ IsInjective(wifi_scan_picker)
  /\ mount_list \in BoundedSeq(Remotes, MAX_MOUNT_LIST)
  /\ active_mount \in Remotes \cup {None}
  /\ cmd_picker_mode \in Modes \cup {"none"}
  /\ cmd_picker_indices \in Seq(Nat \ {0})
  /\ cmd_picker_selected \in Nat /\ cmd_picker_top \in 0 .. cmd_picker_selected
  /\ marked \in Items \cup {None}
  /\ job \in [Tasks -> [at : {"idle", "listed", "fetched", "indexed"}, n : 0 .. MAX_FILE_LIST]]
  /\ opened \in [at : {"closed", "chosen", "loaded", "done"}, ref : Nat,
                 row : Items \cup {None}, loaded : Items \cup {None}, named : Items \cup {None}]

Init ==
  /\ prompt = TRUE
  /\ file_list = << >> /\ wifi_scan_picker = << >> /\ mount_list = << >>
  /\ active_mount = None /\ wifi_scan_pending = FALSE
  /\ cmd_picker_mode = "none" /\ cmd_picker_indices = << >>
  /\ cmd_picker_selected = 0 /\ cmd_picker_top = 0
  /\ marked = None /\ disturbed = FALSE
  /\ job = [t \in Tasks |-> Idle] /\ opened = Closed

-----------------------------------------------------------------------------
(* The picker's own functions.                                             *)

cmdPickerStop ==
  /\ cmd_picker_mode' = "none" /\ cmd_picker_indices' = << >>
  /\ cmd_picker_selected' = 0 /\ cmd_picker_top' = 0

\* cmdSetResult, cmdAddLine of whatever is not the picker.
Result == marked' = None /\ disturbed' = TRUE

\* Mutant: the view moves one row late.
ViewportLate(count, selected, top) ==
  LET rows == cmdPickerVisibleRows
      near == IF selected < top THEN selected
              ELSE IF selected > top + rows THEN selected - rows + 1 ELSE top
      last == IF count > rows THEN count - rows ELSE 0
  IN IF near > last THEN last ELSE near

\* cmdPickerSyncViewport.
Viewport(count, selected, top) ==
  LET rows == cmdPickerVisibleRows
      near == IF selected < top THEN selected
              ELSE IF selected >= top + rows THEN selected - rows + 1 ELSE top
      last == IF count > rows THEN count - rows ELSE 0
  IN IF near > last THEN last ELSE near

\* cmdPickerRender of list, with the row selected: what is drawn is what is there
\* now, except for an Enter that is under way.
Show(mode, list, indices, selected, top) ==
  LET view == Viewport(Len(indices), selected, top) IN
    /\ cmd_picker_mode' = mode /\ cmd_picker_indices' = indices
    /\ cmd_picker_selected' = selected /\ cmd_picker_top' = view
    /\ marked' = IF /\ indices # << >>
                    /\ selected \in view .. view + cmdPickerVisibleRows - 1
                 THEN NameAt(list, indices[selected + 1]) ELSE None
    /\ disturbed' = (disturbed /\ opened.at # "closed")

-----------------------------------------------------------------------------
(* Keys and touches in an open picker; loop() is not in a command.         *)

LoopFree == job["loop"] = Idle /\ opened = Closed
Picking == prompt /\ LoopFree /\ cmdPickerIsActive

cmdPickerMoveSelection(delta) ==
  /\ Picking
  /\ LET wanted == cmd_picker_selected + delta
         next == IF wanted < 0 THEN 0
                 ELSE IF wanted >= cmd_picker_count THEN cmd_picker_count - 1 ELSE wanted
     IN /\ next # cmd_picker_selected
        /\ Show(cmd_picker_mode, ListOf(cmd_picker_mode), cmd_picker_indices, next, cmd_picker_top)
  /\ UNCHANGED <<prompt, lists, active_mount, wifi_scan_pending, job, opened>>

cmdPickerPage(direction) == cmdPickerMoveSelection(direction * cmdPickerVisibleRows)

cmdPickerCancel ==
  /\ Picking
  /\ cmdPickerStop /\ Result
  /\ UNCHANGED <<prompt, lists, active_mount, wifi_scan_pending, job, opened>>

\* MIC leaves the prompt.
Leave ==
  /\ prompt /\ LoopFree
  /\ prompt' = FALSE
  /\ IF cmdPickerIsActive THEN cmdPickerStop ELSE UNCHANGED picker
  /\ UNCHANGED <<lists, active_mount, wifi_scan_pending, marked, job, opened, disturbed>>

\* A tap of MIC opens it.
OpenPrompt ==
  /\ ~prompt /\ LoopFree
  /\ prompt' = TRUE
  /\ cmdPickerStop /\ Result
  /\ UNCHANGED <<lists, active_mount, wifi_scan_pending, job, opened>>

\* Mutant: the row is taken for the place in the list.
EnterEditByRow ==
  /\ Picking /\ cmd_picker_mode = "edit" /\ cmd_picker_selected < cmd_picker_count
  /\ opened' = [Closed EXCEPT !.at = "chosen", !.row = marked, !.ref = cmd_picker_selected + 1]
  /\ UNCHANGED <<prompt, lists, active_mount, wifi_scan_pending, picker, marked, job, disturbed>>

\* Enter.  In the edit picker the entry is remembered by its place in file_list, and
\* read after the automatic save; the other two read it at once.
EnterEdit ==
  /\ Picking /\ cmd_picker_mode = "edit" /\ cmd_picker_selected < cmd_picker_count
  /\ opened' = [Closed EXCEPT !.at = "chosen", !.row = marked,
                              !.ref = cmd_picker_indices[cmd_picker_selected + 1]]
  /\ UNCHANGED <<prompt, lists, active_mount, wifi_scan_pending, picker, marked, job, disturbed>>

EnterOther ==
  /\ Picking /\ cmd_picker_mode # "edit" /\ cmd_picker_selected < cmd_picker_count
  /\ LET list == ListOf(cmd_picker_mode)
         ref == cmd_picker_indices[cmd_picker_selected + 1] IN
       /\ ref <= Len(list)
       /\ opened' = [at |-> "done", row |-> marked, ref |-> ref,
                     loaded |-> list[ref], named |-> list[ref]]
       /\ active_mount' = IF cmd_picker_mode = "mount" THEN list[ref] ELSE active_mount
  /\ cmdPickerStop
  /\ marked' = None
  /\ UNCHANGED <<prompt, lists, wifi_scan_pending, job, disturbed>>

\* loadFromFile, loadRemoteFile.
Load ==
  /\ opened.at = "chosen"
  /\ opened' = [opened EXCEPT !.at = "loaded", !.loaded = NameAt(file_list, opened.ref)]
  /\ UNCHANGED <<prompt, lists, active_mount, wifi_scan_pending, picker, marked, job, disturbed>>

\* The file is there, and the buffer gets its name: from the path made for it, or from
\* the entry again when the file is remote.
Name ==
  /\ opened.at = "loaded"
  /\ \E named \in {opened.loaded, NameAt(file_list, opened.ref)} :
       opened' = [opened EXCEPT !.at = "done", !.named = named]
  /\ cmdPickerStop /\ marked' = None
  /\ prompt' = FALSE
  /\ UNCHANGED <<lists, active_mount, wifi_scan_pending, job, disturbed>>

\* Or it could not be read.
LoadFails ==
  /\ opened.at = "loaded"
  /\ opened' = Closed
  /\ cmdPickerStop /\ Result
  /\ UNCHANGED <<prompt, lists, active_mount, wifi_scan_pending, job>>

\* loop() goes on.
Done ==
  /\ opened.at = "done" /\ opened' = Closed
  /\ UNCHANGED <<prompt, lists, active_mount, wifi_scan_pending, picker, marked, job, disturbed>>

-----------------------------------------------------------------------------
(* Commands, of loop() at the prompt and of a shortcut.                    *)

Commanding(t) == IF t = "loop" THEN prompt /\ LoopFree /\ ~cmdPickerIsActive ELSE job[t] = Idle
Goto(t, at, n) == job' = [job EXCEPT ![t] = [at |-> at, n |-> n]]

\* listDirectory and listRemoteFiles fill file_list from the front; what a longer list
\* left behind it stays there.
Listing(new) == file_list' = new \o SubSeq(file_list, Len(new) + 1, Len(file_list))
Remote(new) == mountActive => ToSet(new) \cap Dirs = {}

\* cmdEditPickerStart: the list, the files in it, the picker.
EditList(t) ==
  /\ Commanding(t)
  /\ \E new \in Listings :
       Remote(new) /\ Listing(new) /\ Goto(t, "listed", Len(new))
  /\ disturbed' = TRUE
  /\ UNCHANGED <<prompt, wifi_scan_picker, mount_list, active_mount, wifi_scan_pending, picker,
                 marked, opened>>

\* The card, or the service, cannot be read.
EditListFails(t) ==
  /\ Commanding(t)
  /\ cmdPickerStop /\ Result
  /\ UNCHANGED <<prompt, lists, active_mount, wifi_scan_pending, job, opened>>

\* The places of the files among the first n entries.
FileRefs(n) ==
  LET refs[i \in 0 .. n] ==
        IF i = 0 THEN << >>
        ELSE IF file_list[i] \notin Dirs THEN Append(refs[i - 1], i) ELSE refs[i - 1]
  IN  refs[n]

EditIndex(t) ==
  /\ job[t].at = "listed"
  /\ LET refs == FileRefs(job[t].n) IN
       IF refs = << >> THEN cmdPickerStop /\ Result /\ Goto(t, "idle", 0)
       ELSE /\ cmd_picker_indices' = refs /\ Goto(t, "indexed", 0)
            /\ disturbed' = TRUE
            /\ UNCHANGED <<cmd_picker_mode, cmd_picker_selected, cmd_picker_top, marked>>
  /\ UNCHANGED <<prompt, lists, active_mount, wifi_scan_pending, opened>>

EditStart(t) ==
  /\ job[t].at = "indexed"
  /\ Show("edit", file_list, cmd_picker_indices, 0, 0)
  /\ Goto(t, "idle", 0)
  /\ UNCHANGED <<prompt, lists, active_mount, wifi_scan_pending, opened>>

\* The edit command with a name; a shortcut's opens the notepad over the prompt.
EditNamed(t) ==
  /\ Commanding(t)
  /\ cmdPickerStop /\ Result
  /\ prompt' = FALSE
  /\ UNCHANGED <<lists, active_mount, wifi_scan_pending, job, opened>>

\* The ls command, and uploadTask's listing, which says nothing.
List(t) ==
  /\ Commanding(t)
  /\ \E new \in Listings : Remote(new) /\ Listing(new)
  /\ Result
  /\ UNCHANGED <<prompt, wifi_scan_picker, mount_list, active_mount, wifi_scan_pending, picker,
                 job, opened>>
UploadList ==
  /\ \E new \in Listings : Listing(new)
  /\ disturbed' = TRUE
  /\ UNCHANGED <<prompt, wifi_scan_picker, mount_list, active_mount, wifi_scan_pending, picker,
                 marked, job, opened>>

\* Other commands and polls, and failing ones, only write their result.
OtherResult ==
  /\ Result
  /\ UNCHANGED <<prompt, lists, active_mount, wifi_scan_pending, picker, job, opened>>

\* The mount command: fetchMountList, then the picker; or with a name; and umount.
MountFetch(t) ==
  /\ Commanding(t)
  /\ \E new \in BoundedSeq(Remotes, MAX_MOUNT_LIST) :
       /\ IsInjective(new) /\ mount_list' = new
       /\ IF new = << >> THEN UNCHANGED job /\ Result
          ELSE Goto(t, "fetched", 0) /\ disturbed' = TRUE /\ UNCHANGED marked
  /\ UNCHANGED <<prompt, file_list, wifi_scan_picker, active_mount, wifi_scan_pending, picker,
                 opened>>

MountStart(t) ==
  /\ job[t].at = "fetched"
  /\ Show("mount", mount_list, [i \in 1 .. Len(mount_list) |-> i], 0, 0)
  /\ Goto(t, "idle", 0)
  /\ UNCHANGED <<prompt, lists, active_mount, wifi_scan_pending, opened>>

MountNamed(t, m) ==
  /\ Commanding(t)
  /\ active_mount' = m
  /\ Result
  /\ UNCHANGED <<prompt, lists, wifi_scan_pending, picker, job, opened>>

\* The ws command; the scan may fail to start.
wifiScanCommand(t) ==
  /\ Commanding(t) /\ ~wifi_scan_pending
  /\ cmdPickerStop /\ Result
  /\ wifi_scan_picker' = << >>
  /\ wifi_scan_pending' \in BOOLEAN
  /\ UNCHANGED <<prompt, file_list, mount_list, active_mount, job, opened>>

\* Mutant: a network heard twice is listed twice.
AddResultTwice(list, ssid) ==
  IF Len(list) < WIFI_SCAN_PICKER_MAX THEN Append(list, ssid) ELSE list

\* cmdWifiPickerAddResult: a network heard twice is listed once.
AddResult(list, ssid) ==
  IF ssid \notin ToSet(list) /\ Len(list) < WIFI_SCAN_PICKER_MAX THEN Append(list, ssid)
  ELSE list

\* The networks of a scan, one after another.
Found(heard) ==
  LET list[i \in 0 .. Len(heard)] ==
        IF i = 0 THEN << >> ELSE AddResult(list[i - 1], heard[i])
  IN  list[Len(heard)]

\* wifiScanPoll in loop(): the scan has ended, and its picker opens, whatever else is
\* open and whatever is on the screen; the scan heard nothing, or it failed.
finishWifiScanCommand ==
  /\ wifi_scan_pending /\ LoopFree
  /\ wifi_scan_pending' = FALSE
  /\ \E heard \in BoundedSeq(Networks, WIFI_SCAN_PICKER_MAX + 1) :
       LET found == Found(heard) IN
         /\ wifi_scan_picker' = found
         /\ IF found # << >>
            THEN Show("wifi", found, [i \in 1 .. Len(found) |-> i], 0, 0)
            ELSE Result /\ (cmdPickerStop \/ UNCHANGED picker)
  /\ UNCHANGED <<prompt, file_list, mount_list, active_mount, job, opened>>

-----------------------------------------------------------------------------
Next ==
  \/ EnterEdit \/ EnterOther \/ Load \/ Name \/ LoadFails \/ Done
  \/ cmdPickerCancel \/ Leave \/ OpenPrompt \/ UploadList \/ OtherResult \/ finishWifiScanCommand
  \/ \E delta \in {-1, 1} : cmdPickerMoveSelection(delta) \/ cmdPickerPage(delta)
  \/ \E t \in Tasks :
       \/ EditList(t) \/ EditListFails(t) \/ EditIndex(t) \/ EditStart(t) \/ EditNamed(t)
       \/ List(t) \/ MountFetch(t) \/ MountStart(t) \/ wifiScanCommand(t)
       \/ \E m \in Remotes \cup {None} : MountNamed(t, m)

Spec == Init /\ [][Next]_vars

-----------------------------------------------------------------------------
(* Properties.                                                             *)

\* Enter opens, connects to or mounts the name in the marked row, and the buffer gets
\* that name: the row is in view, and position and name agree through directories
\* left out, scrolling and paging, also when a scan's picker took over.  The exception
\* is a list or a result written by another task after the picker was drawn.
OpensWhatIsShown ==
  opened.at = "done" /\ ~disturbed => opened.loaded = opened.row /\ opened.named = opened.row

=============================================================================
