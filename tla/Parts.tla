------------------------------- MODULE Parts -------------------------------
(***************************************************************************)
(* The parts of which only safety is claimed and that share no state: the  *)
(* notepad, the picker and the history of the command prompt, the mesh     *)
(* radio, its memory of packets, and the GPS receiver with the clock.  A   *)
(* behaviour follows one of them.                                          *)
(***************************************************************************)
EXTENDS Editor

CONSTANTS
  \* CmdPicker
  Files, Dirs, Listings, Networks, Remotes,
  MAX_FILE_LIST, WIFI_SCAN_PICKER_MAX, MAX_MOUNT_LIST, CMD_RESULT_LINES,
  \* CmdHistory
  Commands, Blanks, Empty, CMD_HISTORY_CAP, MaxEntered,
  \* MeshRadio
  Commanders, MaxCommands, MaxFaults, MaxPackets,
  \* SeenPackets
  Packets, MSH_DUP_CACHE_SIZE, MSH_DUP_MAX_AGE, MaxCacheTime,
  \* GnssClock
  Bursts, DAY, INTERVAL, PROBE, PROBE_BYTES, Bauds, RightBaud, MaxTime, MaxLost, MaxUser

VARIABLES
  part,
  prompt, file_list, wifi_scan_picker, mount_list, picker_mount, wifi_scan_pending,
  cmd_picker_mode, cmd_picker_indices, cmd_picker_selected, cmd_picker_top, marked, picker_job,
  opened, disturbed,
  cmd_buf, cmd_history, cmd_history_nav, cmd_history_draft, in_prompt, entered,
  msh_state, msh_radio_ready, meshtastic_scan_pending, chip, todo, op, seen, told, aired,
  deaf, overlap, mesh_bounds,
  cache_now, msh_seen_packets, heard,
  burst, now, left, fix, power_on, gnss_rmc_fix, gnss_gga_fix, utc_time, utc_date,
  time_sync_source, time_sync_last_gnss_try, error, gnss_baud_index, gnss_baud_set,
  gnss_seen_valid_sentence, clean, powered_at, missed, gnss_bounds

Picker == INSTANCE CmdPicker WITH active_mount <- picker_mount, job <- picker_job
History == INSTANCE CmdHistory
Mesh == INSTANCE MeshRadio WITH bounds <- mesh_bounds
Cache == INSTANCE SeenPackets WITH MaxTime <- MaxCacheTime, now <- cache_now
Gnss == INSTANCE GnssClock WITH bounds <- gnss_bounds

ASSUME PartsAssumption ==
  /\ EditorAssumption /\ Picker!PickerAssumption /\ History!HistoryAssumption
  /\ Mesh!MeshAssumption /\ Cache!CacheAssumption /\ Gnss!GnssAssumption

notepad == vars
picker == <<prompt, file_list, wifi_scan_picker, mount_list, picker_mount, wifi_scan_pending,
            cmd_picker_mode, cmd_picker_indices, cmd_picker_selected, cmd_picker_top, marked,
            picker_job, opened, disturbed>>
line == <<cmd_buf, cmd_history, cmd_history_nav, cmd_history_draft, in_prompt, entered>>
mesh == <<msh_state, msh_radio_ready, meshtastic_scan_pending, chip, todo, op, seen, told,
          aired, deaf, overlap, mesh_bounds>>
cache == <<cache_now, msh_seen_packets, heard>>
gnss == <<burst, now, left, fix, power_on, gnss_rmc_fix, gnss_gga_fix, utc_time, utc_date,
          time_sync_source, time_sync_last_gnss_try, error, gnss_baud_index, gnss_baud_set,
          gnss_seen_valid_sentence, clean, powered_at, missed, gnss_bounds>>
parts == <<part, notepad, picker, line, mesh, cache, gnss>>

PartsInit ==
  /\ part \in {"notepad", "picker", "history", "mesh", "cache", "gnss"}
  /\ Init /\ Picker!Init /\ History!Init /\ Mesh!Init /\ Cache!Init /\ Gnss!Init

PartsNext ==
  /\ UNCHANGED part
  /\ \/ part = "notepad" /\ Next /\ UNCHANGED <<picker, line, mesh, cache, gnss>>
     \/ part = "picker" /\ Picker!Next /\ UNCHANGED <<notepad, line, mesh, cache, gnss>>
     \/ part = "history" /\ History!Next /\ UNCHANGED <<notepad, picker, mesh, cache, gnss>>
     \/ part = "mesh" /\ Mesh!Next /\ UNCHANGED <<notepad, picker, line, cache, gnss>>
     \/ part = "cache" /\ Cache!Next /\ UNCHANGED <<notepad, picker, line, mesh, gnss>>
     \/ part = "gnss" /\ Gnss!Next /\ UNCHANGED <<notepad, picker, line, mesh, cache>>

PartsSpec == PartsInit /\ [][PartsNext]_parts

\* The type of the part that is followed.
PartsTypeOK ==
  CASE part = "notepad" -> TypeOK
    [] part = "picker" -> Picker!TypeOK
    [] part = "history" -> History!TypeOK
    [] part = "mesh" -> Mesh!TypeOK
    [] part = "cache" -> Cache!TypeOK
    [] part = "gnss" -> Gnss!TypeOK

\* Enter acts on the name in the marked row.
OpensWhatIsShown == Picker!OpensWhatIsShown

\* The history holds the most recent commands in their order.
HistoryIsRecent == History!HistoryIsRecent

\* The mesh radio listens again after what went well, and "tx ok" is true.
MeshHonest == Mesh!ListensAgain /\ Mesh!OkMeansSent

\* The memory of packets keeps those heard last.
CacheIsRecent == Cache!CacheIsRecent

\* The clock follows the receiver, whose speed is found.
ClockFollows == Gnss!ClockFollows /\ Gnss!SpeedFound
=============================================================================
