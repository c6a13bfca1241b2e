----------------------------- MODULE Transfers -----------------------------
(***************************************************************************)
(* The two transfers and the starting of them.  Upload and Download each   *)
(* have their own card, host and connection, and Shortcut sees of a        *)
(* transfer only when it begins and ends: a behaviour follows one of the   *)
(* three.                                                                  *)
(***************************************************************************)
EXTENDS Upload

CONSTANTS
  Short,               \* the name a file gets in a char[64] of the download
  DownFaults,          \* what can happen to a download: link, host, card
  MaxDownloads,        \* bound: downloads in a behaviour
  DownWireCap,         \* bound: messages of a download in flight
  Transfers,           \* bound: transfer tasks alive at a time
  None,
  SHORTCUT_MAX_STEPS,
  MaxCommands          \* bound: commands typed

VARIABLES
  part,
  down_remote, down_script, queue, down_link, down_wire, down_eof, down_sd, down_manifest,
  down_pc, down_cur, good, down_result, downloads,
  running, transfer, starter_pc, asked, shortcut_running, steps, step, raced, commands

Down == INSTANCE Download WITH
  Faults <- DownFaults, WireCap <- DownWireCap,
  remote <- down_remote, script <- down_script, link <- down_link, wire <- down_wire,
  eof <- down_eof, sd <- down_sd, manifest <- down_manifest, pc <- down_pc, cur <- down_cur,
  result <- down_result
Shortcut == INSTANCE Shortcut WITH pc <- starter_pc, i <- step

ASSUME TransfersAssumption == Down!DownloadAssumption /\ Shortcut!ShortcutAssumption

down == <<down_remote, down_script, queue, down_link, down_wire, down_eof, down_sd, down_manifest,
          down_pc, down_cur, good, down_result, downloads>>
starts == <<running, transfer, starter_pc, asked, shortcut_running, steps, step, raced, commands>>
transfers == <<part, vars, down, starts>>

TransfersInit ==
  part \in {"upload", "download", "shortcut"} /\ Init /\ Down!Init /\ Shortcut!Init

InUpload == UNCHANGED <<part, down, starts>>
InDownload == UNCHANGED <<part, vars, starts>>
InShortcut == UNCHANGED <<part, vars, down>>

TransfersNext ==
  \/ part = "upload" /\ Next /\ InUpload
  \/ part = "download" /\ Down!Next /\ InDownload
  \/ part = "shortcut" /\ Shortcut!Next /\ InShortcut

\* The tasks run on the device, the scripts on the host.
TransfersFairness ==
  /\ WF_transfers(part = "upload" /\ Task /\ InUpload)
  /\ WF_transfers(part = "upload" /\ Script /\ InUpload)
  /\ WF_transfers(part = "download" /\ Down!Task /\ InDownload)
  /\ WF_transfers(part = "download" /\ Down!Script /\ InDownload)
  /\ WF_transfers(part = "shortcut" /\ Shortcut!shortcutTask /\ InShortcut)

TransfersSpec == TransfersInit /\ [][TransfersNext]_transfers /\ TransfersFairness

\* The type of the one that is followed.
TransfersTypeOK ==
  CASE part = "upload" -> TypeOK
    [] part = "download" -> Down!TypeOK
    [] part = "shortcut" -> Shortcut!TypeOK

\* "Upload done" and "Download done" are shown only when the two sides agree, but for
\* what Upload's DoneMeansMirrored leaves out.
DoneIsMirrored == DoneMeansMirrored /\ Down!DoneMeansMirrored

\* The prune step of a download removes no file the host has.
PrunesExtrasOnly == Down!PrunesExtrasOnly

\* The flags of the transfers are what runs.
FlagsHonest == Shortcut!FlagsHonest

\* A wait step that passes finds the transfer over.
WaitedIsOver == Shortcut!WaitedIsOver

\* What was begun ends: an upload, a download, a shortcut.  A behaviour has one of
\* them, so this is UploadEnds, DownloadEnds and ShortcutEnds.
UnderWay == pc # "idle" \/ down_pc # "idle" \/ shortcut_running
TransfersEnd == UnderWay ~> ~UnderWay
=============================================================================
