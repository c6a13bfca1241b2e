------------------------------ MODULE Download ------------------------------
(***************************************************************************)
(* `download`: a script on the host streams the files of ~/tdeck over an   *)
(* SSH exec channel, downloadTask writes them over those of the SD root,   *)
(* notes each complete one in a manifest on the card and, when the whole   *)
(* stream was good, prunes what the manifest does not name.                *)
(***************************************************************************)
EXTENDS Integers, SequencesExt

CONSTANTS
  Files,          \* file names, in ~/tdeck and on the SD root
  Safe,           \* those isSafeTransferName accepts
  Short,          \* the name a file gets in a char[64]: itself, if it fits
  Absent,
  Blocks,         \* TRANSFER_CHUNK_SIZE blocks of every file
  Faults,         \* what can happen meanwhile: link, host, card
  MaxDownloads,   \* bound: downloads in a behaviour
  WireCap         \* bound: messages in flight (the channel's window)

DownloadAssumption ==
  /\ IsFiniteSet(Files) /\ Files # {}
  /\ Safe \subseteq Files /\ Short \in [Files -> Files]
  /\ \A f \in Safe : Short[f] \in Safe
  /\ Blocks \in Nat /\ Faults \subseteq {"link", "host", "card"}
  /\ MaxDownloads \in Nat /\ WireCap \in Nat \ {0}

VARIABLES
  remote,          \* the names in ~/tdeck when the script lists it
  script, queue,   \* the script: where it is, the files still to send
  link, wire, eof, \* script -> device
  sd,              \* the SD root: blocks of each file, or Absent
  manifest,        \* names in the manifest file on the card
  pc, cur, good,   \* downloadTask: where it is, its file, file_ok
  result,          \* what the command line shows: none, done, failed
  downloads        \* ghost: downloads started

host == <<remote, script, queue>>
task == <<cur, good, result, downloads>>
vars == <<host, link, wire, eof, sd, manifest, pc, task>>

\* A block of a file; "old" is the content of an earlier version of it.
New(f) == [b \in 1 .. Blocks |-> f]
Old == <<"old">>

TypeOK ==
  /\ remote \subseteq Files /\ queue \in Seq(Files)
  /\ script \in {"none", "file", "body", "sep", "done", "ended", "failed"}
  /\ link \in BOOLEAN /\ eof \in BOOLEAN /\ Len(wire) <= WireCap
  /\ sd \in [Files -> Seq(Files) \cup {Absent, Old}]
  /\ manifest \subseteq Safe
  /\ pc \in {"idle", "line", "open", "body", "sep", "note", "close", "prune", "clean"}
  /\ cur \in Files /\ good \in BOOLEAN
  /\ result \in {"none", "done", "failed"} /\ downloads \in 0 .. MaxDownloads

Init ==
  /\ remote = {} /\ script = "none" /\ queue = << >>
  /\ link = FALSE /\ wire = << >> /\ eof = FALSE
  /\ sd \in [Files -> {Absent, Old}] /\ manifest = {}
  /\ pc = "idle" /\ cur = (CHOOSE f \in Files : TRUE) /\ good = TRUE
  /\ result = "none" /\ downloads = 0

-----------------------------------------------------------------------------
(* REMOTE_DOWNLOAD_STREAM_CMD.                                             *)

Send(message) == link /\ Len(wire) < WireCap /\ wire' = Append(wire, message)

SendHeader ==
  /\ script = "file" /\ queue # << >>
  /\ Send([type |-> "FILE", file |-> Head(queue)])
  /\ script' = "body"
  /\ UNCHANGED <<remote, queue, link, eof, sd, manifest, pc, task>>

\* cat, one block of the announced size at a time, then the separator.
SendBlocks ==
  /\ script = "body"
  /\ Send([type |-> "data", count |-> Blocks])
  /\ script' = "sep"
  /\ UNCHANGED <<remote, queue, link, eof, sd, manifest, pc, task>>

SendSeparator ==
  /\ script = "sep"
  /\ Send([type |-> "sep"])
  /\ script' = "file" /\ queue' = Tail(queue)
  /\ UNCHANGED <<remote, link, eof, sd, manifest, pc, task>>

SendDone ==
  /\ script = "file" /\ queue = << >>
  /\ Send([type |-> "DONE"])
  /\ script' = "ended" /\ eof' = TRUE
  /\ UNCHANGED <<remote, queue, link, sd, manifest, pc, task>>

\* A file cannot be read (set -e), or the channel is gone.
ScriptFails ==
  /\ script \in {"file", "body", "sep"} /\ ("host" \in Faults \/ ~link)
  /\ script' = "failed" /\ eof' = TRUE
  /\ UNCHANGED <<remote, queue, link, wire, sd, manifest, pc, task>>

-----------------------------------------------------------------------------
(* downloadTask.                                                           *)

\* Mutant: the manifest of an earlier download is appended to.
BeginKeepsManifest ==
  /\ pc = "idle" /\ downloads < MaxDownloads /\ script \in {"none", "ended", "failed"}
  /\ remote' \in SUBSET Files /\ queue' \in SetToSeqs(remote')
  /\ script' = "file" /\ link' = TRUE /\ wire' = << >> /\ eof' = FALSE
  /\ pc' = "line" /\ good' = TRUE /\ result' = "none" /\ downloads' = downloads + 1
  /\ UNCHANGED <<sd, cur, manifest>>

\* resetDownloadManifest, then the exec request: the script lists ~/tdeck.
Begin ==
  /\ pc = "idle" /\ downloads < MaxDownloads /\ script \in {"none", "ended", "failed"}
  /\ manifest' = {}
  /\ remote' \in SUBSET Files /\ queue' \in SetToSeqs(remote')
  /\ script' = "file" /\ link' = TRUE /\ wire' = << >> /\ eof' = FALSE
  /\ pc' = "line" /\ good' = TRUE /\ result' = "none" /\ downloads' = downloads + 1
  /\ UNCHANGED <<sd, cur>>

\* No connection, no manifest file ("Download prep failed"), or no channel.
StartFails ==
  /\ pc = "idle" /\ downloads < MaxDownloads /\ Faults # {}
  /\ manifest' \in {manifest, {}}
  /\ result' = "failed" /\ downloads' = downloads + 1
  /\ UNCHANGED <<host, link, wire, eof, sd, pc, cur, good>>

Receive(type) == wire # << >> /\ Head(wire).type = type /\ wire' = Tail(wire)
Broken == wire = << >> /\ (eof \/ ~link)

\* Mutant: the name in the header is not checked.
ReadHeaderAnyName ==
  /\ pc = "line" /\ good
  /\ Receive("FILE")
  /\ cur' = Short[Head(wire).file] /\ pc' = "open"
  /\ UNCHANGED <<host, link, eof, sd, manifest, good, result, downloads>>

\* parseDownloadHeader.
ReadHeader ==
  /\ pc = "line" /\ good
  /\ Receive("FILE")
  /\ IF Head(wire).file \in Safe
     THEN cur' = Short[Head(wire).file] /\ pc' = "open" /\ UNCHANGED good
     ELSE good' = FALSE /\ pc' = "close" /\ UNCHANGED cur
  /\ UNCHANGED <<host, link, eof, sd, manifest, result, downloads>>

ReadDone ==
  /\ pc = "line" /\ good
  /\ Receive("DONE")
  /\ pc' = "close"
  /\ UNCHANGED <<host, link, eof, sd, manifest, task>>

\* Mutant: only a missing header is noticed.
ReadFailsAtLine ==
  /\ pc = "line" /\ Broken
  /\ pc' = "close" /\ good' = FALSE
  /\ UNCHANGED <<host, link, wire, eof, sd, manifest, cur, result, downloads>>

\* sshReadLine or sshReadExact fails.
ReadFails ==
  /\ pc \in {"line", "body", "sep"} /\ Broken
  /\ pc' = "close" /\ good' = FALSE
  /\ UNCHANGED <<host, link, wire, eof, sd, manifest, cur, result, downloads>>

\* The old file is removed before the new one is written.
OpenFile ==
  /\ pc = "open"
  /\ \/ sd' = [sd EXCEPT ![cur] = << >>] /\ UNCHANGED good
     \/ "card" \in Faults /\ sd' = [sd EXCEPT ![cur] = Absent] /\ good' = FALSE
  /\ pc' = "body"
  /\ UNCHANGED <<host, link, wire, eof, manifest, cur, result, downloads>>

\* A failed write is remembered, the rest of the stream is still read.
ReadBlocks ==
  /\ pc = "body"
  /\ Receive("data")
  /\ \/ good /\ sd' = [sd EXCEPT ![cur] = [b \in 1 .. Head(wire).count |-> cur]] /\ UNCHANGED good
     \/ "card" \in Faults /\ good' = FALSE /\ UNCHANGED sd
     \/ ~good /\ UNCHANGED <<good, sd>>
  /\ pc' = "sep"
  /\ UNCHANGED <<host, link, eof, manifest, cur, result, downloads>>

ReadSeparator ==
  /\ pc = "sep"
  /\ Receive("sep")
  /\ pc' = IF good THEN "note" ELSE "close"
  /\ UNCHANGED <<host, link, eof, sd, manifest, task>>

\* appendDownloadManifestName.
Note ==
  /\ pc = "note"
  /\ \/ manifest' = manifest \cup {cur} /\ pc' = "line" /\ UNCHANGED good
     \/ "card" \in Faults /\ pc' = "close" /\ good' = FALSE /\ UNCHANGED manifest
  /\ UNCHANGED <<host, link, wire, eof, sd, cur, result, downloads>>

\* Mutant: the card is pruned whatever became of the stream.
CloseAlwaysPrunes ==
  /\ pc = "close"
  /\ pc' = "prune"
  /\ UNCHANGED <<host, link, wire, eof, sd, manifest, cur, good, result, downloads>>

\* sshCloseExecChannel; the exit status may not have arrived.
Close ==
  /\ pc = "close"
  /\ \/ good /\ script = "ended" /\ pc' = "prune" /\ UNCHANGED <<good>>
     \/ pc' = "clean" /\ good' = FALSE
  /\ UNCHANGED <<host, link, wire, eof, sd, manifest, cur, result, downloads>>

Extra == {f \in Safe : sd[f] # Absent /\ f \notin manifest}

\* pruneLocalFilesAgainstManifest, one SD.remove at a time.
Prune ==
  /\ pc = "prune"
  /\ \/ \E f \in Extra : sd' = [sd EXCEPT ![f] = Absent] /\ UNCHANGED <<pc, good>>
     \/ "card" \in Faults /\ pc' = "clean" /\ good' = FALSE /\ UNCHANGED sd
     \/ Extra = {} /\ pc' = "clean" /\ UNCHANGED <<good, sd>>
  /\ UNCHANGED <<host, link, wire, eof, manifest, cur, result, downloads>>

\* cleanupDownloadManifest and the result line; its SD.remove may fail.
Clean ==
  /\ pc = "clean"
  /\ manifest' \in {{}} \cup (IF "card" \in Faults THEN {manifest} ELSE {})
  /\ pc' = "idle" /\ result' = IF good THEN "done" ELSE "failed"
  /\ UNCHANGED <<host, link, wire, eof, sd, cur, good, downloads>>

-----------------------------------------------------------------------------
Cut == \E k \in 0 .. Len(wire) : wire' = SubSeq(wire, 1, k)

LinkLost ==
  /\ "link" \in Faults /\ pc # "idle" /\ link
  /\ Cut /\ link' = FALSE
  /\ UNCHANGED <<host, eof, sd, manifest, pc, task>>

\* Power loss: the card keeps what is on it, the manifest included.
Reset ==
  /\ "link" \in Faults /\ pc # "idle"
  /\ wire' = << >> /\ link' = FALSE /\ pc' = "idle" /\ result' = "none"
  /\ UNCHANGED <<host, eof, sd, manifest, cur, good, downloads>>

Script == SendHeader \/ SendBlocks \/ SendSeparator \/ SendDone \/ ScriptFails
Task == \/ ReadHeader \/ ReadDone \/ ReadFails \/ OpenFile \/ ReadBlocks \/ ReadSeparator
        \/ Note \/ Close \/ Prune \/ Clean

Next == Begin \/ StartFails \/ Script \/ Task \/ LinkLost \/ Reset

Spec == Init /\ [][Next]_vars

\* Both programs run; nothing makes the user start another download.
FairSpec == Spec /\ WF_vars(Script) /\ WF_vars(Task)

-----------------------------------------------------------------------------
(* Properties.                                                             *)

\* The prune of a download removes no file that the host has, whatever breaks (unlike
\* the other direction, Upload!ExtrasOnly).  It is about the prune alone: a file that
\* is opened to be written on a card that fails is lost.
PrunesExtrasOnly ==
  [][pc = "prune" => \A f \in Safe : sd[f] # Absent /\ sd'[f] = Absent => f \notin remote]_vars

\* README: "Mirror ~/tdeck to SD root (overwrite + delete extras on SD)":
\* "Download done" is shown only when the safe-named files of the card are
\* exactly those of the host, complete.
DoneMeansMirrored ==
  pc = "idle" /\ result = "done" =>
    \A f \in Safe : sd[f] = IF f \in remote THEN New(f) ELSE Absent

\* download_running is cleared: the task always ends.
DownloadEnds == (pc # "idle") ~> (pc = "idle")

=============================================================================
