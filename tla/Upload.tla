------------------------------- MODULE Upload -------------------------------
(***************************************************************************)
(* `upload`: uploadTask streams the files of the SD root over an SSH exec  *)
(* channel to a shell script on the host, which writes each into           *)
(* ~/tdeck and then prunes what it was not sent.  The device and the       *)
(* script are two processes joined by a FIFO; either side can fail.        *)
(***************************************************************************)
EXTENDS Integers, SequencesExt

CONSTANTS
  Files,          \* file names, on the SD root and in ~/tdeck
  Safe,           \* those isSafeTransferName accepts
  Absent,
  Blocks,         \* TRANSFER_CHUNK_SIZE blocks of every file
  MAX_FILE_LIST,
  Faults,         \* what can happen meanwhile: link, open (SD.open or a read), list, disk,
                  \* save, overwrite
  MaxVersion,     \* bound: how often files are saved or created
  MaxUploads,     \* bound: uploads in a behaviour
  WireCap         \* bound: messages in flight (the channel's window)

ASSUME UploadAssumption ==
  /\ IsFiniteSet(Files) /\ Files # {} /\ Safe \subseteq Files
  /\ Absent \notin Nat \cup Seq(Nat)
  /\ Blocks \in Nat /\ MAX_FILE_LIST \in Nat \ {0}
  /\ Faults \subseteq {"link", "open", "list", "disk", "save", "overwrite"}
  /\ MaxVersion \in Nat \ {0} /\ MaxUploads \in Nat /\ WireCap \in Nat \ {0}

VARIABLES
  sd,          \* the SD root: the version of each file, or Absent
  listed,      \* ghost: the card when this upload listed it
  blind,       \* ghost: the listing failed, at once or at some entry
  file_list,   \* names, in directory order
  pc, i, sent, \* uploadTask: where it is, the file index, blocks of it sent
  result,      \* what the command line shows: none, done, failed
  uploads,     \* ghost: uploads started
  mixed,       \* ghost: the files ever saved while uploadTask was reading them, and
               \* every file once one was astray
  astray,      \* ghost: a file of this upload was shorter than the size sent ahead of
               \* it, and the script takes what follows for its data
  link,        \* the connection is up
  wire, eof,   \* device -> script, and that nothing more will come
  host,        \* ~/tdeck: the blocks of each file, or Absent
  script, cur, tmp, manifest  \* the script: where it is, and its files

device == <<file_list, pc, i, sent, result, uploads>>
remote == <<host, script, cur, tmp, manifest>>
card == <<sd, listed, blind, mixed, astray>>
vars == <<card, device, link, wire, eof, remote>>

Version == 1 .. MaxVersion
Junk == 0  \* in place of a block: lines of the stream
Whole(v) == [b \in 1 .. Blocks |-> v]
Messages == [type : {"FILE"}, file : Safe] \cup [type : {"data"}, version : Version]
            \cup [type : {"sep", "DONE"}]

TypeOK ==
  /\ sd \in [Files -> Version \cup {Absent}] /\ listed \in [Files -> Version \cup {Absent}]
  /\ blind \in BOOLEAN /\ mixed \subseteq Files /\ astray \in BOOLEAN
  /\ file_list \in Seq(Files) /\ Len(file_list) <= MAX_FILE_LIST
  /\ pc \in {"idle", "file", "body", "reply"} /\ i \in 1 .. MAX_FILE_LIST + 1
  /\ sent \in 0 .. Blocks
  /\ result \in {"none", "done", "failed"} /\ uploads \in 0 .. MaxUploads
  /\ wire \in Seq(Messages) /\ Len(wire) <= WireCap
  /\ link \in BOOLEAN /\ eof \in BOOLEAN
  /\ host \in [Files -> Seq(Version \cup {Junk}) \cup {Absent}]
  /\ script \in {"none", "header", "body", "sep", "prune", "ok", "failed"}
  /\ cur \in Files /\ tmp \in Seq(Version \cup {Junk}) /\ manifest \subseteq Safe

Init ==
  /\ sd \in [Files -> {1, Absent}] /\ listed = sd /\ blind = FALSE /\ mixed = {} /\ astray = FALSE
  /\ file_list = << >> /\ pc = "idle" /\ i = 1 /\ sent = 0
  /\ result = "none" /\ uploads = 0
  /\ link = FALSE /\ wire = << >> /\ eof = FALSE
  /\ host \in [Files -> {Whole(1), Absent}]
  /\ script = "none" /\ cur = (CHOOSE f \in Files : TRUE) /\ tmp = << >> /\ manifest = {}

-----------------------------------------------------------------------------
(* The device.                                                             *)

\* The first MAX_FILE_LIST entries of the directory, in any order.
OnCard == {f \in Files : sd[f] # Absent}
Room == LET count == Cardinality(OnCard) IN IF count > MAX_FILE_LIST THEN MAX_FILE_LIST ELSE count
Entries(n) == {s \in [1 .. n -> OnCard] : IsInjective(s)}
Listings == Entries(Room)

\* uploadTask up to the exec request.  listDirectory returning -1 is a list of no
\* files, and an entry that cannot be read is the end of the directory.
Begin ==
  /\ pc = "idle" /\ uploads < MaxUploads
  /\ script \in {"none", "ok", "failed"}
  /\ \/ file_list' \in Listings /\ blind' = FALSE
     \/ /\ "list" \in Faults /\ blind' = TRUE
        /\ \E n \in 0 .. MAX_FILE_LIST : n < Room /\ file_list' \in Entries(n)
  /\ listed' = sd /\ astray' = FALSE
  /\ pc' = "file" /\ i' = 1 /\ sent' = 0 /\ result' = "none" /\ uploads' = uploads + 1
  /\ link' = TRUE /\ wire' = << >> /\ eof' = FALSE
  /\ script' = "header" /\ tmp' = << >> /\ manifest' = {}
  /\ UNCHANGED <<sd, mixed, host, cur>>

\* No connection within TRANSFER_SSH_WAIT_MS, or no exec channel, also not
\* after one reconnect.
StartFails ==
  /\ pc = "idle" /\ "link" \in Faults /\ uploads < MaxUploads
  /\ result' = "failed" /\ uploads' = uploads + 1
  /\ UNCHANGED <<card, file_list, pc, i, sent, link, wire, eof, remote>>

\* sshWriteAll: blocks on a full window, fails when the channel is gone.
ChannelOpen == link /\ script \notin {"ok", "failed"}
Write(message) == ChannelOpen /\ Len(wire) < WireCap /\ wire' = Append(wire, message)

File == file_list[i]
Skip ==
  /\ pc = "file" /\ i <= Len(file_list) /\ File \notin Safe
  /\ i' = i + 1
  /\ UNCHANGED <<card, file_list, pc, sent, result, uploads, link, wire, eof, remote>>

\* Mutant: a listed name is sent without isSafeTransferName.
SendHeaderAnyName ==
  /\ pc = "file" /\ i <= Len(file_list)
  /\ sd[File] # Absent
  /\ Write([type |-> "FILE", file |-> File])
  /\ pc' = "body" /\ sent' = 0
  /\ UNCHANGED <<card, file_list, i, result, uploads, link, eof, remote>>

SendHeader ==
  /\ pc = "file" /\ i <= Len(file_list) /\ File \in Safe
  /\ sd[File] # Absent
  /\ Write([type |-> "FILE", file |-> File])
  /\ pc' = "body" /\ sent' = 0
  /\ UNCHANGED <<card, file_list, i, result, uploads, link, eof, remote>>

SendBlock ==
  /\ pc = "body" /\ sent < Blocks
  /\ Write([type |-> "data", version |-> sd[File]])
  /\ sent' = sent + 1
  /\ UNCHANGED <<card, file_list, pc, i, result, uploads, link, eof, remote>>

SendSeparator ==
  /\ pc = "body" /\ sent = Blocks
  /\ Write([type |-> "sep"])
  /\ pc' = "file" /\ i' = i + 1
  /\ UNCHANGED <<card, file_list, sent, result, uploads, link, eof, remote>>

\* f.read returns 0 before the size that was sent is reached.
SendShort ==
  /\ pc = "body" /\ sent < Blocks
  /\ "open" \in Faults \/ File \in mixed
  /\ Write([type |-> "sep"])
  /\ pc' = "file" /\ i' = i + 1
  /\ astray' = TRUE /\ mixed' = Files
  /\ UNCHANGED <<sd, listed, blind, file_list, sent, result, uploads, link, eof, remote>>

SendDone ==
  /\ pc = "file" /\ i > Len(file_list)
  /\ Write([type |-> "DONE"])
  /\ eof' = TRUE
  /\ pc' = "reply"
  /\ UNCHANGED <<card, file_list, i, sent, result, uploads, link, remote>>

\* SD.open fails, a read fails, or the channel does: stream_ok = false.
StreamFails ==
  /\ \/ pc = "file" /\ i <= Len(file_list) /\ File \in Safe
        /\ (sd[File] = Absent \/ "open" \in Faults)
     \/ pc = "body" /\ "open" \in Faults
     \/ pc \in {"file", "body"} /\ ~ChannelOpen
  /\ eof' = TRUE
  /\ pc' = "idle" /\ result' = "failed"
  /\ UNCHANGED <<card, file_list, i, sent, uploads, link, wire, remote>>

\* Mutant: only a reply ends the wait, not the end of the channel.
ReplyIgnoresExit ==
  /\ pc = "reply" /\ script = "ok"
  /\ pc' = "idle" /\ result' = "done"
  /\ UNCHANGED <<card, file_list, i, sent, uploads, link, wire, eof, remote>>

\* Mutant: a reply is a success whatever the exit status.
ReplyAlwaysDone ==
  /\ pc = "reply" /\ script \in {"ok", "failed"}
  /\ pc' = "idle" /\ result' = "done"
  /\ UNCHANGED <<card, file_list, i, sent, uploads, link, wire, eof, remote>>

\* The exit status may not have arrived when the channel is closed.
Reply ==
  /\ pc = "reply" /\ (script \in {"ok", "failed"} \/ ~link)
  /\ pc' = "idle"
  /\ result' \in IF script = "ok" THEN {"done", "failed"} ELSE {"failed"}
  /\ UNCHANGED <<card, file_list, i, sent, uploads, link, wire, eof, remote>>

-----------------------------------------------------------------------------
(* REMOTE_UPLOAD_STREAM_CMD.                                               *)

Receive(type) == wire # << >> /\ Head(wire).type = type /\ wire' = Tail(wire)
Ended == wire = << >> /\ eof

ReadHeader ==
  /\ script = "header"
  /\ Receive("FILE")
  /\ cur' = Head(wire).file /\ manifest' = manifest \cup {cur'} /\ tmp' = << >>
  /\ script' = IF Blocks = 0 THEN "sep" ELSE "body"
  /\ UNCHANGED <<card, device, link, eof, host>>

\* DONE ends the loop, and so does the end of the input.
EndHeaders ==
  /\ script = "header"
  /\ Receive("DONE") \/ (Ended /\ UNCHANGED wire)
  /\ script' = "prune"
  /\ UNCHANGED <<card, device, link, eof, host, cur, tmp, manifest>>

\* dd stops after the announced length.
ReadBlock ==
  /\ script = "body"
  /\ Receive("data")
  /\ tmp' = Append(tmp, Head(wire).version)
  /\ script' = IF Len(tmp') = Blocks THEN "sep" ELSE "body"
  /\ UNCHANGED <<card, device, link, eof, host, cur, manifest>>

\* Mutant: a short dd is not noticed, the temporary file is moved anyway.
MoveUnchecked ==
  /\ script = "sep"
  /\ Receive("sep") \/ (Ended /\ UNCHANGED wire)
  /\ host' = [host EXCEPT ![cur] = tmp] /\ script' = "header"
  /\ UNCHANGED <<card, device, link, eof, cur, tmp, manifest>>

\* The file appears under its name only after its separator was read.
Move ==
  /\ script = "sep"
  /\ Receive("sep")
  /\ host' = [host EXCEPT ![cur] = tmp] /\ script' = "header"
  /\ UNCHANGED <<card, device, link, eof, cur, tmp, manifest>>

\* dd succeeds on a short input; the missing separator is exit 35.
ShortBody ==
  /\ script = "body" /\ Ended
  /\ script' = "sep"
  /\ UNCHANGED <<card, device, link, wire, eof, host, cur, tmp, manifest>>

NoSeparator ==
  /\ script = "sep" /\ Ended
  /\ script' = "failed"
  /\ UNCHANGED <<card, device, link, wire, eof, host, cur, tmp, manifest>>

\* After a short file, dd takes the lines that follow for its data.  It may stop
\* inside one, and the rest of that is the separator.
DataAstray ==
  /\ astray /\ script = "body" /\ wire # << >>
  /\ \/ wire' = Tail(wire) /\ script' \in {"body", "sep"}
     \/ script' = "sep" /\ UNCHANGED wire
  /\ tmp' = <<Junk>>
  /\ UNCHANGED <<card, device, link, eof, host, cur, manifest>>

\* Any line will do as a separator, and a block may be less than a line.
SeparatorAstray ==
  /\ astray /\ script = "sep" /\ wire # << >>
  /\ wire' = Tail(wire)
  /\ \/ host' = [host EXCEPT ![cur] = tmp] /\ script' = "header"
     \/ Head(wire).type = "data" /\ UNCHANGED <<host, script>>
  /\ UNCHANGED <<card, device, link, eof, cur, tmp, manifest>>

\* A line of a file is not a header (exit 31) unless it reads like one.
HeaderAstray ==
  /\ astray /\ script = "header" /\ wire # << >> /\ Head(wire).type \in {"sep", "data"}
  /\ wire' = Tail(wire)
  /\ \/ script' = "failed" /\ UNCHANGED <<cur, manifest, tmp>>
     \/ Head(wire).type = "data" /\ script' = "prune" /\ UNCHANGED <<cur, manifest, tmp>>
     \/ /\ Head(wire).type = "data"
        /\ cur' \in Safe /\ manifest' = manifest \cup {cur'} /\ tmp' = << >>
        /\ script' = "body"
  /\ UNCHANGED <<card, device, link, eof, host>>

Extra == {f \in Files : host[f] # Absent /\ f \notin manifest}

Prune ==
  /\ script = "prune"
  /\ \E f \in Extra : host' = [host EXCEPT ![f] = Absent]
  /\ UNCHANGED <<card, device, link, wire, eof, script, cur, tmp, manifest>>

\* Nobody hears it on a connection that is gone.
PrintOk ==
  /\ script = "prune" /\ Extra = {}
  /\ script' = IF link THEN "ok" ELSE "failed"
  /\ UNCHANGED <<card, device, link, wire, eof, host, cur, tmp, manifest>>

\* The disk is full, a name cannot be moved or removed: exit 34, 36, 37, 38.
HostFails ==
  /\ "disk" \in Faults /\ script \in {"header", "body", "sep", "prune"}
  /\ script' = "failed"
  /\ UNCHANGED <<card, device, link, wire, eof, host, cur, tmp, manifest>>

-----------------------------------------------------------------------------
(* What else happens.                                                      *)

\* The connection breaks: what was in flight may be lost, from some point on.
LinkLost ==
  /\ "link" \in Faults /\ pc # "idle" /\ link
  /\ \E k \in 0 .. Len(wire) : wire' = SubSeq(wire, 1, k)
  /\ link' = FALSE /\ eof' = TRUE
  /\ UNCHANGED <<card, device, remote>>

\* The device loses power or resets: uploadTask is gone, and so is its channel.
Reset ==
  /\ "link" \in Faults /\ pc # "idle"
  /\ \E k \in 0 .. Len(wire) : wire' = SubSeq(wire, 1, k)
  /\ link' = FALSE /\ eof' = TRUE /\ pc' = "idle" /\ result' = "none"
  /\ UNCHANGED <<card, file_list, i, sent, uploads, remote>>

\* The user saves or removes a file.
Newer(v) == \A g \in Files : /\ sd[g] # Absent => sd[g] < v
                             /\ listed[g] # Absent => listed[g] < v
Save(f) ==
  /\ "save" \in Faults
  /\ pc = "body" => f # File
  /\ \/ \E v \in Version : Newer(v) /\ sd' = [sd EXCEPT ![f] = v]
     \/ sd[f] # Absent /\ sd' = [sd EXCEPT ![f] = Absent]
  /\ UNCHANGED <<listed, blind, mixed, astray, device, link, wire, eof, remote>>

\* The file being read is saved again: sdAcquire keeps no other task out, and
\* the open file goes on with whatever its clusters hold now.
Overwrite ==
  /\ "overwrite" \in Faults
  /\ pc = "body"
  /\ \E v \in Version : Newer(v) /\ sd' = [sd EXCEPT ![File] = v]
  /\ mixed' = mixed \cup {File}
  /\ UNCHANGED <<listed, blind, astray, device, link, wire, eof, remote>>

\* `l` or the picker lists meanwhile, the card or a mounted server with files of
\* the same names, into the same file_list.  The walk keeps its count and its place;
\* the entry of an open file is not read again.
Relist ==
  /\ pc \in {"file", "body"}
  /\ \E count \in 1 .. Cardinality(Files) :
       \E new \in {s \in [1 .. count -> Files] : IsInjective(s)} :
         file_list' = [k \in DOMAIN file_list |->
                         IF k <= count /\ (k > i \/ (k = i /\ pc = "file")) THEN new[k] ELSE file_list[k]]
  /\ UNCHANGED <<card, pc, i, sent, result, uploads, link, wire, eof, remote>>

Start == Begin \/ StartFails
Task == Skip \/ SendHeader \/ SendBlock \/ SendSeparator \/ SendShort \/ SendDone \/ StreamFails \/ Reply
Script == \/ ReadHeader \/ EndHeaders \/ ReadBlock \/ Move \/ ShortBody \/ NoSeparator
          \/ DataAstray \/ SeparatorAstray \/ HeaderAstray
          \/ Prune \/ PrintOk \/ HostFails

Next == Start \/ Task \/ Script \/ LinkLost \/ Reset \/ Overwrite \/ \E f \in Files : Save(f)

Spec == Init /\ [][Next]_vars

\* Other commands may list meanwhile.
RelistSpec == Init /\ [][Next \/ Relist]_vars

\* The task and the script run; nothing makes the user start another upload.
Fairness == WF_vars(Task) /\ WF_vars(Script)
FairSpec == Spec /\ Fairness

-----------------------------------------------------------------------------
(* Properties.                                                             *)

\* ~/tdeck never holds part of a file: each name has all blocks of one saved
\* version, whenever the transfer is cut, unless it was saved while it was read.
\* Nothing is claimed once a file was shorter than its size: then the script moves
\* what it took for the file to its name.
OneVersion(f) == \E v \in Version : host[f] = Whole(v)
NoTornFile == \A f \in Files \ mixed : host[f] = Absent \/ OneVersion(f)

\* "Upload done" is shown only when ~/tdeck holds exactly the safe-named files
\* of the card, as they were listed or have been saved since.  Two failures of the
\* card are not claimed, for which it is also shown: a listing that failed, when the
\* host prunes what was not listed, and a file shorter than its size.
DoneMeansMirrored ==
  result = "done" /\ pc = "idle" /\ ~blind /\ ~astray =>
    \A f \in Files :
      IF listed[f] = Absent \/ f \notin Safe THEN host[f] = Absent
      ELSE /\ host[f] # Absent
           /\ f \notin mixed => \E v \in Version : host[f] = Whole(v) /\ v >= listed[f]

\* upload_running is cleared: the task always ends.
UploadEnds == (pc # "idle") ~> (pc = "idle")

(* What the README says.                                                   *)

\* "Mirror SD root to ~/tdeck on SSH host (overwrite + delete extras on host)":
\* the host deletes nothing that is on the card under a safe name.
ExtrasOnly ==
  [][\A f \in Safe : listed[f] # Absent /\ host[f] # Absent => host'[f] # Absent]_vars

=============================================================================
