------------------------------- MODULE Editor -------------------------------
(***************************************************************************)
(* The notepad's buffer and the files it stands for.  loop() edits the     *)
(* buffer and runs file commands; the task of a shortcut runs the same     *)
(* commands beside the keys.  A file command saves what the buffer holds   *)
(* before it replaces it; where the text goes depends on a name, on a flag *)
(* and on the mount that is active at that moment.                         *)
(*                                                                         *)
(* One passage of text is followed from where it was typed or found to the *)
(* places it is stored in.                                                 *)
(***************************************************************************)
EXTENDS Naturals, FiniteSets

CONSTANTS
  Mounts,    \* remote directories; the card is the store "sd"
  Names,     \* file names
  UNSAVED,   \* the name of a buffer without a name
  None

Stores == {"sd"} \cup Mounts
Places == Stores \X Names

\* The passage, alone or among other text, or only other text.  A file without
\* the passage may be empty.
Texts == {"empty", "other", "passage"}
Contents == {"missing", "other", "passage"}

EditorAssumption ==
  UNSAVED \in Names /\ "sd" \notin Mounts /\ None \notin Names \cup Mounts \cup Places

VARIABLES
  text_buf, file_modified, current_file, file_is_remote, active_mount,
  files,     \* the contents of the stores
  pc,        \* where the file command is that is under way
  job,       \* who gave it, for which file
  body,      \* what the server answered
  known,     \* ghost: the passage was typed or found
  deleted,   \* ghost: the user deleted it
  atRisk,    \* ghost: its loss has a known cause, see the actions
  home       \* ghost: the place the buffer was last loaded from or saved to

buffer == <<text_buf, file_modified, current_file, file_is_remote>>
command == <<pc, job, body>>
ghosts == <<known, deleted, atRisk, home>>
vars == <<buffer, active_mount, files, command, ghosts>>

Idle == [by |-> "loop", name |-> None, how |-> "save", remote |-> FALSE]
mountActive == active_mount # None
Holds(p) == files[p] = "passage"
NameOrUnsaved == IF current_file = None THEN UNSAVED ELSE current_file

TypeOK ==
  /\ text_buf \in Texts /\ file_modified \in BOOLEAN
  /\ current_file \in Names \cup {None}
  /\ file_is_remote \in BOOLEAN /\ (file_is_remote => mountActive)
  /\ active_mount \in Mounts \cup {None}
  /\ files \in [Places -> Contents]
  /\ pc \in {"idle", "autosave", "clear", "load", "fetched"}
  /\ job \in [by : {"loop", "shortcut"}, name : Names \cup {None},
              how : {"save", "edit", "daily", "pick"}, remote : BOOLEAN]
  /\ pc = "idle" => job = Idle
  /\ body \in Contents
  /\ known \in BOOLEAN /\ deleted \in BOOLEAN /\ atRisk \in BOOLEAN
  /\ home \in Places \cup {None}

\* The passage is in one file, or still to be typed.
Init ==
  /\ text_buf = "empty" /\ file_modified = FALSE
  /\ current_file = None /\ file_is_remote = FALSE /\ active_mount = None
  /\ files \in [Places -> Contents]
  /\ Cardinality({p \in Places : Holds(p)}) <= 1
  /\ pc = "idle" /\ job = Idle /\ body = "missing"
  /\ known = \E p \in Places : Holds(p)
  /\ deleted = FALSE /\ home = None
  /\ atRisk = Holds(<<"sd", UNSAVED>>)

-----------------------------------------------------------------------------
(* handleNotepadKeyPress: loop() is not in a command itself.               *)

KeysFree == pc = "idle" \/ job.by = "shortcut"

\* A command of the shortcut has looked at the buffer, and will replace it or
\* call it saved.
Late == pc \in {"clear", "load", "fetched"}

TypeOther ==
  /\ KeysFree
  /\ text_buf' = IF text_buf = "empty" THEN "other" ELSE text_buf
  /\ file_modified' = TRUE
  /\ UNCHANGED <<current_file, file_is_remote, active_mount, files, command, ghosts>>

\* Mutant: a key path that forgets the flag.
TypePassageUnmarked ==
  /\ KeysFree /\ ~known
  /\ text_buf' = "passage" /\ known' = TRUE
  /\ atRisk' = (atRisk \/ Late)
  /\ UNCHANGED <<file_modified, current_file, file_is_remote, active_mount, files, command,
                 deleted, home>>

TypePassage ==
  /\ KeysFree /\ ~known
  /\ text_buf' = "passage" /\ known' = TRUE
  /\ file_modified' = TRUE
  /\ atRisk' = (atRisk \/ Late)
  /\ UNCHANGED <<current_file, file_is_remote, active_mount, files, command, deleted, home>>

\* Backspace, as often as it takes.
Delete ==
  /\ KeysFree /\ text_buf # "empty"
  /\ text_buf' \in {"empty", "other"}
  /\ deleted' = (deleted \/ text_buf = "passage")
  /\ file_modified' = TRUE
  /\ atRisk' = (atRisk \/ (Late /\ text_buf = "passage"))
  /\ UNCHANGED <<current_file, file_is_remote, active_mount, files, command, known, home>>

-----------------------------------------------------------------------------
(* Writing.                                                                *)

Goto(at) == pc' = at /\ UNCHANGED job
Finish == pc' = "idle" /\ job' = Idle

AsFile(text) == IF text = "empty" THEN "other" ELSE text
Write(p, content) == files' = [files EXCEPT ![p] = content]

\* saveToFile: the file is cut to nothing and written; a full card takes a part,
\* and nobody looks.  wanted: the user asked for what p held to be overwritten.
Saved(p, wanted) ==
  \E part \in {AsFile(text_buf), "other"} :
    /\ Write(p, part) /\ home' = p
    /\ atRisk' = (atRisk \/ (wanted /\ Holds(p)) \/ part # AsFile(text_buf))

\* saveRemoteFile: the server took it and said so,
SavedRemotely(p, wanted) ==
  /\ Write(p, AsFile(text_buf)) /\ home' = p
  /\ atRisk' = (atRisk \/ (wanted /\ Holds(p)))

\* or the card did not open the file, the server was not reached, or its answer
\* was lost.
NotSaved(p, wanted) ==
  /\ \/ UNCHANGED files
     \/ p[1] # "sd" /\ Write(p, AsFile(text_buf))
  /\ atRisk' = (atRisk \/ (wanted /\ Holds(p)) \/ (pc = "autosave" /\ text_buf = "passage"))
  /\ UNCHANGED home

\* autoSaveDirty of a remote file.
AutoSaveRemote ==
  /\ pc = "autosave" /\ file_is_remote /\ mountActive
  /\ LET p == <<active_mount, NameOrUnsaved>> IN
       \/ SavedRemotely(p, FALSE) /\ Goto("clear")
       \/ NotSaved(p, FALSE) /\ Goto("load")
  /\ UNCHANGED <<buffer, active_mount, body, known, deleted>>

\* autoSaveDirty of a file of the card, or of a buffer that has no name.
AutoSaveLocal ==
  /\ pc = "autosave" /\ ~(file_is_remote /\ mountActive)
  /\ current_file' = NameOrUnsaved
  /\ LET p == <<"sd", current_file'>> IN
       \/ Saved(p, FALSE) /\ Goto("clear")
       \/ NotSaved(p, FALSE) /\ Goto("load")
  /\ UNCHANGED <<text_buf, file_modified, file_is_remote, active_mount, body, known, deleted>>

\* The flag is cleared after the write.
Clear ==
  /\ pc = "clear"
  /\ file_modified' = FALSE
  /\ IF job.how = "save" THEN Finish ELSE Goto("load")
  /\ UNCHANGED <<text_buf, current_file, file_is_remote, active_mount, files, body, ghosts>>

\* The save command, by c; n is the name given, or None.
SaveRemote(c, n) ==
  /\ pc = "idle" /\ file_is_remote /\ mountActive
  /\ LET name == IF n = None THEN NameOrUnsaved ELSE n
         p == <<active_mount, name>> IN
       \/ /\ SavedRemotely(p, n # None)
          /\ current_file' = name
          /\ pc' = "clear" /\ job' = [Idle EXCEPT !.by = c]
       \/ NotSaved(p, n # None) /\ UNCHANGED <<pc, job, current_file>>
  /\ UNCHANGED <<text_buf, file_modified, file_is_remote, active_mount, body, known, deleted>>

SaveLocal(c, n) ==
  /\ pc = "idle" /\ ~(file_is_remote /\ mountActive)
  /\ current_file' = IF n = None THEN NameOrUnsaved ELSE n
  /\ LET p == <<"sd", current_file'>> IN
       \/ Saved(p, n # None) /\ pc' = "clear" /\ job' = [Idle EXCEPT !.by = c]
       \/ NotSaved(p, n # None) /\ UNCHANGED <<pc, job>>
  /\ UNCHANGED <<text_buf, file_modified, file_is_remote, active_mount, body, known, deleted>>

-----------------------------------------------------------------------------
(* Opening: the edit and daily commands, and Enter in the file picker.     *)

\* Mutant: the buffer is saved only when it has a name.
OpenNamedSaves(c, n, how) ==
  /\ pc = "idle" /\ (how = "pick" => c = "loop")
  /\ job' = [by |-> c, name |-> n, how |-> how, remote |-> mountActive]
  /\ pc' = IF file_modified /\ current_file # None THEN "autosave" ELSE "load"
  /\ UNCHANGED <<buffer, active_mount, files, body, ghosts>>

\* autoSaveDirty has nothing to do for an empty buffer.
Open(c, n, how) ==
  /\ pc = "idle" /\ (how = "pick" => c = "loop")
  /\ job' = [by |-> c, name |-> n, how |-> how, remote |-> mountActive]
  /\ pc' = IF file_modified /\ text_buf # "empty" THEN "autosave" ELSE "load"
  /\ UNCHANGED <<buffer, active_mount, files, body, ghosts>>

\* The edit command looked at the mount before it saved, the others look now.
Remotely == IF job.how = "edit" THEN job.remote ELSE mountActive

\* The buffer holds the file, or what of it fits.
Loaded(p, content) ==
  /\ text_buf' \in IF content = "passage" THEN {"passage", "other"} ELSE {"empty", "other"}
  /\ file_modified' = FALSE /\ current_file' = job.name
  /\ home' = p /\ atRisk' = (atRisk \/ (content = "passage" /\ text_buf' # content))

\* A file that cannot be read is a new one; the picker keeps the buffer.
NotLoaded(p) ==
  IF job.how = "pick" THEN UNCHANGED <<text_buf, file_modified, current_file, home, atRisk>>
  ELSE /\ text_buf' = "empty" /\ file_modified' = FALSE /\ current_file' = job.name
       /\ home' = p /\ atRisk' = (atRisk \/ Holds(p))

\* loadFromFile.
LoadLocal ==
  /\ pc = "load" /\ ~Remotely
  /\ LET p == <<"sd", job.name>> IN
       (files[p] # "missing" /\ Loaded(p, files[p])) \/ NotLoaded(p)
  /\ Finish
  /\ UNCHANGED <<file_is_remote, active_mount, files, body, known, deleted>>

\* loadRemoteFile: the server answers with the file, or there is no answer,
Fetch ==
  /\ pc = "load" /\ Remotely
  /\ body' \in {files[<<active_mount, job.name>>], "missing"}
  /\ Goto("fetched")
  /\ UNCHANGED <<buffer, active_mount, files, ghosts>>

\* and the buffer is replaced.
Replace ==
  /\ pc = "fetched"
  /\ LET p == <<active_mount, job.name>> IN
       IF body # "missing" THEN Loaded(p, body) /\ file_is_remote' = TRUE
       ELSE NotLoaded(p) /\ file_is_remote' = (file_is_remote \/ job.how # "pick")
  /\ body' = "missing"
  /\ Finish
  /\ UNCHANGED <<active_mount, files, known, deleted>>

-----------------------------------------------------------------------------
(* The mount, umount and rm commands.                                      *)

\* Mutant: the flag stays.
SwitchKeepsRemote(m) ==
  /\ pc = "idle"
  /\ active_mount' = m
  /\ LET p == <<"sd", NameOrUnsaved>> IN atRisk' = (atRisk \/ (home # p /\ Holds(p)))
  /\ UNCHANGED <<buffer, files, command, known, deleted, home>>

\* The buffer keeps its name: from here on it stands for the card's file of that
\* name.
Switch(m) ==
  /\ pc = "idle"
  /\ active_mount' = m /\ file_is_remote' = FALSE
  /\ LET p == <<"sd", NameOrUnsaved>> IN atRisk' = (atRisk \/ (home # p /\ Holds(p)))
  /\ UNCHANGED <<text_buf, file_modified, current_file, files, command, known, deleted, home>>

mount(m) == Switch(m)
umount == Switch(None)

\* Only files of the card are removed.
rm(n) ==
  /\ pc = "idle"
  /\ LET p == <<"sd", n>> IN
       /\ files[p] # "missing" /\ Write(p, "missing")
       /\ deleted' = (deleted \/ Holds(p))
  /\ UNCHANGED <<buffer, active_mount, command, known, atRisk, home>>

-----------------------------------------------------------------------------
Next ==
  \/ TypeOther \/ TypePassage \/ Delete
  \/ AutoSaveRemote \/ AutoSaveLocal \/ Clear \/ LoadLocal \/ Fetch \/ Replace \/ umount
  \/ \E n \in Names : rm(n)
  \/ \E m \in Mounts : mount(m)
  \/ \E c \in {"loop", "shortcut"} :
       \/ \E n \in Names \cup {None} : SaveRemote(c, n) \/ SaveLocal(c, n)
       \/ \E n \in Names, how \in {"edit", "daily", "pick"} : Open(c, n, how)

Spec == Init /\ [][Next]_vars

-----------------------------------------------------------------------------
(* Properties.                                                             *)

\* Nothing the user typed or kept in a file is lost but in the ways the code leaves
\* open: an automatic save that failed, a full card, a file that could not be read
\* or did not fit and was saved over, a mount switched under a named buffer, or keys
\* pressed while a shortcut's command was between two steps.
NoTextLost ==
  known /\ ~deleted /\ ~atRisk => text_buf = "passage" \/ \E p \in Places : Holds(p)

\* A buffer that is not called modified has the text of its file, but for those
\* same cases: autoSaveDirty may drop it.
UnmodifiedIsStored ==
  pc = "idle" /\ ~atRisk /\ ~file_modified /\ home # None
    => files[home] = "missing" \/ (text_buf = "passage" <=> Holds(home))

=============================================================================
