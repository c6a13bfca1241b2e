---------------------------- MODULE PartsProofs ----------------------------
(***************************************************************************)
(* The notepad, the history of the command prompt and the radio's memory   *)
(* of packets, one after the other, for any number of names, mounts, lines *)
(* and packets; then what is proved of each as a theorem of Parts, where a *)
(* behaviour follows one of them.                                          *)
(***************************************************************************)
EXTENDS Parts, FiniteSetTheorems, SequenceTheorems, WellFoundedInduction, TLAPS

(* Where the buffer is saved to when nobody gives a name.                  *)
Target == IF file_is_remote THEN <<active_mount, NameOrUnsaved>> ELSE <<"sd", NameOrUnsaved>>

(* The ways in which the passage may be gone.                              *)
Excused == deleted \/ atRisk

Stored == \E p \in Places : Holds(p)

(* The command under way: which file it is for, on which side, and that    *)
(* what the server answered is what it has.                                *)
JobHonest ==
  /\ pc \in {"autosave", "load", "fetched"} => job.how # "save"
  /\ job.how # "save" => job.name \in Names
  /\ job.how = "edit" => (job.remote <=> mountActive)
  /\ pc = "fetched" => mountActive /\ body \in {files[<<active_mount, job.name>>], "missing"}
  /\ pc = "autosave" => file_modified

(* The buffer is saved over the passage only if it has it: neither the     *)
(* place it is saved to nor the one it came from holds the passage beside  *)
(* a buffer without it.                                                    *)
TargetSafe ==
  \A p \in {Target, home} \ {None} : Holds(p) => text_buf = "passage" \/ Excused

(* A buffer that will be replaced or that nobody would save has its        *)
(* passage in a file.                                                      *)
KeptBeforeReplaced ==
  text_buf = "passage" /\ (~file_modified \/ Late) => Stored \/ Excused

(* After a write, and as long as the buffer is called unmodified, the file *)
(* and the buffer agree.                                                   *)
Agrees == text_buf = "passage" <=> Holds(home)
WrittenAgrees ==
  ~atRisk =>
    /\ pc = "clear" => home # None /\ Agrees
    /\ pc # "clear" /\ ~file_modified /\ home # None => files[home] = "missing" \/ Agrees

IInv ==
  TypeOK /\ JobHonest /\ TargetSafe /\ KeptBeforeReplaced /\ WrittenAgrees /\ NoTextLost

(* What the ways of saving have in common.  A write to p leaves the other  *)
(* files alone, and what is lost by it on request is excused,              *)
Writes(p, wanted) ==
  /\ files' \in [Places -> Contents]
  /\ \A q \in Places \ {p} : files'[q] = files[q]
  /\ atRisk' \in BOOLEAN /\ (atRisk => atRisk') /\ (wanted /\ Holds(p) => atRisk')
  /\ UNCHANGED <<text_buf, file_modified, file_is_remote, active_mount, body, known, deleted>>

(* and it has taken the buffer, or what the card had room for,             *)
Wrote(p) ==
  /\ home' = p
  /\ files'[p] = "passage" => text_buf = "passage"
  /\ text_buf = "passage" /\ ~atRisk' => files'[p] = "passage"

(* or it may have failed.                                                  *)
MayHaveFailed(p) ==
  /\ home' = home
  /\ \/ files'[p] = files[p]
     \/ files'[p] = "passage" <=> text_buf = "passage"
  /\ pc = "autosave" /\ text_buf = "passage" => atRisk'

-----------------------------------------------------------------------------
(* The buffer is empty at the start, or the passage is in a file. *)
LEMMA InitIInv == ASSUME EditorAssumption, Init PROVE IInv
  <1> USE EditorAssumption DEF Init, Idle
  <1>1. TypeOK
    <2>1. known \in BOOLEAN /\ deleted \in BOOLEAN /\ atRisk \in BOOLEAN
      BY Zenon DEF Holds
    <2>2. /\ text_buf \in Texts /\ file_modified \in BOOLEAN
          /\ current_file \in Names \cup {None}
          /\ file_is_remote \in BOOLEAN /\ (file_is_remote => mountActive)
          /\ active_mount \in Mounts \cup {None}
          /\ pc \in {"idle", "autosave", "clear", "load", "fetched"}
          /\ body \in Contents /\ home \in Places \cup {None}
      BY DEF Texts, Contents
    <2>3. job \in [by : {"loop", "shortcut"}, name : Names \cup {None},
                  how : {"save", "edit", "daily", "pick"}, remote : BOOLEAN]
      OBVIOUS
    <2> QED BY <2>1, <2>2, <2>3, Zenon DEF TypeOK
  <1>2. JobHonest
    BY DEF JobHonest
  <1>3. TargetSafe
    BY DEF TargetSafe, Target, NameOrUnsaved, Excused
  <1>4. KeptBeforeReplaced /\ WrittenAgrees
    BY DEF KeptBeforeReplaced, WrittenAgrees
  <1>5. NoTextLost
    BY DEF NoTextLost
  <1> QED BY <1>1, <1>2, <1>3, <1>4, <1>5 DEF IInv

(* The writes of the model are such writes. *)
LEMMA SavedWrites ==
  ASSUME EditorAssumption, TypeOK, NEW p \in Places, NEW wanted \in BOOLEAN,
         Saved(p, wanted) \/ SavedRemotely(p, wanted),
         UNCHANGED <<text_buf, file_modified, file_is_remote, active_mount, body, known, deleted>>
  PROVE  Writes(p, wanted) /\ Wrote(p)
  <1>1. PICK written \in {AsFile(text_buf), "other"} :
          /\ files' = [files EXCEPT ![p] = written] /\ home' = p
          /\ atRisk' = (atRisk \/ (wanted /\ Holds(p)) \/ written # AsFile(text_buf))
    BY DEF Saved, SavedRemotely, Write
  <1>2. /\ atRisk' \in BOOLEAN /\ (atRisk => atRisk') /\ (wanted /\ Holds(p) => atRisk')
        /\ written # AsFile(text_buf) => atRisk'
    BY <1>1, Zenon DEF TypeOK
  <1>3. written \in Contents /\ (written = "passage" => text_buf = "passage")
    BY DEF TypeOK, Texts, Contents, AsFile
  <1>4. /\ files' \in [Places -> Contents] /\ files'[p] = written
        /\ \A q \in Places \ {p} : files'[q] = files[q]
    BY <1>1, <1>3 DEF TypeOK
  <1>5. Writes(p, wanted)
    BY <1>2, <1>4 DEF Writes
  <1>6. Wrote(p)
    BY <1>1, <1>2, <1>3, <1>4 DEF Wrote, AsFile
  <1> QED BY <1>5, <1>6

(* A save that failed, or whose answer was lost, is such a write. *)
LEMMA NotSavedWrites ==
  ASSUME EditorAssumption, TypeOK, NEW p \in Places, NEW wanted \in BOOLEAN,
         NotSaved(p, wanted),
         UNCHANGED <<text_buf, file_modified, file_is_remote, active_mount, body, known, deleted>>
  PROVE  /\ Writes(p, wanted) /\ MayHaveFailed(p)
         /\ p[1] = "sd" => files' = files
  <1>1. /\ atRisk' \in BOOLEAN /\ (atRisk => atRisk') /\ (wanted /\ Holds(p) => atRisk')
        /\ pc = "autosave" /\ text_buf = "passage" => atRisk'
    BY Zenon DEF TypeOK, NotSaved
  <1>2. \/ files' = files
        \/ p[1] # "sd" /\ files' = [files EXCEPT ![p] = AsFile(text_buf)]
    BY DEF NotSaved, Write
  <1>3. AsFile(text_buf) \in Contents /\ (AsFile(text_buf) = "passage" <=> text_buf = "passage")
    BY DEF TypeOK, Texts, Contents, AsFile
  <1>4. /\ files' \in [Places -> Contents]
        /\ files'[p] = files[p] \/ files'[p] = AsFile(text_buf)
        /\ \A q \in Places \ {p} : files'[q] = files[q]
    BY <1>2, <1>3 DEF TypeOK
  <1>5. Writes(p, wanted)
    BY <1>1, <1>4 DEF Writes
  <1>6. MayHaveFailed(p)
    BY <1>1, <1>3, <1>4 DEF MayHaveFailed, NotSaved
  <1> QED BY <1>2, <1>5, <1>6

(* A write of the buffer to the place it is saved to, or to one the user   *)
(* named, keeps the invariant.                                             *)
LEMMA SavedIInv ==
  ASSUME EditorAssumption, IInv, NEW p \in Places, NEW wanted \in BOOLEAN,
         Writes(p, wanted), Wrote(p), wanted \/ p = Target,
         Target' = p, current_file' \in Names \cup {None}, pc' = "clear",
         job' \in [by : {"loop", "shortcut"}, name : Names \cup {None},
                   how : {"save", "edit", "daily", "pick"}, remote : BOOLEAN],
         JobHonest'
  PROVE  IInv'
  <1> USE DEF IInv, Writes, Wrote, Excused
  <1>1. p # None
    BY DEF EditorAssumption
  <1>2. TypeOK'
    BY DEF TypeOK, mountActive
  <1>3. TargetSafe'
    BY DEF TargetSafe, Holds
  <1>4. KeptBeforeReplaced'
    BY DEF KeptBeforeReplaced, Stored, Holds
  <1>5. WrittenAgrees'
    BY <1>1 DEF WrittenAgrees, Agrees, Holds
  <1>6. NoTextLost'
    BY <1>1 DEF NoTextLost, TargetSafe, Holds
  <1> QED BY <1>2, <1>3, <1>4, <1>5, <1>6

(* and keeps the invariant, as the buffer stays modified. *)
LEMMA NotSavedIInv ==
  ASSUME EditorAssumption, IInv, NEW p \in Places, NEW wanted \in BOOLEAN,
         Writes(p, wanted), MayHaveFailed(p), wanted \/ p = Target,
         Target' \in {Target, p}, Target \in Places, current_file' \in Names \cup {None},
         Target' # Target => files' = files,
         job' = job,
         \/ pc = "idle" /\ pc' = pc
         \/ pc = "autosave" /\ pc' = "load"
  PROVE  IInv'
  <1> USE DEF IInv, Writes, MayHaveFailed, Excused
  <1>1. p # None /\ Target # None
    BY DEF EditorAssumption
  <1>2. TypeOK'
    BY DEF TypeOK, mountActive
  <1>3. JobHonest'
    BY DEF JobHonest, mountActive
  <1>4. TargetSafe'
    BY <1>1 DEF TargetSafe, Holds, TypeOK
  <1>5. KeptBeforeReplaced'
    BY DEF KeptBeforeReplaced, Stored, Holds, Late
  <1>6. WrittenAgrees'
    BY <1>1 DEF WrittenAgrees, Agrees, Holds, JobHonest, TypeOK
  <1>7. NoTextLost'
    BY <1>1 DEF NoTextLost, TargetSafe, Holds
  <1> QED BY <1>2, <1>3, <1>4, <1>5, <1>6, <1>7

(* A file taken into the buffer, or one that could not be read, does too:  *)
(* what the buffer held was saved before.                                  *)
LEMMA LoadedIInv ==
  ASSUME EditorAssumption, IInv, pc \in {"load", "fetched"}, NEW p \in Places,
         Loaded(p, files[p]), Target' = p, files' = files, UNCHANGED <<active_mount, known, deleted>>,
         file_is_remote' \in BOOLEAN, file_is_remote' => mountActive, job.name \in Names,
         body' \in Contents, Finish
  PROVE  IInv'
  <1> USE DEF IInv, Excused
  <1>1. p # None
    BY DEF EditorAssumption
  <1>2. /\ atRisk' \in BOOLEAN /\ (atRisk => atRisk')
        /\ files[p] = "passage" /\ text_buf' # files[p] => atRisk'
    BY Zenon DEF TypeOK, Loaded
  <1>3. /\ text_buf' \in Texts /\ (text_buf' = "passage" => files[p] = "passage")
        /\ ~file_modified' /\ file_modified' \in BOOLEAN /\ current_file' = job.name /\ home' = p
    BY DEF Loaded, Texts
  <1>4. pc' = "idle" /\ job' = Idle
    BY DEF Finish
  <1>5. TypeOK'
    BY <1>2, <1>3, <1>4 DEF TypeOK, mountActive, Idle
  <1>6. JobHonest'
    BY <1>4 DEF JobHonest, Idle
  <1>7. TargetSafe'
    BY <1>2, <1>3 DEF TargetSafe, Holds
  <1>8. KeptBeforeReplaced'
    BY <1>3 DEF KeptBeforeReplaced, Stored, Holds
  <1>9. WrittenAgrees'
    BY <1>2, <1>3, <1>4 DEF WrittenAgrees, Agrees, Holds
  <1>10. NoTextLost'
    BY <1>2 DEF NoTextLost, KeptBeforeReplaced, Stored, Holds, Late
  <1> QED BY <1>5, <1>6, <1>7, <1>8, <1>9, <1>10

(* A file that cannot be read leaves the buffer, or empties it when that was saved. *)
LEMMA NotLoadedIInv ==
  ASSUME EditorAssumption, IInv, pc \in {"load", "fetched"}, NEW p \in Places,
         NotLoaded(p), files' = files, UNCHANGED <<active_mount, known, deleted>>,
         IF job.how = "pick" THEN file_is_remote' = file_is_remote ELSE Target' = p,
         file_is_remote' \in BOOLEAN, file_is_remote' => mountActive, job.name \in Names,
         body' \in Contents, Finish
  PROVE  IInv'
  <1> USE DEF IInv, Excused
  <1>1. p # None
    BY DEF EditorAssumption
  <1>2. pc' = "idle" /\ job' = Idle
    BY DEF Finish
  <1>3. JobHonest'
    BY <1>2 DEF JobHonest, Idle
  <1>4. CASE job.how = "pick"
    <2>1. UNCHANGED <<text_buf, file_modified, current_file, file_is_remote, home, atRisk>>
      BY <1>4 DEF NotLoaded
    <2>2. TypeOK'
      BY <2>1, <1>2 DEF TypeOK, mountActive, Idle
    <2>3. TargetSafe' /\ KeptBeforeReplaced' /\ NoTextLost'
      BY <2>1 DEF TargetSafe, Target, NameOrUnsaved, KeptBeforeReplaced, Stored, NoTextLost, Holds, Late
    <2>4. WrittenAgrees'
      BY <2>1, <1>2 DEF WrittenAgrees, Agrees, Holds
    <2> QED BY <1>3, <2>2, <2>3, <2>4
  <1>5. CASE job.how # "pick"
    <2>1. /\ atRisk' \in BOOLEAN /\ (atRisk => atRisk') /\ (Holds(p) => atRisk')
      BY <1>5, Zenon DEF TypeOK, NotLoaded
    <2>2. /\ text_buf' = "empty" /\ file_modified' = FALSE /\ current_file' = job.name
          /\ home' = p
      BY <1>5 DEF NotLoaded
    <2>3. TypeOK'
      BY <2>1, <2>2, <1>2 DEF TypeOK, Texts, mountActive, Idle
    <2>4. TargetSafe' /\ KeptBeforeReplaced'
      BY <1>5, <2>1, <2>2 DEF TargetSafe, KeptBeforeReplaced, Holds
    <2>5. WrittenAgrees'
      BY <2>1, <2>2, <1>2 DEF WrittenAgrees, Agrees, Holds
    <2>6. NoTextLost'
      BY <2>1 DEF NoTextLost, KeptBeforeReplaced, Stored, Holds, Late
    <2> QED BY <1>3, <2>3, <2>4, <2>5, <2>6
  <1> QED BY <1>4, <1>5

-----------------------------------------------------------------------------
(* The actions. *)

(* The place the buffer is saved to is a place. *)
LEMMA TargetTyped == ASSUME EditorAssumption, TypeOK PROVE NameOrUnsaved \in Names /\ Target \in Places
  BY DEF EditorAssumption, TypeOK, Target, NameOrUnsaved, Places, Stores, mountActive

(* Other text typed changes what the buffer is worth, not the passage. *)
LEMMA TypeOtherIInv ==
  ASSUME EditorAssumption, IInv, TypeOther PROVE IInv'
  <1> USE DEF IInv, TypeOther, command, ghosts
  <1>1. TypeOK' /\ JobHonest'
    BY DEF TypeOK, Texts, JobHonest, mountActive
  <1>2. TargetSafe' /\ KeptBeforeReplaced'
    BY DEF TargetSafe, Target, NameOrUnsaved, KeptBeforeReplaced, Stored, Holds, Late, Excused
  <1>3. WrittenAgrees' /\ NoTextLost'
    BY DEF WrittenAgrees, Agrees, NoTextLost, Holds
  <1> QED BY <1>1, <1>2, <1>3

(* Text typed beside a command that will call it saved is excused. *)
LEMMA TypePassageIInv ==
  ASSUME EditorAssumption, IInv, TypePassage PROVE IInv'
  <1> USE DEF IInv, TypePassage, command, Late, Excused
  <1>1. TypeOK' /\ JobHonest'
    BY DEF TypeOK, Texts, JobHonest, mountActive
  <1>2. TargetSafe' /\ KeptBeforeReplaced'
    BY DEF TargetSafe, Target, NameOrUnsaved, KeptBeforeReplaced, Stored, Holds
  <1>3. WrittenAgrees' /\ NoTextLost'
    BY DEF WrittenAgrees, Agrees, NoTextLost, Holds
  <1> QED BY <1>1, <1>2, <1>3

(* A deletion of text takes the passage out of the buffer, and says so. *)
LEMMA DeleteIInv ==
  ASSUME EditorAssumption, IInv, Delete PROVE IInv'
  <1> USE DEF IInv, Delete, command, Late, Excused
  <1>1. TypeOK' /\ JobHonest'
    BY DEF TypeOK, Texts, JobHonest, mountActive
  <1>2. TargetSafe' /\ KeptBeforeReplaced'
    BY DEF TargetSafe, Target, NameOrUnsaved, KeptBeforeReplaced, Holds
  <1>3. WrittenAgrees'
    BY DEF TypeOK, WrittenAgrees, Agrees, Holds
  <1>4. NoTextLost'
    BY DEF NoTextLost, Holds
  <1> QED BY <1>1, <1>2, <1>3, <1>4

(* The buffer is saved on the server before another file is opened, *)
LEMMA AutoSaveRemoteIInv ==
  ASSUME EditorAssumption, IInv, AutoSaveRemote PROVE IInv'
  <1> DEFINE p == <<active_mount, NameOrUnsaved>>
  <1> USE DEF IInv
  <1>1. p = Target /\ p \in Places
    BY TargetTyped DEF AutoSaveRemote, Target
  <1>2. /\ UNCHANGED <<text_buf, file_modified, current_file, file_is_remote, active_mount,
                       body, known, deleted>>
        /\ pc = "autosave" /\ job' = job /\ Target' = Target /\ current_file \in Names \cup {None}
    BY DEF AutoSaveRemote, buffer, Goto, Target, NameOrUnsaved, TypeOK
  <1>3. CASE SavedRemotely(p, FALSE) /\ Goto("clear")
    <2>1. Writes(p, FALSE) /\ Wrote(p)
      BY <1>1, <1>2, <1>3, SavedWrites
    <2>2. JobHonest' /\ pc' = "clear"
      BY <1>2, <1>3 DEF JobHonest, Goto, mountActive
    <2> QED
      BY <1>1, <1>2, <2>1, <2>2, SavedIInv DEF TypeOK
  <1>4. CASE NotSaved(p, FALSE) /\ Goto("load")
    <2>1. Writes(p, FALSE) /\ MayHaveFailed(p)
      BY <1>1, <1>2, <1>4, NotSavedWrites
    <2> QED
      BY <1>1, <1>2, <1>4, <2>1, NotSavedIInv DEF Goto
  <1> QED BY <1>3, <1>4 DEF AutoSaveRemote

(* or on the card. *)
LEMMA AutoSaveLocalIInv ==
  ASSUME EditorAssumption, IInv, AutoSaveLocal PROVE IInv'
  <1> DEFINE p == <<"sd", NameOrUnsaved>>
  <1> USE DEF IInv
  <1>1. p = Target /\ p \in Places /\ p[1] = "sd"
    BY TargetTyped DEF AutoSaveLocal, Target, TypeOK, Places, Stores
  <1>2. /\ UNCHANGED <<text_buf, file_modified, file_is_remote, active_mount, body, known,
                       deleted>>
        /\ pc = "autosave" /\ job' = job /\ current_file' = NameOrUnsaved
    BY DEF AutoSaveLocal, Goto
  <1>3. current_file' \in Names /\ Target' = Target
    BY <1>2, TargetTyped DEF Target, NameOrUnsaved, EditorAssumption
  <1>4. CASE Saved(p, FALSE) /\ Goto("clear")
    <2>1. Writes(p, FALSE) /\ Wrote(p)
      BY <1>1, <1>2, <1>4, SavedWrites
    <2>2. JobHonest' /\ pc' = "clear"
      BY <1>2, <1>4 DEF JobHonest, Goto, mountActive
    <2> QED
      BY <1>1, <1>2, <1>3, <2>1, <2>2, SavedIInv DEF TypeOK
  <1>5. CASE NotSaved(p, FALSE) /\ Goto("load")
    <2>1. Writes(p, FALSE) /\ MayHaveFailed(p)
      BY <1>1, <1>2, <1>5, NotSavedWrites
    <2> QED
      BY <1>1, <1>2, <1>3, <1>5, <2>1, NotSavedIInv DEF Goto
  <1> QED BY <1>2, <1>4, <1>5 DEF AutoSaveLocal

(* After a save the buffer is called unmodified. *)
LEMMA ClearIInv ==
  ASSUME EditorAssumption, IInv, Clear PROVE IInv'
  <1> USE DEF IInv, Clear, ghosts
  <1>1. TypeOK' /\ JobHonest'
    <2>1. CASE job.how = "save"
      <3>1. pc' = "idle" /\ job' = Idle /\ file_modified' \in BOOLEAN
        BY <2>1 DEF Finish
      <3>2. TypeOK'
        BY <3>1 DEF TypeOK, Idle, mountActive
      <3>3. JobHonest'
        BY <3>1 DEF JobHonest, Idle
      <3> QED BY <3>2, <3>3
    <2>2. CASE job.how # "save"
      BY <2>2 DEF TypeOK, JobHonest, Goto, mountActive
    <2> QED BY <2>1, <2>2
  <1>2. TargetSafe'
    BY DEF TargetSafe, Target, NameOrUnsaved, Holds, Excused
  <1>3. KeptBeforeReplaced'
    BY DEF TypeOK, KeptBeforeReplaced, Stored, Holds, Late, Excused
  <1>4. WrittenAgrees'
    BY DEF WrittenAgrees, Agrees, Holds, Goto, Finish
  <1>5. NoTextLost'
    BY DEF NoTextLost, Holds
  <1> QED BY <1>1, <1>2, <1>3, <1>4, <1>5

(* A save that was asked for, on the server, *)
LEMMA SaveRemoteIInv ==
  ASSUME EditorAssumption, IInv, NEW c \in {"loop", "shortcut"}, NEW n \in Names \cup {None},
         SaveRemote(c, n)
  PROVE  IInv'
  <1> DEFINE name == IF n = None THEN NameOrUnsaved ELSE n
             p == <<active_mount, name>>
             wanted == n # None
  <1> USE DEF IInv
  <1>1. /\ UNCHANGED <<text_buf, file_modified, file_is_remote, active_mount, body, known,
                       deleted>>
        /\ pc = "idle" /\ file_is_remote /\ mountActive
    BY DEF SaveRemote
  <1>2. name \in Names /\ p \in Places /\ wanted \in BOOLEAN /\ (wanted \/ p = Target)
    BY <1>1, TargetTyped DEF Target, TypeOK, mountActive, Places, Stores
  <1>3. CASE SavedRemotely(p, wanted) /\ current_file' = name /\ pc' = "clear"
             /\ job' = [Idle EXCEPT !.by = c]
    <2>1. Writes(p, wanted) /\ Wrote(p)
      BY <1>1, <1>2, <1>3, SavedWrites
    <2>2. Target' = p
      BY <1>1, <1>2, <1>3 DEF Target, NameOrUnsaved, EditorAssumption
    <2>3. JobHonest'
      BY <1>3 DEF JobHonest, Idle
    <2>4. job' \in [by : {"loop", "shortcut"}, name : Names \cup {None},
                    how : {"save", "edit", "daily", "pick"}, remote : BOOLEAN]
      BY <1>3 DEF Idle
    <2> QED
      BY <1>2, <1>3, <2>1, <2>2, <2>3, <2>4, SavedIInv
  <1>4. CASE NotSaved(p, wanted) /\ UNCHANGED <<pc, job, current_file>>
    <2>1. Writes(p, wanted) /\ MayHaveFailed(p)
      BY <1>1, <1>2, <1>4, NotSavedWrites
    <2>2. Target' = Target /\ current_file' \in Names \cup {None}
      BY <1>1, <1>4 DEF Target, NameOrUnsaved, TypeOK
    <2> QED
      BY <1>1, <1>2, <1>4, <2>1, <2>2, TargetTyped, NotSavedIInv
  <1> QED BY <1>3, <1>4 DEF SaveRemote

(* or on the card. *)
LEMMA SaveLocalIInv ==
  ASSUME EditorAssumption, IInv, NEW c \in {"loop", "shortcut"}, NEW n \in Names \cup {None},
         SaveLocal(c, n)
  PROVE  IInv'
  <1> DEFINE name == IF n = None THEN NameOrUnsaved ELSE n
             p == <<"sd", name>>
             wanted == n # None
  <1> USE DEF IInv
  <1>1. /\ UNCHANGED <<text_buf, file_modified, file_is_remote, active_mount, body, known,
                       deleted>>
        /\ pc = "idle" /\ ~file_is_remote /\ current_file' = name
    BY DEF SaveLocal, TypeOK
  <1>2. name \in Names /\ p \in Places /\ p[1] = "sd" /\ wanted \in BOOLEAN
        /\ (wanted \/ p = Target)
    BY <1>1, TargetTyped DEF Target, Places, Stores
  <1>3. Target' = p
    BY <1>1, <1>2 DEF Target, NameOrUnsaved, EditorAssumption
  <1>4. CASE Saved(p, wanted) /\ pc' = "clear" /\ job' = [Idle EXCEPT !.by = c]
    <2>1. Writes(p, wanted) /\ Wrote(p)
      BY <1>1, <1>2, <1>4, SavedWrites
    <2>2. JobHonest'
      BY <1>4 DEF JobHonest, Idle
    <2>3. job' \in [by : {"loop", "shortcut"}, name : Names \cup {None},
                    how : {"save", "edit", "daily", "pick"}, remote : BOOLEAN]
      BY <1>4 DEF Idle
    <2> QED
      BY <1>1, <1>2, <1>3, <1>4, <2>1, <2>2, <2>3, SavedIInv
  <1>5. CASE NotSaved(p, wanted) /\ UNCHANGED <<pc, job>>
    <2>1. Writes(p, wanted) /\ MayHaveFailed(p) /\ files' = files
      BY <1>1, <1>2, <1>5, NotSavedWrites
    <2> QED
      BY <1>1, <1>2, <1>3, <1>5, <2>1, TargetTyped, NotSavedIInv
  <1> QED BY <1>1, <1>4, <1>5 DEF SaveLocal

(* A command to open a file begins with the save, if there is one to be done. *)
LEMMA OpenIInv ==
  ASSUME EditorAssumption, IInv, NEW c \in {"loop", "shortcut"}, NEW n \in Names,
         NEW how \in {"edit", "daily", "pick"}, Open(c, n, how)
  PROVE  IInv'
  <1> USE DEF IInv, Open, buffer, ghosts
  <1>1. TypeOK' /\ JobHonest'
    BY ZenonT(40) DEF TypeOK, JobHonest, mountActive
  <1>2. TargetSafe' /\ NoTextLost'
    BY DEF TargetSafe, Target, NameOrUnsaved, NoTextLost, Holds, Excused
  <1>3. KeptBeforeReplaced'
    BY DEF TypeOK, KeptBeforeReplaced, Stored, Holds, Late, Excused
  <1>4. WrittenAgrees'
    BY DEF WrittenAgrees, Agrees, Holds
  <1> QED BY <1>1, <1>2, <1>3, <1>4

(* A file of the card is read into the buffer. *)
LEMMA LoadLocalIInv ==
  ASSUME EditorAssumption, IInv, LoadLocal PROVE IInv'
  <1> DEFINE p == <<"sd", job.name>>
  <1> USE DEF IInv
  <1>1. /\ UNCHANGED <<file_is_remote, active_mount, files, body, known, deleted>>
        /\ pc = "load" /\ Finish
    BY DEF LoadLocal
  <1>2. job.name \in Names /\ p \in Places /\ file_is_remote = FALSE
    BY <1>1 DEF JobHonest, LoadLocal, Remotely, TypeOK, Places, Stores
  <1>3. CASE Loaded(p, files[p])
    <2>1. Target' = p
      BY <1>1, <1>2, <1>3 DEF Loaded, Target, NameOrUnsaved, EditorAssumption
    <2> QED
      BY <1>1, <1>2, <1>3, <2>1, LoadedIInv DEF TypeOK
  <1>4. CASE NotLoaded(p)
    <2>1. job.how # "pick" => Target' = p
      BY <1>1, <1>2, <1>4 DEF NotLoaded, Target, NameOrUnsaved, EditorAssumption
    <2> QED
      BY <1>1, <1>2, <1>4, <2>1, NotLoadedIInv DEF TypeOK
  <1> QED BY <1>3, <1>4 DEF LoadLocal

(* The answer of the server is kept beside the buffer first, *)
LEMMA FetchIInv ==
  ASSUME EditorAssumption, IInv, Fetch PROVE IInv'
  <1> USE DEF IInv, Fetch, buffer, ghosts, Goto
  <1>1. job.name \in Names /\ mountActive /\ <<active_mount, job.name>> \in Places
    BY DEF JobHonest, Remotely, TypeOK, Places, Stores, mountActive
  <1>2. TypeOK' /\ JobHonest'
    BY <1>1 DEF TypeOK, JobHonest, Contents, mountActive
  <1>3. TargetSafe' /\ NoTextLost'
    BY DEF TargetSafe, Target, NameOrUnsaved, NoTextLost, Holds, Excused
  <1>4. KeptBeforeReplaced' /\ WrittenAgrees'
    BY DEF KeptBeforeReplaced, Stored, WrittenAgrees, Agrees, Holds, Late, Excused
  <1> QED BY <1>2, <1>3, <1>4

(* and then replaces it. *)
LEMMA ReplaceIInv ==
  ASSUME EditorAssumption, IInv, Replace PROVE IInv'
  <1> DEFINE p == <<active_mount, job.name>>
  <1> USE DEF IInv
  <1>1. /\ UNCHANGED <<active_mount, files, known, deleted>> /\ body' = "missing"
        /\ pc = "fetched" /\ Finish /\ body' \in Contents
    BY DEF Replace, Contents
  <1>2. /\ job.name \in Names /\ p \in Places /\ mountActive
        /\ body # "missing" => body = files[p]
    BY <1>1 DEF JobHonest, TypeOK, Places, Stores, mountActive
  <1>3. CASE body # "missing" /\ Loaded(p, body) /\ file_is_remote' = TRUE
    <2>1. Target' = p
      BY <1>1, <1>2, <1>3 DEF Loaded, Target, NameOrUnsaved, EditorAssumption
    <2> QED
      BY <1>1, <1>2, <1>3, <2>1, LoadedIInv
  <1>4. CASE NotLoaded(p) /\ file_is_remote' = (file_is_remote \/ job.how # "pick")
    <2>1. /\ file_is_remote' \in BOOLEAN
          /\ IF job.how = "pick" THEN file_is_remote' = file_is_remote ELSE file_is_remote'
      BY <1>4, Zenon DEF TypeOK
    <2>2. job.how # "pick" => Target' = p
      BY <1>1, <1>2, <1>4, <2>1 DEF NotLoaded, Target, NameOrUnsaved, EditorAssumption
    <2> QED
      BY <1>1, <1>2, <1>4, <2>1, <2>2, NotLoadedIInv
  <1> QED BY <1>3, <1>4 DEF Replace

(* The mount changes, and with it the place a remote buffer is saved to. *)
LEMMA SwitchIInv ==
  ASSUME EditorAssumption, IInv, NEW m \in Mounts \cup {None}, Switch(m) PROVE IInv'
  <1> DEFINE p == <<"sd", NameOrUnsaved>>
  <1> USE DEF IInv, Switch, command
  <1>1. /\ atRisk' \in BOOLEAN /\ (atRisk => atRisk') /\ (home # p /\ Holds(p) => atRisk')
    BY Zenon DEF TypeOK
  <1>2. TypeOK' /\ JobHonest'
    <2>1. /\ UNCHANGED <<text_buf, file_modified, current_file, files, command, known, deleted, home>>
          /\ file_is_remote' = FALSE /\ active_mount' \in Mounts \cup {None} /\ pc = "idle"
      OBVIOUS
    <2>2. pc' = "idle" /\ job' = Idle /\ body' = body /\ file_is_remote' = FALSE
      BY <2>1 DEF TypeOK
    <2>3. TypeOK'
      BY ONLY <2>1, <2>2, <1>1, TypeOK DEF TypeOK, Idle, mountActive
    <2>4. JobHonest'
      BY ONLY <2>2 DEF JobHonest, Idle
    <2> QED
      BY <2>3, <2>4
  <1>3. Target' = p
    BY DEF Target, NameOrUnsaved
  <1>4. TargetSafe'
    BY <1>1, <1>3 DEF TargetSafe, Holds, Excused
  <1>5. KeptBeforeReplaced' /\ NoTextLost'
    BY <1>1 DEF KeptBeforeReplaced, Stored, NoTextLost, Holds, Late, Excused
  <1>6. WrittenAgrees'
    BY <1>1 DEF WrittenAgrees, Agrees, Holds
  <1> QED BY <1>2, <1>4, <1>5, <1>6

(* A deleted file may have held the passage. *)
LEMMA rmIInv ==
  ASSUME EditorAssumption, IInv, NEW n \in Names, rm(n) PROVE IInv'
  <1> DEFINE p == <<"sd", n>>
  <1> USE DEF IInv, rm, buffer, command
  <1>1. /\ deleted' \in BOOLEAN /\ (deleted => deleted') /\ (Holds(p) => deleted')
    BY Zenon DEF TypeOK
  <1>2. /\ files' \in [Places -> Contents] /\ files'[p] = "missing"
        /\ \A q \in Places \ {p} : files'[q] = files[q]
    BY DEF TypeOK, Write, Contents, Places, Stores
  <1>3. TypeOK' /\ JobHonest'
    BY <1>1, <1>2 DEF TypeOK, JobHonest, Idle, mountActive
  <1>4. TargetSafe'
    BY <1>1, <1>2, TargetTyped DEF TargetSafe, Target, NameOrUnsaved, Holds, Excused, TypeOK
  <1>5. KeptBeforeReplaced' /\ NoTextLost'
    BY <1>1, <1>2 DEF KeptBeforeReplaced, Stored, NoTextLost, Holds, Late, Excused
  <1>6. WrittenAgrees'
    BY <1>2 DEF WrittenAgrees, Agrees, Holds, TypeOK
  <1> QED BY <1>3, <1>4, <1>5, <1>6

(* Nothing happens. *)
LEMMA StutterIInv == ASSUME IInv, UNCHANGED vars PROVE IInv'
  BY DEF IInv, vars, buffer, command, ghosts, TypeOK, JobHonest, TargetSafe, Target, NameOrUnsaved,
         KeptBeforeReplaced, Stored, WrittenAgrees, Agrees, NoTextLost, Holds, Late, Excused, mountActive

(* Every step keeps the invariant. *)
LEMMA NextIInv == ASSUME EditorAssumption, IInv, [Next]_vars PROVE IInv'
  <1>1. CASE UNCHANGED vars
    BY <1>1, StutterIInv
  <1>2. CASE TypeOther \/ TypePassage \/ Delete
    BY <1>2, TypeOtherIInv, TypePassageIInv, DeleteIInv
  <1>3. CASE AutoSaveRemote \/ AutoSaveLocal \/ Clear \/ LoadLocal \/ Fetch \/ Replace
    BY <1>3, AutoSaveRemoteIInv, AutoSaveLocalIInv, ClearIInv, LoadLocalIInv, FetchIInv, ReplaceIInv
  <1>4. CASE umount \/ \E m \in Mounts : mount(m)
    BY <1>4, SwitchIInv DEF umount, mount
  <1>5. CASE \E n \in Names : rm(n)
    BY <1>5, rmIInv
  <1>6. CASE \E c \in {"loop", "shortcut"} : \E n \in Names \cup {None} :
               SaveRemote(c, n) \/ SaveLocal(c, n)
    BY <1>6, SaveRemoteIInv, SaveLocalIInv
  <1>7. CASE \E c \in {"loop", "shortcut"} :
               \E n \in Names, how \in {"edit", "daily", "pick"} : Open(c, n, how)
    BY <1>7, OpenIInv
  <1> QED
    BY <1>1, <1>2, <1>3, <1>4, <1>5, <1>6, <1>7 DEF Next

-----------------------------------------------------------------------------
(* The buffer, the files and the command under way: the inductive          *)
(* invariant, for every set of names and mounts.                           *)
THEOREM Invariance == Spec => []IInv
  <1>1. Init => IInv
    BY InitIInv, PartsAssumption
  <1>2. IInv /\ [Next]_vars => IInv'
    BY NextIInv, PartsAssumption
  <1> QED BY <1>1, <1>2, PTL DEF Spec

-----------------------------------------------------------------------------
(* Least and greatest: what the proofs below need of the natural numbers.  *)

(* A set of natural numbers has a least one. *)
LEMMA LeastNat ==
  ASSUME NEW T \in SUBSET Nat, T # {} PROVE \E x \in T : \A y \in T : x <= y
  <1> DEFINE Below == {1 .. n : n \in T}
             R == StrictSubsetOrdering(Nat)
             S == FiniteSubsetsOf(Nat)
  <1>1. Below \subseteq S /\ Below # {}
    <2>1. ASSUME NEW n \in T PROVE IsFiniteSet(1 .. n) /\ 1 .. n \in SUBSET Nat
      BY FS_Interval
    <2>2. Below # {}
      OBVIOUS
    <2>3. ASSUME NEW b \in Below PROVE b \in S
      BY <2>1 DEF FiniteSubsetsOf
    <2> QED BY <2>2, <2>3
  <1>2. \E b \in Below : \A c \in Below : <<c, b>> \notin R
    <2> HIDE DEF Below, R, S
    <2>1. IsWellFoundedOn(R, S)
      BY FS_StrictSubsetOrderingWellFounded DEF R, S
    <2> QED BY <1>1, <2>1, WFMin
  <1>3. PICK x \in T : \A y \in T : <<1 .. y, 1 .. x>> \notin R
    BY <1>2
  <1>4. ASSUME NEW y \in T, y < x PROVE FALSE
    <2>1. 1 .. y \subseteq 1 .. x /\ x \in 1 .. x /\ x \notin 1 .. y
      BY <1>4
    <2>2. 1 .. x \in SUBSET Nat /\ 1 .. y \in SUBSET Nat
      OBVIOUS
    <2>3. <<1 .. y, 1 .. x>> \in R
      BY <2>1, <2>2 DEF StrictSubsetOrdering
    <2> QED BY <1>3, <2>3
  <1> QED BY <1>4

(* Induction over the natural numbers, for the set of those a property holds of. *)
LEMMA NatSetInduction ==
  ASSUME NEW T, 0 \in T, \A n \in Nat : n \in T => n + 1 \in T
  PROVE  Nat \subseteq T
  <1> SUFFICES ASSUME Nat \ T # {} PROVE FALSE
    OBVIOUS
  <1>1. PICK x \in Nat \ T : \A y \in Nat \ T : x <= y
    BY LeastNat
  <1>2. x # 0 /\ x - 1 \in Nat
    OBVIOUS
  <1>3. x - 1 \in T
    BY <1>1, <1>2
  <1> QED BY <1>2, <1>3

(* Min and Max of the community modules are what their names say. *)
LEMMA MinOfSlots ==
  ASSUME NEW T \in SUBSET Nat, T # {} PROVE Cache!Min(T) \in T
  BY LeastNat DEF Cache!Min

(* A bounded set of natural numbers has a greatest one. *)
LEMMA MaxOfSlots ==
  ASSUME NEW n \in Nat, NEW T \in SUBSET (0 .. n), T # {} PROVE Cache!Max(T) \in T
  <1> DEFINE D == {n - x : x \in T}
  <1>1. D \in SUBSET Nat /\ D # {}
    <2>1. \A x \in T : n - x \in Nat
      OBVIOUS
    <2> QED BY <2>1
  <1>2. PICK d \in D : \A e \in D : d <= e
    <2> HIDE DEF D
    <2> QED BY <1>1, LeastNat
  <1>3. PICK x \in T : d = n - x
    OBVIOUS
  <1>4. ASSUME NEW y \in T PROVE x >= y
    <2>1. n - x <= n - y
      BY <1>2, <1>3
    <2>2. x \in Int /\ y \in Int
      OBVIOUS
    <2> QED BY <2>1, <2>2
  <1> QED BY <1>4 DEF Cache!Max

-----------------------------------------------------------------------------
(* The radio's memory of packets.                                          *)

(* Nothing is heard in the future, and an entry that has not expired is    *)
(* the only one of its packet.                                             *)
HeardOnce ==
  /\ \A p \in Packets : heard[p] <= cache_now
  /\ \A k \in Cache!Slots : msh_seen_packets[k].seen <= cache_now
  /\ \A p \in Packets : \A k, l \in Cache!Hits(p) : k = l

CacheInv == Cache!TypeOK /\ HeardOnce /\ Cache!CacheIsRecent

(* The slot for a new packet is free, or none is and it is one of the oldest. *)
LEMMA WriteSlot ==
  ASSUME Cache!CacheAssumption, Cache!TypeOK
  PROVE  /\ Cache!WriteIndex \in Cache!Slots
         /\ \/ Cache!AllSwept[Cache!WriteIndex].packet = None
            \/ /\ \A k \in Cache!Slots : Cache!AllSwept[k].packet # None
               /\ \A k \in Cache!Slots : msh_seen_packets[Cache!WriteIndex].seen <= msh_seen_packets[k].seen
  <1>1. Cache!Slots = 0 .. MSH_DUP_CACHE_SIZE - 1 /\ 0 \in Cache!Slots /\ Cache!Slots \subseteq Nat
    BY DEF Cache!Slots, Cache!CacheAssumption
  <1>2. CASE Cache!FreeSlots # {}
    <2>1. Cache!WriteIndex = Cache!Min(Cache!FreeSlots)
      BY <1>2 DEF Cache!WriteIndex
    <2>2. Cache!FreeSlots \in SUBSET Nat
      BY <1>1 DEF Cache!FreeSlots
    <2>3. Cache!WriteIndex \in Cache!FreeSlots
      BY <1>2, <2>1, <2>2, MinOfSlots
    <2> QED BY <2>3 DEF Cache!FreeSlots
  <1>3. CASE Cache!FreeSlots = {}
    <2>1. Cache!WriteIndex = Cache!Max(Cache!Oldest)
      BY <1>3 DEF Cache!WriteIndex
    <2>2. \A k \in Cache!Slots : msh_seen_packets[k].seen \in Nat /\ cache_now \in Nat
      BY DEF Cache!TypeOK
    <2>3. PICK k \in Cache!Slots : \A l \in Cache!Slots : msh_seen_packets[k].seen <= msh_seen_packets[l].seen
      <3>1. {msh_seen_packets[k].seen : k \in Cache!Slots} \in SUBSET Nat
        BY <2>2
      <3>2. {msh_seen_packets[k].seen : k \in Cache!Slots} # {}
        BY <1>1
      <3>3. PICK x \in {msh_seen_packets[k].seen : k \in Cache!Slots} :
              \A y \in {msh_seen_packets[k].seen : k \in Cache!Slots} : x <= y
        BY <3>1, <3>2, LeastNat
      <3> QED BY <3>3
    <2>4. k \in Cache!Oldest
      BY <2>2, <2>3 DEF Cache!Oldest, Cache!Age
    <2>5. Cache!Oldest \in SUBSET (0 .. MSH_DUP_CACHE_SIZE - 1)
      BY <1>1 DEF Cache!Oldest
    <2>6. MSH_DUP_CACHE_SIZE - 1 \in Nat
      BY DEF Cache!CacheAssumption
    <2>7. Cache!WriteIndex \in Cache!Oldest
      BY <2>1, <2>4, <2>5, <2>6, MaxOfSlots
    <2>8. \A l \in Cache!Slots : msh_seen_packets[Cache!WriteIndex].seen <= msh_seen_packets[l].seen
      BY <2>2, <2>7 DEF Cache!Oldest, Cache!Age
    <2> QED BY <1>3, <2>7, <2>8 DEF Cache!FreeSlots, Cache!Oldest
  <1> QED BY <1>2, <1>3

(* Time passes: entries expire, and what is no longer recent was not       *)
(* recent before.                                                          *)
LEMMA CacheTick == ASSUME Cache!CacheAssumption, CacheInv, Cache!Tick PROVE CacheInv'
  <1>1. /\ cache_now \in Nat /\ cache_now' = cache_now + 1 /\ MSH_DUP_MAX_AGE \in Nat
        /\ cache_now' \in 1 .. MaxCacheTime
        /\ UNCHANGED <<msh_seen_packets, heard>>
    BY DEF Cache!Tick, CacheInv, Cache!TypeOK, Cache!CacheAssumption
  <1>2. /\ \A k \in Cache!Slots : /\ msh_seen_packets[k].seen \in Nat
                                  /\ Cache!Age(k) \in Int /\ Cache!Age(k)' = Cache!Age(k) + 1
        /\ \A p \in Packets : heard[p] \in Nat
    BY <1>1 DEF CacheInv, Cache!TypeOK, Cache!Age
  <1>3. \A k \in Cache!Slots : Cache!Expired(k) => Cache!Expired(k)'
    BY <1>1, <1>2 DEF Cache!Expired
  <1>4. \A p \in Packets : Cache!Hits(p)' \subseteq Cache!Hits(p)
    BY <1>1, <1>3 DEF Cache!Hits, Cache!Slots
  <1>5. \A p \in Packets : Cache!Recent(p)' => Cache!Recent(p) /\ Cache!Hits(p) \subseteq Cache!Hits(p)'
    <2> SUFFICES ASSUME NEW p \in Packets, Cache!Recent(p)'
                 PROVE  /\ Cache!Recent(p)
                        /\ \A k \in Cache!Hits(p) : k \in Cache!Hits(p)'
      OBVIOUS
    <2>1. heard[p] # 0 /\ cache_now' - heard[p] <= MSH_DUP_MAX_AGE
      BY <1>1 DEF Cache!Recent
    <2>2. ASSUME NEW k \in Cache!Hits(p) PROVE k \in Cache!Hits(p)'
      <3>1. k \in Cache!Slots /\ msh_seen_packets[k].packet = p /\ msh_seen_packets[k].seen = heard[p]
        BY <2>2 DEF Cache!Hits, CacheInv, Cache!CacheIsRecent, Cache!CacheAssumption
      <3>2. ~Cache!Expired(k)'
        BY <1>1, <1>2, <2>1, <3>1 DEF Cache!Expired, Cache!Age
      <3> QED BY <1>1, <3>1, <3>2 DEF Cache!Hits, Cache!Slots
    <2> QED BY <1>1, <1>2, <2>1, <2>2 DEF Cache!Recent
  <1>6. Cache!TypeOK' /\ HeardOnce'
    BY <1>1, <1>2, <1>4 DEF CacheInv, HeardOnce, Cache!TypeOK, Cache!Slots
  <1>7. Cache!CacheIsRecent'
    <2>1. \A k \in Cache!Slots : msh_seen_packets[k].packet # None =>
            msh_seen_packets[k].seen = heard[msh_seen_packets[k].packet] \/ Cache!Expired(k)'
      BY <1>3 DEF CacheInv, Cache!CacheIsRecent
    <2>2. \A p \in Packets : Cache!Recent(p)' =>
            \/ Cache!Hits(p)' # {}
            \/ \A k \in Cache!Slots : msh_seen_packets[k].packet # None /\ msh_seen_packets[k].seen >= heard[p]
      BY <1>5 DEF CacheInv, Cache!CacheIsRecent
    <2> QED BY <1>1, <2>1, <2>2 DEF Cache!CacheIsRecent, Cache!Slots
  <1> QED BY <1>6, <1>7 DEF CacheInv

(* A packet gets a slot of its own: its old one, one that is free or       *)
(* expired, or, when every slot is in use, one of the oldest.              *)
LEMMA CachePut ==
  ASSUME Cache!CacheAssumption, CacheInv, NEW p \in Packets, NEW at \in Cache!Slots,
         heard' = [heard EXCEPT ![p] = cache_now], cache_now' = cache_now,
         msh_seen_packets' \in [Cache!Slots -> [packet : Packets \cup {None}, seen : 0 .. MaxCacheTime]],
         msh_seen_packets'[at] = [packet |-> p, seen |-> cache_now],
         \A k \in Cache!Slots \ {at} :
           /\ msh_seen_packets[k].packet = p => Cache!Expired(k)
           /\ \/ msh_seen_packets'[k] = msh_seen_packets[k]
              \/ Cache!Expired(k) /\ msh_seen_packets'[k] = Cache!Free,
         \/ msh_seen_packets[at].packet \in {p, None} \/ Cache!Expired(at)
         \/ \A k \in Cache!Slots : /\ ~Cache!Expired(k) /\ msh_seen_packets[k].packet # None
                                  /\ msh_seen_packets[at].seen <= msh_seen_packets[k].seen
  PROVE  CacheInv'
  <1>1. /\ cache_now \in 1 .. MaxCacheTime /\ cache_now \in Nat /\ MSH_DUP_MAX_AGE \in Nat
        /\ None \notin Packets
        /\ \A k \in Cache!Slots : msh_seen_packets[k].seen \in Nat /\ msh_seen_packets[k].seen <= cache_now
        /\ \A q \in Packets : /\ heard[q] \in 0 .. MaxCacheTime /\ heard[q] <= cache_now
                             /\ heard'[q] = IF q = p THEN cache_now ELSE heard[q]
    BY DEF CacheInv, Cache!TypeOK, HeardOnce, Cache!CacheAssumption
  <1>2. /\ \A k \in Cache!Slots \ {at} : Cache!Expired(k)' <=> msh_seen_packets'[k] = msh_seen_packets[k] /\ Cache!Expired(k)
        /\ ~Cache!Expired(at)'
    <2>1. ~Cache!Expired(at)'
      BY <1>1 DEF Cache!Expired, Cache!Age
    <2>2. ASSUME NEW k \in Cache!Slots \ {at}
          PROVE  Cache!Expired(k)' <=> msh_seen_packets'[k] = msh_seen_packets[k] /\ Cache!Expired(k)
      <3>1. CASE msh_seen_packets'[k] = msh_seen_packets[k]
        BY <3>1 DEF Cache!Expired, Cache!Age
      <3>2. CASE Cache!Expired(k) /\ msh_seen_packets'[k] = Cache!Free
        BY <3>2 DEF Cache!Expired, Cache!Free
      <3> QED BY <3>1, <3>2
    <2> QED BY <2>1, <2>2
  <1>3. Cache!TypeOK'
    BY <1>1 DEF CacheInv, Cache!TypeOK, Cache!Slots
  <1>4. \A k \in Cache!Slots : /\ msh_seen_packets'[k].seen \in Nat
                             /\ msh_seen_packets'[k].seen <= cache_now
    BY <1>1 DEF Cache!Free
  <1>5. Cache!Hits(p)' \subseteq {at} /\ at \in Cache!Hits(p)'
    BY <1>1, <1>2 DEF Cache!Hits, Cache!Slots, Cache!Free
  <1>6. ASSUME NEW q \in Packets \ {p} PROVE Cache!Hits(q)' = Cache!Hits(q) \ {at}
    BY <1>1, <1>2 DEF Cache!Hits, Cache!Slots, Cache!Free
  <1>7. HeardOnce'
    <2>1. \A q \in Packets : \A k, l \in Cache!Hits(q)' : k = l
      BY <1>5, <1>6 DEF CacheInv, HeardOnce
    <2> QED BY <1>1, <1>4, <2>1 DEF HeardOnce, Cache!Slots
  <1>8. ASSUME NEW k \in Cache!Slots, msh_seen_packets'[k].packet # None
        PROVE  msh_seen_packets'[k].seen = heard'[msh_seen_packets'[k].packet] \/ Cache!Expired(k)'
    <2>1. CASE k = at
      BY <1>1, <2>1
    <2>2. CASE k # at
      <3>1. msh_seen_packets'[k] = msh_seen_packets[k] /\ msh_seen_packets[k].packet \in Packets
        BY <1>8, <2>2 DEF Cache!Free, CacheInv, Cache!TypeOK
      <3>2. msh_seen_packets[k].seen = heard[msh_seen_packets[k].packet] \/ Cache!Expired(k)
        BY <1>8, <3>1 DEF CacheInv, Cache!CacheIsRecent
      <3> QED BY <1>1, <1>2, <2>2, <3>1, <3>2
    <2> QED BY <2>1, <2>2
  <1>9. ASSUME NEW q \in Packets, Cache!Recent(q)'
        PROVE  \/ Cache!Hits(q)' # {}
               \/ \A k \in Cache!Slots : msh_seen_packets'[k].packet # None /\ msh_seen_packets'[k].seen >= heard'[q]
    <2>1. CASE q = p
      BY <1>5, <2>1
    <2>2. CASE q # p /\ Cache!Hits(q) \ {at} # {}
      BY <1>6, <2>2
    <2>3. CASE /\ q # p
               /\ \A k \in Cache!Slots : /\ ~Cache!Expired(k) /\ msh_seen_packets[k].packet # None
                                        /\ heard[q] <= msh_seen_packets[k].seen
      BY <1>1, <2>3
    <2>4. ASSUME q # p, \A k \in Cache!Slots : /\ msh_seen_packets[k].packet # None
                                             /\ msh_seen_packets[k].seen >= heard[q]
          PROVE  \A k \in Cache!Slots : ~Cache!Expired(k)
      <3>1. cache_now - heard[q] <= MSH_DUP_MAX_AGE
        BY <1>1, <1>9, <2>4 DEF Cache!Recent
      <3> QED BY <1>1, <2>4, <3>1 DEF Cache!Expired, Cache!Age
    <2>5. CASE q # p /\ at \in Cache!Hits(q)
      <3>1. msh_seen_packets[at].packet = q /\ ~Cache!Expired(at) /\ msh_seen_packets[at].seen = heard[q]
        BY <1>1, <2>5 DEF Cache!Hits, CacheInv, Cache!CacheIsRecent
      <3> QED BY <1>1, <2>3, <2>5, <3>1
    <2>6. q # p => Cache!Recent(q)
      BY <1>1, <1>9 DEF Cache!Recent
    <2> QED BY <1>1, <2>1, <2>2, <2>3, <2>4, <2>5, <2>6 DEF CacheInv, Cache!CacheIsRecent
  <1>10. Cache!CacheIsRecent'
    BY <1>8, <1>9 DEF Cache!CacheIsRecent, Cache!Slots
  <1> QED BY <1>3, <1>7, <1>10 DEF CacheInv

(* A packet arrives. *)
LEMMA CacheReceive ==
  ASSUME Cache!CacheAssumption, CacheInv, NEW p \in Packets, Cache!Receive(p)
  PROVE  CacheInv'
  <1> DEFINE entry == [packet |-> p, seen |-> cache_now]
             Type == [packet : Packets \cup {None}, seen : 0 .. MaxCacheTime]
  <1>1. heard' = [heard EXCEPT ![p] = cache_now] /\ cache_now' = cache_now
    BY DEF Cache!Receive
  <1>2. entry \in Type /\ Cache!Free \in Type /\ msh_seen_packets \in [Cache!Slots -> Type]
    BY DEF CacheInv, Cache!TypeOK, Cache!Free, Cache!CacheAssumption
  <1>3. CASE Cache!Hits(p) # {}
    <2> DEFINE at == Cache!Min(Cache!Hits(p))
    <2>1. at \in Cache!Hits(p)
      <3>1. Cache!Hits(p) \in SUBSET Nat
        BY DEF Cache!Hits, Cache!Slots, Cache!CacheAssumption
      <3> QED BY <1>3, <3>1, MinOfSlots
    <2>2. msh_seen_packets' = [Cache!Swept(at) EXCEPT ![at] = entry]
      BY <1>3 DEF Cache!Receive, Cache!mshIsDuplicatePacket
    <2> HIDE DEF at
    <2>3. /\ at \in Cache!Slots /\ msh_seen_packets[at].packet = p
          /\ \A k \in Cache!Slots \ {at} : msh_seen_packets[k].packet = p => Cache!Expired(k)
      BY <2>1 DEF Cache!Hits, CacheInv, HeardOnce
    <2>4. msh_seen_packets' = [k \in Cache!Slots |-> IF k = at THEN entry
             ELSE IF k <= at /\ Cache!Expired(k) THEN Cache!Free ELSE msh_seen_packets[k]]
      BY <2>2, <2>3 DEF Cache!Swept
    <2>5. /\ msh_seen_packets' \in [Cache!Slots -> Type] /\ msh_seen_packets'[at] = entry
          /\ \A k \in Cache!Slots \ {at} :
               \/ msh_seen_packets'[k] = msh_seen_packets[k]
               \/ Cache!Expired(k) /\ msh_seen_packets'[k] = Cache!Free
      <3> HIDE DEF entry, Type
      <3> QED BY <1>2, <2>3, <2>4
    <2>6. msh_seen_packets[at].packet \in {p, None}
      BY <2>3
    <2> HIDE DEF entry, Type
    <2>7. msh_seen_packets'[at] = [packet |-> p, seen |-> cache_now]
      BY <2>5 DEF entry
    <2>8. msh_seen_packets' \in [Cache!Slots -> [packet : Packets \cup {None}, seen : 0 .. MaxCacheTime]]
      BY <2>5 DEF Type
    <2>9. \A k \in Cache!Slots \ {at} :
            /\ msh_seen_packets[k].packet = p => Cache!Expired(k)
            /\ \/ msh_seen_packets'[k] = msh_seen_packets[k]
               \/ Cache!Expired(k) /\ msh_seen_packets'[k] = Cache!Free
      BY <2>3, <2>5
    <2>10. at \in Cache!Slots
      BY <2>3
    <2> QED BY <1>1, <2>6, <2>7, <2>8, <2>9, <2>10, CachePut
  <1>4. CASE Cache!Hits(p) = {}
    <2> DEFINE at == Cache!WriteIndex
    <2>1. /\ at \in Cache!Slots
          /\ \/ Cache!AllSwept[at].packet = None
             \/ /\ \A k \in Cache!Slots : Cache!AllSwept[k].packet # None
                /\ \A k \in Cache!Slots : msh_seen_packets[at].seen <= msh_seen_packets[k].seen
      BY WriteSlot DEF CacheInv
    <2>2. msh_seen_packets' = [Cache!AllSwept EXCEPT ![at] = entry]
      BY <1>4 DEF Cache!Receive, Cache!mshIsDuplicatePacket
    <2> HIDE DEF at
    <2>3. \A k \in Cache!Slots : msh_seen_packets[k].packet = p => Cache!Expired(k)
      BY <1>4 DEF Cache!Hits
    <2>4. Cache!AllSwept = [k \in Cache!Slots |-> IF Cache!Expired(k) THEN Cache!Free ELSE msh_seen_packets[k]]
      BY DEF Cache!AllSwept, Cache!Swept, Cache!Slots, Cache!CacheAssumption
    <2>5. /\ msh_seen_packets' \in [Cache!Slots -> Type] /\ msh_seen_packets'[at] = entry
          /\ \A k \in Cache!Slots \ {at} :
               \/ msh_seen_packets'[k] = msh_seen_packets[k]
               \/ Cache!Expired(k) /\ msh_seen_packets'[k] = Cache!Free
      <3> HIDE DEF entry, Type
      <3> QED BY <1>2, <2>1, <2>2, <2>4
    <2>6. \/ msh_seen_packets[at].packet \in {p, None} \/ Cache!Expired(at)
          \/ \A k \in Cache!Slots : /\ ~Cache!Expired(k) /\ msh_seen_packets[k].packet # None
                                   /\ msh_seen_packets[at].seen <= msh_seen_packets[k].seen
      BY <2>1, <2>4 DEF Cache!Free
    <2> QED BY <1>1, <2>1, <2>3, <2>5, <2>6, CachePut
  <1> QED BY <1>3, <1>4

(* The memory of packets: the inductive invariant holds at first and is kept. *)
LEMMA InitCacheInv == ASSUME Cache!CacheAssumption, Cache!Init PROVE CacheInv
  <1>1. /\ cache_now = 1 /\ \A k \in Cache!Slots : msh_seen_packets[k] = Cache!Free
        /\ msh_seen_packets \in [Cache!Slots -> [packet : Packets \cup {None}, seen : 0 .. MaxCacheTime]]
        /\ heard \in [Packets -> 0 .. MaxCacheTime] /\ \A p \in Packets : heard[p] = 0
    BY DEF Cache!Init, Cache!Free, Cache!CacheAssumption
  <1>2. \A k \in Cache!Slots : msh_seen_packets[k].packet = None /\ msh_seen_packets[k].seen = 0
    BY <1>1 DEF Cache!Free
  <1>3. Cache!TypeOK
    BY <1>1 DEF Cache!TypeOK, Cache!CacheAssumption
  <1>4. \A p \in Packets : Cache!Hits(p) = {} /\ ~Cache!Recent(p)
    BY <1>1, <1>2 DEF Cache!Hits, Cache!Recent, Cache!CacheAssumption
  <1> QED BY <1>1, <1>2, <1>3, <1>4 DEF CacheInv, HeardOnce, Cache!CacheIsRecent

(* Every step keeps it. *)
LEMMA NextCacheInv ==
  ASSUME Cache!CacheAssumption, CacheInv, [Cache!Next]_(Cache!vars) PROVE CacheInv'
  <1>1. CASE UNCHANGED Cache!vars
    BY <1>1 DEF Cache!vars, CacheInv, Cache!TypeOK, HeardOnce, Cache!CacheIsRecent, Cache!Hits, Cache!Expired,
                Cache!Age, Cache!Recent, Cache!Slots
  <1> QED BY <1>1, CacheTick, CacheReceive DEF Cache!Next

-----------------------------------------------------------------------------
(* The history of the command prompt.                                      *)

(* The commands kept after each line entered.                              *)
KeptBy(s, kept) ==
  /\ kept \in [0 .. Len(s) -> Seq(Commands)]
  /\ kept[0] = << >>
  /\ \A k \in 1 .. Len(s) :
       kept[k] = IF s[k] \notin Commands \/ History!Repeats(kept[k - 1], s[k]) THEN kept[k - 1]
                 ELSE Append(kept[k - 1], s[k])

HistoryInv ==
  /\ History!TypeOK
  /\ \E kept : KeptBy(entered, kept) /\ cmd_history = History!Recent(kept[Len(entered)])

(* The reference is what is kept after the last line.                      *)
LEMMA DistinctIsKept ==
  ASSUME NEW s \in Seq(History!Lines), NEW kept, KeptBy(s, kept)
  PROVE  History!Distinct(s) = kept[Len(s)]
  <1> DEFINE Step(f, k) == IF k = 0 THEN << >>
                           ELSE IF s[k] \notin Commands \/ History!Repeats(f[k - 1], s[k]) THEN f[k - 1]
                           ELSE Append(f[k - 1], s[k])
             f == CHOOSE f : f = [k \in 0 .. Len(s) |-> Step(f, k)]
             Same == {n \in Nat : n <= Len(s) => f[n] = kept[n]}
  <1>1. History!Distinct(s) = f[Len(s)]
    BY DEF History!Distinct
  <1>2. kept = [k \in 0 .. Len(s) |-> Step(kept, k)]
    <2>1. \A k \in 0 .. Len(s) : k = 0 \/ k \in 1 .. Len(s)
      OBVIOUS
    <2>2. \A k \in 0 .. Len(s) : kept[k] = Step(kept, k)
      BY <2>1 DEF KeptBy
    <2>3. kept = [k \in 0 .. Len(s) |-> kept[k]]
      BY DEF KeptBy
    <2> HIDE DEF Step
    <2> QED BY <2>2, <2>3
  <1>3. f = [k \in 0 .. Len(s) |-> Step(f, k)]
    BY <1>2
  <1> HIDE DEF f
  <1>4. \A k \in 0 .. Len(s) : f[k] = Step(f, k) /\ kept[k] = Step(kept, k)
    BY <1>2, <1>3
  <1>5. Len(s) \in Nat
    OBVIOUS
  <1>6. 0 \in Same
    BY <1>4, <1>5
  <1>7. ASSUME NEW n \in Nat, n \in Same PROVE n + 1 \in Same
    BY <1>4, <1>5, <1>7
  <1>8. Len(s) \in Same
    <2> HIDE DEF Same
    <2> QED BY <1>5, <1>6, <1>7, NatSetInduction
  <1> QED BY <1>1, <1>5, <1>8

(* The last lines of a list, and what becomes of them when one is added.   *)
LEMMA RecentLines ==
  ASSUME History!HistoryAssumption, NEW d \in Seq(Commands)
  PROVE  /\ History!Recent(d) \in Seq(Commands) /\ Len(History!Recent(d)) <= CMD_HISTORY_CAP
         /\ History!Recent(d) = << >> <=> d = << >>
         /\ d # << >> => History!Last(History!Recent(d)) = History!Last(d)
  <1> DEFINE first == IF Len(d) > CMD_HISTORY_CAP THEN Len(d) - CMD_HISTORY_CAP + 1 ELSE 1
  <1>1. History!Recent(d) = SubSeq(d, first, Len(d)) /\ Len(d) \in Nat /\ CMD_HISTORY_CAP \in Nat \ {0}
    BY DEF History!Recent, History!HistoryAssumption
  <1>2. /\ first \in 1 .. Len(d) + 1
        /\ Len(d) - first + 1 \in 0 .. CMD_HISTORY_CAP
        /\ Len(d) - first + 1 = 0 <=> Len(d) = 0
    BY <1>1
  <1> HIDE DEF first
  <1>3. /\ SubSeq(d, first, Len(d)) \in Seq(Commands)
        /\ Len(SubSeq(d, first, Len(d))) = Len(d) - first + 1
        /\ \A k \in 1 .. Len(d) - first + 1 : SubSeq(d, first, Len(d))[k] = d[first + k - 1]
    BY <1>1, <1>2, SubSeqProperties
  <1>4. d = << >> <=> Len(d) = 0
    BY EmptySeq
  <1>5. SubSeq(d, first, Len(d)) = << >> <=> Len(d) - first + 1 = 0
    BY <1>3, EmptySeq
  <1>6. d # << >> => History!Last(SubSeq(d, first, Len(d))) = History!Last(d)
    BY <1>1, <1>2, <1>3, <1>4 DEF History!Last
  <1> QED BY <1>1, <1>2, <1>3, <1>4, <1>5, <1>6

(* The two cases of its definition.                                        *)
LEMMA RecentIs ==
  ASSUME History!HistoryAssumption, NEW s \in Seq(Commands), NEW n \in Nat, Len(s) = n
  PROVE  /\ n > CMD_HISTORY_CAP => History!Recent(s) = SubSeq(s, n - CMD_HISTORY_CAP + 1, n)
         /\ n <= CMD_HISTORY_CAP => History!Recent(s) = SubSeq(s, 1, n)
  BY DEF History!Recent, History!HistoryAssumption

(* A line more pushes out the oldest when the ring is full. *)
LEMMA RecentMore ==
  ASSUME History!HistoryAssumption, NEW d \in Seq(Commands), NEW new \in Commands
  PROVE  History!Recent(Append(d, new)) =
           IF Len(History!Recent(d)) < CMD_HISTORY_CAP THEN Append(History!Recent(d), new)
           ELSE Append(Tail(History!Recent(d)), new)
  <1> DEFINE n == Len(d)
             e == Append(d, new)
             r == History!Recent(d)
             R == History!Recent(e)
  <1>1. /\ n \in Nat /\ CMD_HISTORY_CAP \in Nat \ {0}
        /\ e \in Seq(Commands) /\ Len(e) = n + 1
        /\ \A k \in 1 .. n : e[k] = d[k]
        /\ e[n + 1] = new
    BY AppendProperties DEF History!HistoryAssumption
  <1>2. CASE n < CMD_HISTORY_CAP
    <2> HIDE DEF e
    <2>1. r = d
      BY <1>1, <1>2, SubSeqFull, RecentIs
    <2>2. n + 1 <= CMD_HISTORY_CAP /\ n + 1 \in Nat
      BY <1>1, <1>2
    <2>3. R = e
      BY <1>1, <2>2, SubSeqFull, RecentIs
    <2> QED BY <1>2, <2>1, <2>3 DEF e
  <1>3. CASE n >= CMD_HISTORY_CAP
    <2> DEFINE c == CMD_HISTORY_CAP
    <2>1. r = SubSeq(d, n - c + 1, n) /\ R = SubSeq(e, n - c + 2, n + 1)
      <3> HIDE DEF e
      <3>1. n + 1 > c /\ n + 1 \in Nat /\ n + 1 - c + 1 = n - c + 2
        BY <1>1, <1>3
      <3>2. n > c \/ (n = c /\ n - c + 1 = 1)
        BY <1>1, <1>3
      <3>3. R = SubSeq(e, n - c + 2, n + 1)
        BY <1>1, <3>1, RecentIs
      <3> QED BY <1>1, <1>3, <3>2, <3>3, RecentIs
    <2> HIDE DEF e, r, R
    <2>2. /\ r \in Seq(Commands) /\ Len(r) = c
          /\ \A k \in 1 .. c : r[k] = d[n - c + k]
      <3>1. n - c + 1 \in Int /\ n \in Int /\ n - (n - c + 1) + 1 = c /\ \A k \in 1 .. c : n - c + 1 + k - 1 = n - c + k
        BY <1>1
      <3>2. \A k \in n - c + 1 .. n : d[k] \in Commands
        BY <1>1, <1>3
      <3> QED BY <1>1, <1>3, <2>1, <3>1, <3>2, SubSeqProperties
    <2>3. /\ R \in Seq(Commands) /\ Len(R) = c
          /\ \A k \in 1 .. c : R[k] = e[n - c + 1 + k]
      <3>1. /\ n - c + 2 \in Int /\ n + 1 \in Int /\ n + 1 - (n - c + 2) + 1 = c
            /\ \A k \in 1 .. c : n - c + 2 + k - 1 = n - c + 1 + k
        BY <1>1
      <3>2. \A k \in n - c + 2 .. n + 1 : e[k] \in Commands
        BY <1>1, <1>3
      <3> QED BY <1>1, <1>3, <2>1, <3>1, <3>2, SubSeqProperties
    <2>4. /\ Tail(r) \in Seq(Commands) /\ Len(Tail(r)) = c - 1
          /\ \A k \in 1 .. c - 1 : Tail(r)[k] = r[k + 1]
      <3>1. r # << >>
        BY <1>1, <2>2
      <3> QED BY <2>2, <3>1, HeadTailProperties
    <2>5. /\ Append(Tail(r), new) \in Seq(Commands) /\ Len(Append(Tail(r), new)) = c
          /\ \A k \in 1 .. c - 1 : Append(Tail(r), new)[k] = Tail(r)[k]
          /\ Append(Tail(r), new)[c] = new
      BY <1>1, <2>4, AppendProperties
    <2>6. \A k \in 1 .. c : Append(Tail(r), new)[k] = R[k]
      <3> SUFFICES ASSUME NEW k \in 1 .. c PROVE Append(Tail(r), new)[k] = R[k]
        OBVIOUS
      <3>1. CASE k = c
        <4>1. n - c + 1 + k = n + 1
          BY <1>1, <3>1
        <4> QED BY <1>1, <2>3, <2>5, <3>1, <4>1
      <3>2. CASE k # c
        <4>1. n \in Nat /\ c \in Nat /\ n >= c /\ k \in Nat /\ 1 <= k /\ k <= c /\ k # c
          BY <1>1, <1>3, <3>2
        <4>2. k \in 1 .. c - 1 /\ k + 1 \in 1 .. c /\ n - c + (k + 1) = n - c + 1 + k /\ n - c + 1 + k \in 1 .. n
          <5> HIDE DEF n, c
          <5> QED BY ONLY <4>1
        <4>3. Append(Tail(r), new)[k] = r[k + 1]
          BY <2>4, <2>5, <4>2
        <4>4. r[k + 1] = d[n - c + 1 + k]
          BY <2>2, <4>2
        <4>5. R[k] = d[n - c + 1 + k]
          BY <1>1, <2>3, <4>2
        <4> QED BY <4>3, <4>4, <4>5
      <3> QED BY <3>1, <3>2
    <2>7. Append(Tail(r), new) = R
      BY <2>3, <2>5, <2>6, SeqEqual
    <2> QED BY <1>1, <1>3, <2>2, <2>7 DEF r, R, e
  <1> QED BY <1>1, <1>2, <1>3

(* The history begins empty. *)
LEMMA InitHistoryInv == ASSUME History!HistoryAssumption, History!Init PROVE HistoryInv
  <1> DEFINE kept == [k \in 0 .. 0 |-> << >>]
  <1>1. entered = << >> /\ cmd_history = << >> /\ Len(entered) = 0
    BY DEF History!Init
  <1>2. History!TypeOK
    <2>1. in_prompt \in BOOLEAN
      BY Zenon DEF History!Init
    <2>2. << >> \in Seq(Commands) /\ << >> \in Seq(History!Lines)
      OBVIOUS
    <2> QED
      BY <1>1, <2>1, <2>2 DEF History!Init, History!TypeOK, History!HistoryAssumption, History!Lines,
                              History!cmd_history_count
  <1>3. KeptBy(entered, kept)
    BY <1>1 DEF KeptBy
  <1>4. cmd_history = History!Recent(kept[Len(entered)])
    <2>1. kept[Len(entered)] = << >> /\ << >> \in Seq(Commands)
      BY <1>1
    <2> QED BY <1>1, <2>1, RecentLines
  <1> QED BY <1>2, <1>3, <1>4 DEF HistoryInv

(* Enter: the line is kept or not, in the history as in the reference. *)
LEMMA EnterHistory ==
  ASSUME History!HistoryAssumption, HistoryInv, History!Enter PROVE HistoryInv'
  <1>1. PICK kept : KeptBy(entered, kept) /\ cmd_history = History!Recent(kept[Len(entered)])
    BY DEF HistoryInv
  <1> DEFINE n == Len(entered)
             d == kept[n]
             new == IF cmd_buf \notin Commands \/ History!Repeats(d, cmd_buf) THEN d ELSE Append(d, cmd_buf)
             kept2 == [k \in 0 .. n + 1 |-> IF k = n + 1 THEN new ELSE kept[k]]
  <1>2. /\ n \in Nat /\ d \in Seq(Commands) /\ entered \in Seq(History!Lines) /\ cmd_buf \in History!Lines
        /\ entered' = Append(entered, cmd_buf) /\ Len(entered') = n + 1 /\ n < MaxEntered
        /\ \A k \in 1 .. n : entered'[k] = entered[k]
        /\ entered'[n + 1] = cmd_buf
        /\ entered' \in Seq(History!Lines)
    BY <1>1, AppendProperties, SMTT(20) DEF KeptBy, History!Enter, HistoryInv, History!TypeOK
  <1>3. new \in Seq(Commands)
    BY <1>2
  <1>4. KeptBy(entered', kept2)
    <2> HIDE DEF new
    <2>1. kept2 \in [0 .. Len(entered') -> Seq(Commands)]
      BY <1>1, <1>2, <1>3 DEF KeptBy
    <2>2. kept2[0] = << >>
      BY <1>1, <1>2 DEF KeptBy
    <2>3. ASSUME NEW k \in 1 .. n + 1
          PROVE  kept2[k] = IF entered'[k] \notin Commands \/ History!Repeats(kept2[k - 1], entered'[k])
                            THEN kept2[k - 1] ELSE Append(kept2[k - 1], entered'[k])
      <3>1. kept2[k - 1] = kept[k - 1]
        BY <1>2
      <3>2. CASE k = n + 1
        <4>1. kept2[k] = new /\ kept[k - 1] = d /\ entered'[k] = cmd_buf
          BY <1>2, <3>2
        <4> QED BY <3>1, <4>1 DEF new
      <3>3. CASE k \in 1 .. n
        BY <1>1, <1>2, <3>1, <3>3 DEF KeptBy
      <3> QED BY <1>2, <3>2, <3>3
    <2> QED BY <1>2, <2>1, <2>2, <2>3 DEF KeptBy
  <1>5. cmd_history' = History!Recent(kept2[Len(entered')])
    <2>1. kept2[Len(entered')] = new
      BY <1>2
    <2>2. /\ cmd_history = History!Recent(d) /\ cmd_history' = History!Added(cmd_buf)
          /\ cmd_history = << >> <=> d = << >>
          /\ d # << >> => History!Last(cmd_history) = History!Last(d)
          /\ cmd_buf \in Blanks <=> cmd_buf \notin Commands
          /\ Len(cmd_history) \in Nat
      BY <1>1, <1>2, RecentLines DEF History!Enter, History!Lines, History!HistoryAssumption
    <2>3. CASE cmd_buf \notin Commands \/ History!Repeats(d, cmd_buf)
      BY <2>1, <2>2, <2>3 DEF History!Added, History!Repeats
    <2>4. CASE cmd_buf \in Commands /\ ~History!Repeats(d, cmd_buf)
      BY <1>2, <2>1, <2>2, <2>4, RecentMore, ZenonT(40) DEF History!Added, History!Repeats,
                                                            History!cmd_history_count
    <2> QED BY <2>3, <2>4
  <1>6. cmd_history' \in Seq(Commands) /\ Len(cmd_history') <= CMD_HISTORY_CAP
    <2>1. kept2[Len(entered')] \in Seq(Commands)
      BY <1>2, <1>3
    <2> QED BY <1>5, <2>1, RecentLines
  <1>7. History!TypeOK'
    <2>1. CASE cmd_buf \in Blanks
      <3>1. cmd_history' = cmd_history /\ UNCHANGED <<cmd_history_nav, cmd_history_draft>>
        BY <2>1 DEF History!Enter, History!Added
      <3> QED BY <1>2, <1>6, <3>1 DEF History!Enter, HistoryInv, History!TypeOK, History!cmd_history_count,
                    History!HistoryAssumption, History!Lines
    <2>2. CASE cmd_buf \notin Blanks
      <3>1. cmd_history_nav' = -1 /\ cmd_history_draft' = Empty
        BY <2>2 DEF History!Enter, History!ResetBrowse
      <3>2. Len(cmd_history') \in Nat
        BY <1>6
      <3> QED BY <1>2, <1>6, <3>1, <3>2 DEF History!Enter, HistoryInv, History!TypeOK,
                 History!cmd_history_count,
                    History!HistoryAssumption, History!Lines
    <2> QED BY <2>1, <2>2
  <1> HIDE DEF kept2
  <1> QED BY <1>4, <1>5, <1>7 DEF HistoryInv

(* What enters no line leaves the history as it is, and a place browsed to *)
(* in it.                                                                  *)
LEMMA BrowseHistory ==
  ASSUME History!HistoryAssumption, HistoryInv,
         \/ History!OpenPrompt \/ History!Leave \/ History!Older \/ History!Newer
         \/ \E typed \in History!Lines : History!Type(typed)
  PROVE  HistoryInv'
  <1>1. cmd_history' = cmd_history /\ entered' = entered
    BY DEF History!OpenPrompt, History!Leave, History!Older, History!Newer, History!Type
  <1>2. History!TypeOK'
    <2> USE DEF HistoryInv, History!TypeOK, History!HistoryAssumption, History!Lines, History!cmd_history_count
    <2>1. CASE History!OpenPrompt \/ History!Leave
      <3>1. in_prompt' \in BOOLEAN
        BY <2>1, Zenon DEF History!OpenPrompt, History!Leave
      <3>2. \/ cmd_buf' = cmd_buf /\ cmd_history_nav' = cmd_history_nav /\ cmd_history_draft' = cmd_history_draft
            \/ cmd_buf' = Empty /\ cmd_history_nav' = -1 /\ cmd_history_draft' = Empty
        BY <2>1 DEF History!OpenPrompt, History!Leave, History!ResetBrowse
      <3>3. Len(cmd_history) \in Nat
        OBVIOUS
      <3> QED BY <1>1, <3>1, <3>2, <3>3
    <2>2. CASE \E typed \in History!Lines : History!Type(typed)
      BY <1>1, <2>2 DEF History!Type
    <2>3. CASE History!Older \/ History!Newer
      <3> DEFINE n == Len(cmd_history)
      <3>1. n \in Nat \ {0} /\ cmd_history_nav \in -1 .. n - 1
        BY <2>3, EmptySeq DEF History!Older, History!Newer
      <3>2. \/ cmd_history_nav' \in 0 .. n - 1 /\ cmd_buf' = cmd_history[cmd_history_nav' + 1]
            \/ cmd_history_nav' = -1 /\ cmd_buf' = cmd_history_draft
        <4>1. CASE History!Older
          <5>1. cmd_history_nav # 0 /\ cmd_history_nav' = IF cmd_history_nav < 0 THEN n - 1 ELSE cmd_history_nav - 1
            BY <4>1 DEF History!Older
          <5>2. cmd_history_nav' \in 0 .. n - 1
            BY <3>1, <5>1
          <5> QED BY <4>1, <5>2 DEF History!Older
        <4>2. CASE History!Newer
          BY <3>1, <4>2 DEF History!Newer
        <4> QED BY <2>3, <4>1, <4>2
      <3>3. cmd_buf' \in Commands \cup Blanks
        BY <3>2
      <3> QED BY <1>1, <2>3, <3>1, <3>2, <3>3 DEF History!Older, History!Newer
    <2> QED BY <2>1, <2>2, <2>3
  <1> QED BY <1>1, <1>2 DEF HistoryInv

(* The history's inductive invariant, and what it is for. *)
LEMMA NextHistoryInv ==
  ASSUME History!HistoryAssumption, HistoryInv, [History!Next]_(History!vars) PROVE HistoryInv'
  <1>1. CASE UNCHANGED History!vars
    BY <1>1 DEF History!vars, HistoryInv, History!TypeOK, History!cmd_history_count
  <1> QED BY <1>1, EnterHistory, BrowseHistory DEF History!Next

(* The ring is what the reference says. *)
LEMMA HistoryKept == ASSUME HistoryInv PROVE History!HistoryIsRecent
  <1>1. cmd_history = History!Recent(History!Distinct(entered))
    BY DistinctIsKept DEF HistoryInv, History!TypeOK
  <1> QED BY <1>1 DEF HistoryInv, History!TypeOK, History!HistoryIsRecent, History!cmd_history_count

-----------------------------------------------------------------------------
(* The pickers.  As long as no task has written over the list or the rows  *)
(* since the picker was drawn, the marked row shows the entry that Enter   *)
(* takes, and an Enter under way has that entry.                           *)

\* The row that is marked is the entry the picker selects.
Marked ==
  Picker!cmdPickerIsActive =>
    /\ cmd_picker_selected < Picker!cmd_picker_count
    /\ marked = Picker!NameAt(Picker!ListOf(cmd_picker_mode), cmd_picker_indices[cmd_picker_selected + 1])

\* What Enter has done so far was done with the entry of the row it was pressed at.
Entered ==
  /\ opened.at \in {"chosen", "loaded"} => opened.row = Picker!NameAt(file_list, opened.ref)
  /\ opened.at \in {"loaded", "done"} => opened.loaded = opened.row
  /\ opened.at = "done" => opened.named = opened.row

PickerInv ==
  /\ Picker!TypeOK
  /\ opened.at \in {"chosen", "loaded"} => opened.ref > 0
  /\ ~disturbed => Marked /\ Entered

\* A loop of n rounds over values of S, and its value after each round.
Turns(S, n, round) == round \in [1 .. n -> [S -> S]]
HasValues(S, b, n, round) ==
  \E g \in [0 .. n -> S] : g[0] = b /\ \A k \in 1 .. n : g[k] = round[k][g[k - 1]]

(* A loop over a list has a value after each round. *)
LEMMA Rounds ==
  ASSUME NEW S, NEW b \in S, NEW n \in Nat, NEW round, Turns(S, n, round)
  PROVE  HasValues(S, b, n, round)
  <1> DEFINE Upto(m, g) == g[0] = b /\ \A k \in 1 .. m : g[k] = round[k][g[k - 1]]
             T == {m \in Nat : m <= n => \E g \in [0 .. m -> S] : Upto(m, g)}
  <1>1. 0 \in T
    <2>1. [k \in 0 .. 0 |-> b] \in [0 .. 0 -> S] /\ Upto(0, [k \in 0 .. 0 |-> b])
      OBVIOUS
    <2> QED BY <2>1
  <1>2. ASSUME NEW m \in Nat, m \in T PROVE m + 1 \in T
    <2> SUFFICES ASSUME m + 1 <= n PROVE \E h \in [0 .. m + 1 -> S] : Upto(m + 1, h)
      OBVIOUS
    <2>1. PICK g \in [0 .. m -> S] : Upto(m, g)
      BY <1>2
    <2> DEFINE v == round[m + 1][g[m]]
               h == [k \in 0 .. m + 1 |-> IF k = m + 1 THEN v ELSE g[k]]
    <2>2. m + 1 \in 1 .. n /\ g[m] \in S
      BY <2>1
    <2>3. v \in S
      BY <2>2 DEF Turns
    <2>4. h \in [0 .. m + 1 -> S]
      BY <2>1, <2>3
    <2>5. \A k \in 0 .. m : h[k] = g[k]
      OBVIOUS
    <2>6. h[m + 1] = v
      OBVIOUS
    <2>7. h[0] = b
      BY <2>1, <2>5
    <2>8. ASSUME NEW k \in 1 .. m + 1 PROVE h[k] = round[k][h[k - 1]]
      <3>1. CASE k = m + 1
        BY <2>5, <2>6, <3>1
      <3>2. CASE k # m + 1
        <4>1. k \in 1 .. m /\ k - 1 \in 0 .. m /\ k \in 0 .. m
          BY <3>2
        <4>2. h[k] = g[k] /\ h[k - 1] = g[k - 1]
          BY <2>5, <4>1
        <4> QED BY <2>1, <4>1, <4>2
      <3> QED BY <3>1, <3>2
    <2> HIDE DEF h
    <2> QED BY <2>4, <2>7, <2>8
  <1> HIDE DEF T
  <1>3. n \in T
    BY <1>1, <1>2, NatSetInduction
  <1> USE DEF T
  <1> QED BY <1>3 DEF HasValues

(* The places of the files are places. *)
LEMMA FileRefsAre == ASSUME NEW n \in Nat PROVE Picker!FileRefs(n) \in Seq(Nat \ {0})
  <1> DEFINE S == Seq(Nat \ {0})
             round == [i \in 1 .. n |-> [s \in S |->
                         IF file_list[i] \notin Dirs THEN Append(s, i) ELSE s]]
             Row(f, i) == IF i = 0 THEN << >>
                          ELSE IF file_list[i] \notin Dirs THEN Append(f[i - 1], i) ELSE f[i - 1]
             f == CHOOSE f : f = [i \in 0 .. n |-> Row(f, i)]
  <1>1. Picker!FileRefs(n) = f[n]
    BY DEF Picker!FileRefs
  <1>2. round \in [1 .. n -> [S -> S]] /\ << >> \in S
    <2>1. ASSUME NEW s \in S, NEW i \in 1 .. n PROVE Append(s, i) \in S
      OBVIOUS
    <2> QED BY <2>1
  <1>3. PICK g \in [0 .. n -> S] : g[0] = << >> /\ \A k \in 1 .. n : g[k] = round[k][g[k - 1]]
    <2> DEFINE none == << >>
    <2>1. none \in S /\ Turns(S, n, round)
      BY <1>2 DEF Turns
    <2> HIDE DEF S, round, none
    <2>2. HasValues(S, none, n, round)
      BY <2>1, Rounds
    <2> USE DEF none
    <2> QED BY <2>2 DEF HasValues
  <1>4. \A k \in 1 .. n : g[k] = Row(g, k)
    <2> SUFFICES ASSUME NEW k \in 1 .. n PROVE g[k] = Row(g, k)
      OBVIOUS
    <2>1. g[k - 1] \in S /\ k # 0
      BY <1>3
    <2>2. g[k] = round[k][g[k - 1]]
      BY <1>3
    <2> HIDE DEF S
    <2> QED BY <2>1, <2>2
  <1>5. g = [i \in 0 .. n |-> Row(g, i)]
    <2>1. \A i \in 0 .. n : g[i] = Row(g, i)
      <3>1. \A i \in 0 .. n : i = 0 \/ i \in 1 .. n
        OBVIOUS
      <3>2. g[0] = Row(g, 0)
        BY <1>3
      <3> HIDE DEF Row
      <3> QED BY <1>4, <3>1, <3>2
    <2>2. g = [i \in 0 .. n |-> g[i]]
      BY <1>3
    <2> HIDE DEF Row, S
    <2> QED BY <2>1, <2>2
  <1>6. f = [i \in 0 .. n |-> Row(f, i)]
    <2> HIDE DEF Row
    <2> QED BY <1>5
  <1> HIDE DEF f
  <1> DEFINE T == {m \in Nat : m <= n => f[m] \in S}
  <1>7. 0 \in T
    <2>1. f[0] = Row(f, 0)
      BY <1>6
    <2>2. Row(f, 0) = << >>
      OBVIOUS
    <2> HIDE DEF S
    <2> QED BY <1>2, <2>1, <2>2
  <1>8. ASSUME NEW m \in Nat, m \in T PROVE m + 1 \in T
    <2> SUFFICES ASSUME m + 1 <= n PROVE f[m + 1] \in S
      OBVIOUS
    <2>1. f[m] \in S
      BY <1>8
    <2>2. m + 1 \in 0 .. n /\ (m + 1) - 1 = m /\ m + 1 # 0
      OBVIOUS
    <2>3. f[m + 1] = Row(f, m + 1)
      <3> HIDE DEF Row
      <3> QED BY <1>6, <2>2
    <2>4. Append(f[m], m + 1) \in S
      BY <2>1
    <2> HIDE DEF S
    <2> QED BY <2>1, <2>2, <2>4, <2>3
  <1> HIDE DEF T
  <1>9. n \in T
    BY <1>7, <1>8, NatSetInduction
  <1> USE DEF T
  <1> QED BY <1>1, <1>9

(* A network that is added is listed once, while there is room. *)
LEMMA AddKeeps ==
  ASSUME Picker!PickerAssumption, NEW s \in Seq(Networks), Len(s) <= WIFI_SCAN_PICKER_MAX,
         Picker!IsInjective(s),
         NEW ssid \in Networks
  PROVE  /\ Picker!AddResult(s, ssid) \in Seq(Networks) /\ Len(Picker!AddResult(s, ssid)) <= WIFI_SCAN_PICKER_MAX
         /\ Picker!IsInjective(Picker!AddResult(s, ssid))
  <1> DEFINE r == Append(s, ssid)
  <1>1. CASE ssid \notin Picker!ToSet(s) /\ Len(s) < WIFI_SCAN_PICKER_MAX
    <2>1. /\ r \in Seq(Networks) /\ Len(r) = Len(s) + 1 /\ (\A i \in 1 .. Len(s) : r[i] = s[i])
          /\ r[Len(s) + 1] = ssid
      BY AppendProperties
    <2>2. \A i \in 1 .. Len(s) : s[i] # ssid
      BY <1>1 DEF Picker!ToSet
    <2>3. DOMAIN s = 1 .. Len(s) /\ DOMAIN r = 1 .. Len(s) + 1 /\ Len(s) \in Nat
      <3> HIDE DEF r
      <3> QED BY <2>1
    <2>4. ASSUME NEW a \in DOMAIN r, NEW b \in DOMAIN r, r[a] = r[b] PROVE a = b
      <3> HIDE DEF r
      <3>1. \A i \in DOMAIN r : i \in 1 .. Len(s) \/ i = Len(s) + 1
        BY <2>3
      <3> QED BY <2>1, <2>2, <2>3, <2>4, <3>1 DEF Picker!IsInjective
    <2>5. Picker!AddResult(s, ssid) = r /\ Picker!IsInjective(r)
      BY <1>1, <2>4 DEF Picker!AddResult, Picker!IsInjective
    <2>6. Len(s) + 1 <= WIFI_SCAN_PICKER_MAX
      BY <1>1, <2>3 DEF Picker!PickerAssumption
    <2> QED BY <2>1, <2>5, <2>6
  <1>2. CASE ~(ssid \notin Picker!ToSet(s) /\ Len(s) < WIFI_SCAN_PICKER_MAX)
    BY <1>2 DEF Picker!AddResult
  <1> QED BY <1>1, <1>2

(* A scan's networks fit their list and are listed once each. *)
LEMMA FoundOnce ==
  ASSUME Picker!PickerAssumption, NEW h \in Seq(Networks)
  PROVE  Picker!Found(h) \in Seq(Networks) /\ Len(Picker!Found(h)) <= WIFI_SCAN_PICKER_MAX /\ Picker!IsInjective(Picker!Found(h))
  <1> DEFINE n == Len(h)
             S == {s \in Seq(Networks) : Len(s) <= WIFI_SCAN_PICKER_MAX /\ Picker!IsInjective(s)}
             round == [i \in 1 .. n |-> [s \in S |-> Picker!AddResult(s, h[i])]]
             Row(f, i) == IF i = 0 THEN << >> ELSE Picker!AddResult(f[i - 1], h[i])
             f == CHOOSE f : f = [i \in 0 .. n |-> Row(f, i)]
  <1>1. Picker!Found(h) = f[n] /\ n \in Nat
    BY DEF Picker!Found
  <1>2. \A i \in 1 .. n : \A s \in S : Picker!AddResult(s, h[i]) \in S
    <2> SUFFICES ASSUME NEW i \in 1 .. n, NEW s \in S PROVE Picker!AddResult(s, h[i]) \in S
      OBVIOUS
    <2>1. h[i] \in Networks
      OBVIOUS
    <2> QED BY <2>1, AddKeeps
  <1>3. round \in [1 .. n -> [S -> S]] /\ << >> \in S
    <2>1. << >> \in S
      <3>1. << >> \in Seq(Networks) /\ Len(<< >>) = 0 /\ DOMAIN << >> = {}
        BY EmptySeq
      <3>2. 0 <= WIFI_SCAN_PICKER_MAX
        BY DEF Picker!PickerAssumption
      <3> QED BY <3>1, <3>2 DEF Picker!IsInjective
    <2> HIDE DEF S
    <2> QED BY <1>2, <2>1
  <1>4. PICK g \in [0 .. n -> S] : g[0] = << >> /\ \A k \in 1 .. n : g[k] = round[k][g[k - 1]]
    <2> DEFINE none == << >>
    <2>1. none \in S /\ n \in Nat /\ Turns(S, n, round)
      BY <1>1, <1>3 DEF Turns
    <2> HIDE DEF S, round, none, n, Row, f
    <2>2. HasValues(S, none, n, round)
      BY <2>1, Rounds
    <2> USE DEF none
    <2> QED BY <2>2 DEF HasValues
  <1>5. g = [i \in 0 .. n |-> Row(g, i)]
    <2>1. \A i \in 0 .. n : g[i] = Row(g, i)
      <3>1. \A i \in 0 .. n : i = 0 \/ i \in 1 .. n
        BY <1>1
      <3>2. g[0] = Row(g, 0)
        BY <1>4
      <3>3. \A k \in 1 .. n : g[k] = Row(g, k)
        <4> SUFFICES ASSUME NEW k \in 1 .. n PROVE g[k] = Row(g, k)
          OBVIOUS
        <4>1. g[k - 1] \in S /\ k # 0
          <5>1. k - 1 \in 0 .. n
            BY <1>1
          <5> HIDE DEF S, n
          <5> QED BY <1>4, <5>1
        <4>2. g[k] = round[k][g[k - 1]]
          BY <1>4
        <4> HIDE DEF S, n
        <4> QED BY <4>1, <4>2
      <3> HIDE DEF Row
      <3> QED BY <3>1, <3>2, <3>3
    <2>2. g = [i \in 0 .. n |-> g[i]]
      BY <1>4
    <2> HIDE DEF Row, S, n
    <2> QED BY <2>1, <2>2
  <1>6. f = [i \in 0 .. n |-> Row(f, i)]
    <2> HIDE DEF Row, n
    <2> QED BY <1>5
  <1> HIDE DEF f
  <1> DEFINE T == {m \in Nat : m <= n => f[m] \in S}
  <1>7. 0 \in T
    <2>1. 0 \in 0 .. n
      BY <1>1
    <2>2. f[0] = Row(f, 0)
      <3> HIDE DEF Row, n
      <3> QED BY <1>6, <2>1
    <2>3. Row(f, 0) = << >>
      OBVIOUS
    <2> HIDE DEF S
    <2> QED BY <1>3, <2>2, <2>3
  <1>8. ASSUME NEW m \in Nat, m \in T PROVE m + 1 \in T
    <2> SUFFICES ASSUME m + 1 <= n PROVE f[m + 1] \in S
      OBVIOUS
    <2>1. f[m] \in S
      BY <1>1, <1>8
    <2>2. m + 1 \in 0 .. n /\ m + 1 \in 1 .. n /\ (m + 1) - 1 = m /\ m + 1 # 0
      BY <1>1
    <2>3. f[m + 1] = Row(f, m + 1)
      <3> HIDE DEF Row, n
      <3> QED BY <1>6, <2>2
    <2>4. Picker!AddResult(f[m], h[m + 1]) \in S
      BY <1>2, <2>1, <2>2
    <2> HIDE DEF S
    <2> QED BY <2>2, <2>3, <2>4
  <1> HIDE DEF T
  <1>9. n \in T
    <2> HIDE DEF n
    <2> QED BY <1>1, <1>7, <1>8, NatSetInduction
  <1> USE DEF T
  <1> QED BY <1>1, <1>9

(* A bounded sequence. *)
LEMMA Bounded ==
  ASSUME NEW S, NEW n \in Nat, NEW s
  PROVE  s \in Picker!BoundedSeq(S, n) <=> s \in Seq(S) /\ Len(s) <= n
  <1>1. Picker!BoundedSeq(S, n) = UNION {[1 .. m -> S] : m \in 0 .. n}
    BY DEF Picker!BoundedSeq, Picker!SeqOf
  <1>2. ASSUME NEW m \in 0 .. n, s \in [1 .. m -> S] PROVE s \in Seq(S) /\ Len(s) <= n
    BY <1>2
  <1>3. ASSUME s \in Seq(S), Len(s) <= n PROVE Len(s) \in 0 .. n /\ s \in [1 .. Len(s) -> S]
    BY <1>3
  <1> QED BY <1>1, <1>2, <1>3

(* The view holds the selected row. *)
LEMMA ViewportHolds ==
  ASSUME Picker!PickerAssumption, NEW count \in Nat, NEW selected \in Nat, NEW top \in Nat
  PROVE  /\ Picker!Viewport(count, selected, top) \in 0 .. selected
         /\ selected < count =>
              selected \in Picker!Viewport(count, selected, top) .. Picker!Viewport(count, selected, top) + Picker!cmdPickerVisibleRows - 1
  <1> DEFINE rows == Picker!cmdPickerVisibleRows
             near == IF selected < top THEN selected
                     ELSE IF selected >= top + rows THEN selected - rows + 1 ELSE top
             last == IF count > rows THEN count - rows ELSE 0
             view == IF near > last THEN last ELSE near
  <1>1. rows \in Nat /\ rows >= 1
    BY DEF Picker!PickerAssumption, Picker!cmdPickerVisibleRows
  <1>2. Picker!Viewport(count, selected, top) = view
    BY DEF Picker!Viewport
  <1> HIDE DEF rows
  <1>3. near \in Nat /\ near <= selected /\ selected < near + rows
    BY <1>1
  <1>4. last \in Nat /\ (selected < count => selected < last + rows)
    BY <1>1
  <1>5. view \in 0 .. selected /\ (selected < count => selected < view + rows)
    <2> HIDE DEF near, last
    <2> QED BY <1>1, <1>3, <1>4
  <1> HIDE DEF view
  <1>6. selected < count => selected \in view .. view + rows - 1
    BY <1>1, <1>5
  <1> QED BY <1>2, <1>5, <1>6 DEF rows

(* The lists are lists of items. *)
LEMMA ListsOfItems ==
  ASSUME Picker!PickerAssumption, Picker!TypeOK
  PROVE  /\ file_list \in Seq(Picker!Items) /\ mount_list \in Seq(Picker!Items) /\ wifi_scan_picker \in Seq(Picker!Items)
         /\ \A mode \in Picker!Modes : Picker!ListOf(mode) \in Seq(Picker!Items)
  <1>1. wifi_scan_picker \in Seq(Networks) /\ mount_list \in Seq(Remotes) /\ file_list \in Seq(Files \cup Dirs)
    BY Bounded DEF Picker!TypeOK, Picker!PickerAssumption
  <1>2. file_list \in Seq(Picker!Items) /\ mount_list \in Seq(Picker!Items) /\ wifi_scan_picker \in Seq(Picker!Items)
    BY <1>1 DEF Picker!Items
  <1>3. \A mode \in Picker!Modes : mode = "edit" \/ mode = "wifi" \/ mode = "mount"
    BY DEF Picker!Modes
  <1> QED BY <1>2, <1>3 DEF Picker!ListOf

(* An item, or none. *)
LEMMA NameIsItem ==
  ASSUME NEW list \in Seq(Picker!Items), NEW ref \in Nat \ {0} PROVE Picker!NameAt(list,
         ref) \in Picker!Items \cup {None}
  BY DEF Picker!NameAt

(* The picker that is drawn marks the entry it selects. *)
LEMMA ShowMarks ==
  ASSUME Picker!PickerAssumption, Picker!TypeOK, NEW mode \in Picker!Modes, NEW list \in Seq(Picker!Items),
         list = Picker!ListOf(mode)',
         NEW indices \in Seq(Nat \ {0}), NEW selected \in Nat, NEW top \in Nat,
         indices # << >> => selected < Len(indices), Picker!Show(mode, list, indices, selected, top)
  PROVE  /\ Marked'
         /\ cmd_picker_mode' \in Picker!Modes \cup {"none"} /\ cmd_picker_indices' \in Seq(Nat \ {0})
         /\ cmd_picker_selected' \in Nat /\ cmd_picker_top' \in 0 .. cmd_picker_selected'
         /\ marked' \in Picker!Items \cup {None} /\ disturbed' \in BOOLEAN
         /\ opened.at # "closed" => disturbed' = disturbed
  <1> DEFINE view == Picker!Viewport(Len(indices), selected, top)
  <1>1. /\ cmd_picker_mode' = mode /\ cmd_picker_indices' = indices
        /\ cmd_picker_selected' = selected /\ cmd_picker_top' = view
        /\ marked' = IF indices # << >> /\ selected \in view .. view + Picker!cmdPickerVisibleRows - 1
                     THEN Picker!NameAt(list, indices[selected + 1]) ELSE None
        /\ disturbed' = (disturbed /\ opened.at # "closed")
    BY DEF Picker!Show
  <1>2. Len(indices) \in Nat /\ (indices = << >> <=> Len(indices) = 0)
    BY EmptySeq
  <1>3. view \in 0 .. selected /\ (selected < Len(indices) => selected \in view .. view + Picker!cmdPickerVisibleRows - 1)
    BY <1>2, ViewportHolds
  <1> HIDE DEF view
  <1>4. indices # << >> => indices[selected + 1] \in Nat \ {0}
    BY <1>2
  <1>5. marked' \in Picker!Items \cup {None}
    BY <1>1, <1>4, NameIsItem
  <1>6. indices # << >> => marked' = Picker!NameAt(list, indices[selected + 1])
    BY <1>1, <1>3
  <1>7. Marked'
    <2>1. Len(indices) > 0 => indices # << >>
      BY <1>2
    <2> QED BY <1>1, <1>2, <1>6, <2>1 DEF Marked, Picker!cmdPickerIsActive, Picker!cmd_picker_count
  <1>8. disturbed' \in BOOLEAN
    BY <1>1, Zenon
  <1>9. opened.at # "closed" => disturbed' = disturbed
    BY <1>1 DEF Picker!TypeOK
  <1> QED BY <1>1, <1>3, <1>5, <1>7, <1>8, <1>9

(* A picker that is stopped marks nothing, and has its types. *)
LEMMA StopMarks ==
  ASSUME Picker!cmdPickerStop
  PROVE  /\ Marked' /\ ~Picker!cmdPickerIsActive'
         /\ cmd_picker_mode' \in Picker!Modes \cup {"none"} /\ cmd_picker_indices' \in Seq(Nat \ {0})
         /\ cmd_picker_selected' \in Nat /\ cmd_picker_top' \in 0 .. cmd_picker_selected'
  <1>1. << >> \in Seq(Nat \ {0})
    BY EmptySeq
  <1> QED BY <1>1 DEF Picker!cmdPickerStop, Marked, Picker!cmdPickerIsActive, Picker!Modes

(* A result written over the rows. *)
LEMMA ResultTyped ==
  ASSUME Picker!Result
  PROVE  marked' \in Picker!Items \cup {None} /\ disturbed' \in BOOLEAN /\ disturbed'
  <1>1. disturbed' \in BOOLEAN
    BY Zenon DEF Picker!Result
  <1> QED BY <1>1 DEF Picker!Result

(* A listing fills the front of the list. *)
LEMMA ListingTyped ==
  ASSUME Picker!PickerAssumption, Picker!TypeOK, NEW new \in Listings, Picker!Listing(new)
  PROVE  /\ file_list' \in Seq(Files \cup Dirs) /\ Len(file_list') <= MAX_FILE_LIST
         /\ Len(new) \in 0 .. MAX_FILE_LIST
  <1> DEFINE old == SubSeq(file_list, Len(new) + 1, Len(file_list))
  <1>1. /\ new \in Seq(Files \cup Dirs) /\ Len(new) <= MAX_FILE_LIST /\ Len(new) \in Nat
        /\ MAX_FILE_LIST \in Nat
    BY DEF Picker!PickerAssumption
  <1>2. file_list \in Seq(Files \cup Dirs) /\ Len(file_list) <= MAX_FILE_LIST /\ Len(file_list) \in Nat
    BY DEF Picker!TypeOK
  <1>3. \A i \in Len(new) + 1 .. Len(file_list) : file_list[i] \in Files \cup Dirs
    BY <1>1, <1>2
  <1>4. /\ old \in Seq(Files \cup Dirs)
        /\ Len(old) = IF Len(new) + 1 <= Len(file_list) THEN Len(file_list) - (Len(new) + 1) + 1 ELSE 0
    BY <1>1, <1>2, <1>3, SubSeqProperties
  <1> HIDE DEF old
  <1>5. new \o old \in Seq(Files \cup Dirs) /\ Len(new \o old) = Len(new) + Len(old)
    BY <1>1, <1>4, ConcatProperties
  <1>6. Len(new) + Len(old) <= MAX_FILE_LIST
    BY <1>1, <1>2, <1>4
  <1>7. file_list' = new \o old
    BY DEF Picker!Listing, old
  <1> QED BY <1>1, <1>5, <1>6, <1>7

(* Keys in the picker. *)
LEMMA MoveKeeps ==
  ASSUME Picker!PickerAssumption, PickerInv, NEW delta \in Int,
         Picker!cmdPickerMoveSelection(delta) PROVE PickerInv'
  <1> DEFINE wanted == cmd_picker_selected + delta
             next == IF wanted < 0 THEN 0
                     ELSE IF wanted >= Picker!cmd_picker_count THEN Picker!cmd_picker_count - 1 ELSE wanted
  <1>1. /\ Picker!Show(cmd_picker_mode, Picker!ListOf(cmd_picker_mode), cmd_picker_indices, next, cmd_picker_top)
        /\ cmd_picker_mode # "none" /\ Picker!cmd_picker_count > 0
        /\ UNCHANGED <<prompt, Picker!lists, picker_mount, wifi_scan_pending, picker_job, opened>>
    BY DEF Picker!cmdPickerMoveSelection, Picker!Picking, Picker!cmdPickerIsActive
  <1>2. /\ cmd_picker_mode \in Picker!Modes /\ cmd_picker_indices \in Seq(Nat \ {0}) /\ cmd_picker_selected \in Nat
        /\ cmd_picker_top \in Nat
    BY <1>1 DEF PickerInv, Picker!TypeOK
  <1>3. next \in Nat /\ next < Len(cmd_picker_indices)
    BY <1>1, <1>2 DEF Picker!cmd_picker_count
  <1> HIDE DEF next
  <1>4. Picker!ListOf(cmd_picker_mode) \in Seq(Picker!Items)
    BY <1>2, ListsOfItems DEF PickerInv
  <1>5. PICK mode, list, indices, selected, top :
          /\ mode = cmd_picker_mode /\ list = Picker!ListOf(cmd_picker_mode) /\ indices = cmd_picker_indices
          /\ selected = next /\ top = cmd_picker_top
    OBVIOUS
  <1>6. list = Picker!ListOf(mode)'
    BY <1>1, <1>5 DEF Picker!ListOf, Picker!lists
  <1>7. Picker!Show(mode, list, indices, selected, top)
    BY <1>1, <1>5
  <1>8. /\ Marked'
        /\ cmd_picker_mode' \in Picker!Modes \cup {"none"} /\ cmd_picker_indices' \in Seq(Nat \ {0})
        /\ cmd_picker_selected' \in Nat /\ cmd_picker_top' \in 0 .. cmd_picker_selected'
        /\ marked' \in Picker!Items \cup {None} /\ disturbed' \in BOOLEAN
        /\ opened.at # "closed" => disturbed' = disturbed
    <2>1. /\ mode \in Picker!Modes /\ list \in Seq(Picker!Items) /\ indices \in Seq(Nat \ {0}) /\ selected \in Nat
          /\ top \in Nat /\ (indices # << >> => selected < Len(indices))
      BY <1>2, <1>3, <1>4, <1>5
    <2> QED BY <1>6, <1>7, <2>1, ShowMarks DEF PickerInv
  <1>9. Entered' \/ (opened.at # "closed" /\ ~Entered)
    BY <1>1 DEF Entered, Picker!lists
  <1>10. Picker!TypeOK'
    BY <1>1, <1>8 DEF PickerInv, Picker!TypeOK, Picker!lists
  <1> QED BY <1>1, <1>8, <1>9, <1>10 DEF PickerInv

(* Escape and a tap of MIC. *)
LEMMA CloseKeeps ==
  ASSUME Picker!PickerAssumption, PickerInv,
         Picker!cmdPickerCancel \/ Picker!Leave \/ Picker!OpenPrompt PROVE PickerInv'
  <1>1. CASE Picker!cmdPickerCancel
    BY <1>1, StopMarks, ResultTyped DEF Picker!cmdPickerCancel, PickerInv, Picker!TypeOK, Picker!lists
  <1>2. CASE Picker!OpenPrompt
    <2>1. prompt' \in BOOLEAN
      BY <1>2, Zenon DEF Picker!OpenPrompt
    <2> QED BY <1>2, <2>1, StopMarks, ResultTyped DEF Picker!OpenPrompt, PickerInv, Picker!TypeOK, Picker!lists
  <1>3. CASE Picker!Leave
    <2>1. prompt' \in BOOLEAN
      BY <1>3, Zenon DEF Picker!Leave
    <2>2. UNCHANGED <<Picker!lists, picker_mount, wifi_scan_pending, marked, picker_job, opened, disturbed>>
      BY <1>3 DEF Picker!Leave
    <2>3. CASE UNCHANGED Picker!picker
      <3>1. UNCHANGED <<cmd_picker_mode, cmd_picker_indices, cmd_picker_selected, cmd_picker_top>>
        BY <2>3 DEF Picker!picker
      <3>2. (Marked => Marked') /\ (Entered => Entered')
        BY <2>2, <3>1 DEF Marked, Entered, Picker!cmdPickerIsActive, Picker!cmd_picker_count,
           Picker!ListOf, Picker!lists
      <3> QED BY <2>1, <2>2, <3>1, <3>2 DEF PickerInv, Picker!TypeOK, Picker!lists
    <2>4. CASE Picker!cmdPickerStop
      <3>1. Entered => Entered'
        BY <2>2 DEF Entered, Picker!lists
      <3> QED BY <2>1, <2>2, <2>4, <3>1, StopMarks DEF PickerInv, Picker!TypeOK, Picker!lists
    <2> QED BY <1>3, <2>3, <2>4 DEF Picker!Leave
  <1> QED BY <1>1, <1>2, <1>3

(* Enter takes the entry of the marked row. *)
LEMMA EnterKeeps ==
  ASSUME Picker!PickerAssumption, PickerInv, Picker!EnterEdit \/ Picker!EnterOther PROVE PickerInv'
  <1>1. /\ cmd_picker_indices \in Seq(Nat \ {0}) /\ cmd_picker_selected \in Nat
        /\ marked \in Picker!Items \cup {None}
    BY DEF PickerInv, Picker!TypeOK
  <1>2. cmd_picker_selected < Picker!cmd_picker_count /\ Picker!cmdPickerIsActive
    BY DEF Picker!EnterEdit, Picker!EnterOther, Picker!Picking
  <1>3. cmd_picker_indices[cmd_picker_selected + 1] \in Nat \ {0}
    BY <1>1, <1>2 DEF Picker!cmd_picker_count
  <1>4. ~disturbed => marked = Picker!NameAt(Picker!ListOf(cmd_picker_mode), cmd_picker_indices[cmd_picker_selected + 1])
    BY <1>2 DEF PickerInv, Marked
  <1>5. CASE Picker!EnterEdit
    <2>1. opened' = [at |-> "chosen", row |-> marked, ref |-> cmd_picker_indices[cmd_picker_selected + 1],
                     loaded |-> None, named |-> None]
      BY <1>5 DEF Picker!EnterEdit, Picker!Closed
    <2>2. UNCHANGED <<prompt, Picker!lists, picker_mount, wifi_scan_pending, Picker!picker, marked, picker_job, disturbed>>
          /\ cmd_picker_mode = "edit"
      BY <1>5 DEF Picker!EnterEdit
    <2>3. UNCHANGED <<cmd_picker_mode, cmd_picker_indices, cmd_picker_selected, cmd_picker_top>>
      BY <2>2 DEF Picker!picker
    <2>4. Marked => Marked'
      BY <2>2, <2>3 DEF Marked, Picker!cmdPickerIsActive, Picker!cmd_picker_count, Picker!ListOf, Picker!lists
    <2>5. ~disturbed => Entered'
      BY <1>4, <2>1, <2>2 DEF Entered, Picker!ListOf, Picker!lists
    <2>6. opened' \in [at : {"closed", "chosen", "loaded", "done"}, ref : Nat,
                 row : Picker!Items \cup {None}, loaded : Picker!Items \cup {None}, named : Picker!Items \cup {None}]
      BY <1>1, <1>3, <2>1
    <2>7. Picker!TypeOK'
      BY <2>2, <2>3, <2>6 DEF PickerInv, Picker!TypeOK, Picker!lists
    <2> QED BY <1>3, <2>1, <2>2, <2>4, <2>5, <2>7 DEF PickerInv
  <1>6. CASE Picker!EnterOther
    <2> DEFINE ref == cmd_picker_indices[cmd_picker_selected + 1]
               item == Picker!ListOf(cmd_picker_mode)[ref]
    <2>1. /\ ref <= Len(Picker!ListOf(cmd_picker_mode)) /\ Picker!cmdPickerStop /\ marked' = None
          /\ opened' = [at |-> "done", row |-> marked, ref |-> ref, loaded |-> item, named |-> item]
          /\ picker_mount' = IF cmd_picker_mode = "mount" THEN item ELSE picker_mount
          /\ UNCHANGED <<prompt, Picker!lists, wifi_scan_pending, picker_job, disturbed>>
      BY <1>6 DEF Picker!EnterOther
    <2>2. cmd_picker_mode \in Picker!Modes
      BY <1>2 DEF Picker!cmdPickerIsActive, PickerInv, Picker!TypeOK
    <2>3. item \in Picker!Items
      <3>1. Picker!ListOf(cmd_picker_mode) \in Seq(Picker!Items)
        BY <2>2, ListsOfItems DEF PickerInv
      <3>2. ref \in 1 .. Len(Picker!ListOf(cmd_picker_mode))
        BY <1>3, <2>1, <3>1
      <3> QED BY <3>1, <3>2
    <2>4. cmd_picker_mode = "mount" => item \in Remotes
      <3>1. mount_list \in Seq(Remotes)
        BY Bounded DEF PickerInv, Picker!TypeOK, Picker!PickerAssumption
      <3>2. cmd_picker_mode = "mount" => ref \in 1 .. Len(mount_list) /\ item = mount_list[ref]
        BY <1>3, <2>1, <3>1 DEF Picker!ListOf
      <3> QED BY <3>1, <3>2
    <2>5. ~disturbed => marked = item
      BY <1>4, <2>1 DEF Picker!NameAt
    <2> HIDE DEF item, ref
    <2>6. ~disturbed => Entered'
      BY <2>1, <2>5 DEF Entered
    <2>7. opened' \in [at : {"closed", "chosen", "loaded", "done"}, ref : Nat,
                 row : Picker!Items \cup {None}, loaded : Picker!Items \cup {None}, named : Picker!Items \cup {None}]
      BY <1>1, <1>3, <2>1, <2>3 DEF ref
    <2>8. picker_mount' \in Remotes \cup {None}
      BY <2>1, <2>4 DEF PickerInv, Picker!TypeOK
    <2>9. Picker!TypeOK'
      BY <2>1, <2>7, <2>8, StopMarks DEF PickerInv, Picker!TypeOK, Picker!lists
    <2> QED BY <2>1, <2>6, <2>9, StopMarks DEF PickerInv
  <1> QED BY <1>5, <1>6

(* The steps of an Enter under way. *)
LEMMA OpenKeeps ==
  ASSUME Picker!PickerAssumption, PickerInv,
         Picker!Load \/ Picker!Name \/ Picker!LoadFails \/ Picker!Done PROVE PickerInv'
  <1>1. opened \in [at : {"closed", "chosen", "loaded", "done"}, ref : Nat,
                 row : Picker!Items \cup {None}, loaded : Picker!Items \cup {None}, named : Picker!Items \cup {None}]
        /\ file_list \in Seq(Picker!Items)
    BY ListsOfItems DEF PickerInv, Picker!TypeOK
  <1>2. opened.at \in {"chosen", "loaded"} => Picker!NameAt(file_list, opened.ref) \in Picker!Items \cup {None}
    BY <1>1, NameIsItem DEF PickerInv
  <1>3. CASE Picker!Load
    <2>1. opened' = [opened EXCEPT !.at = "loaded", !.loaded = Picker!NameAt(file_list, opened.ref)]
          /\ opened.at = "chosen"
          /\ UNCHANGED <<prompt, Picker!lists, picker_mount, wifi_scan_pending, Picker!picker, marked, picker_job, disturbed>>
      BY <1>3 DEF Picker!Load
    <2>2. UNCHANGED <<cmd_picker_mode, cmd_picker_indices, cmd_picker_selected, cmd_picker_top>>
      BY <2>1 DEF Picker!picker
    <2>3. Marked => Marked'
      BY <2>1, <2>2 DEF Marked, Picker!cmdPickerIsActive, Picker!cmd_picker_count, Picker!ListOf, Picker!lists
    <2>4. opened' \in [at : {"closed", "chosen", "loaded", "done"}, ref : Nat,
                 row : Picker!Items \cup {None}, loaded : Picker!Items \cup {None}, named : Picker!Items \cup {None}]
      BY <1>1, <1>2, <2>1
    <2>5. opened'.at = "loaded" /\ opened'.ref = opened.ref /\ opened'.row = opened.row
          /\ opened'.loaded = Picker!NameAt(file_list, opened.ref)
      BY <1>1, <2>1
    <2>6. Entered => Entered'
      BY <2>1, <2>5 DEF Entered, Picker!lists
    <2>7. Picker!TypeOK'
      BY <2>1, <2>2, <2>4 DEF PickerInv, Picker!TypeOK, Picker!lists
    <2> QED BY <2>1, <2>3, <2>5, <2>6, <2>7 DEF PickerInv
  <1>4. CASE Picker!Name
    <2>1. PICK named \in {opened.loaded, Picker!NameAt(file_list, opened.ref)} :
            opened' = [opened EXCEPT !.at = "done", !.named = named]
      BY <1>4 DEF Picker!Name
    <2>2. /\ opened.at = "loaded" /\ Picker!cmdPickerStop /\ marked' = None /\ prompt' = FALSE
          /\ UNCHANGED <<Picker!lists, picker_mount, wifi_scan_pending, picker_job, disturbed>>
      BY <1>4 DEF Picker!Name
    <2>3. prompt' \in BOOLEAN
      BY <2>2, Zenon
    <2>4. opened' \in [at : {"closed", "chosen", "loaded", "done"}, ref : Nat,
                 row : Picker!Items \cup {None}, loaded : Picker!Items \cup {None}, named : Picker!Items \cup {None}]
      BY <1>1, <1>2, <2>1, <2>2
    <2>5. opened'.at = "done" /\ opened'.row = opened.row /\ opened'.loaded = opened.loaded
          /\ opened'.named = named
      BY <1>1, <2>1
    <2>6. Entered => Entered'
      BY <2>1, <2>2, <2>5 DEF Entered
    <2>7. Picker!TypeOK'
      BY <2>2, <2>3, <2>4, StopMarks DEF PickerInv, Picker!TypeOK, Picker!lists
    <2> QED BY <2>2, <2>5, <2>6, <2>7, StopMarks DEF PickerInv
  <1>5. CASE Picker!LoadFails
    <2>1. opened' \in [at : {"closed", "chosen", "loaded", "done"}, ref : Nat,
                 row : Picker!Items \cup {None}, loaded : Picker!Items \cup {None}, named : Picker!Items \cup {None}]
          /\ opened'.at = "closed"
      BY <1>5 DEF Picker!LoadFails, Picker!Closed
    <2> QED BY <1>5, <2>1, StopMarks, ResultTyped DEF Picker!LoadFails, PickerInv, Picker!TypeOK, Picker!lists
  <1>6. CASE Picker!Done
    <2>1. opened' \in [at : {"closed", "chosen", "loaded", "done"}, ref : Nat,
                 row : Picker!Items \cup {None}, loaded : Picker!Items \cup {None}, named : Picker!Items \cup {None}]
          /\ opened'.at = "closed"
          /\ UNCHANGED <<prompt, Picker!lists, picker_mount, wifi_scan_pending, Picker!picker, marked, picker_job, disturbed>>
      BY <1>6 DEF Picker!Done, Picker!Closed
    <2>2. UNCHANGED <<cmd_picker_mode, cmd_picker_indices, cmd_picker_selected, cmd_picker_top>>
      BY <2>1 DEF Picker!picker
    <2>3. (Marked => Marked') /\ Entered'
      BY <2>1, <2>2 DEF Marked, Entered, Picker!cmdPickerIsActive, Picker!cmd_picker_count, Picker!ListOf,
         Picker!lists
    <2> QED BY <2>1, <2>2, <2>3 DEF PickerInv, Picker!TypeOK, Picker!lists
  <1> QED BY <1>3, <1>4, <1>5, <1>6

(* Where a task's command goes. *)
LEMMA GotoTyped ==
  ASSUME Picker!PickerAssumption, Picker!TypeOK, NEW t \in Picker!Tasks, NEW at \in {"idle", "listed",
         "fetched", "indexed"},
         NEW n \in 0 .. MAX_FILE_LIST, Picker!Goto(t, at, n)
  PROVE  picker_job' \in [Picker!Tasks -> [at : {"idle", "listed", "fetched", "indexed"}, n : 0 .. MAX_FILE_LIST]]
  BY DEF Picker!Goto, Picker!TypeOK

(* Commands that fill a list. *)
LEMMA ListKeeps ==
  ASSUME Picker!PickerAssumption, PickerInv, NEW t \in Picker!Tasks,
         Picker!EditList(t) \/ Picker!List(t) \/ Picker!UploadList
  PROVE  PickerInv'
  <1>1. CASE Picker!EditList(t)
    <2>1. PICK new \in Listings : Picker!Listing(new) /\ Picker!Goto(t, "listed", Len(new))
      BY <1>1 DEF Picker!EditList
    <2>2. /\ file_list' \in Seq(Files \cup Dirs) /\ Len(file_list') <= MAX_FILE_LIST
          /\ Len(new) \in 0 .. MAX_FILE_LIST
      BY <2>1, ListingTyped DEF PickerInv
    <2>3. picker_job' \in [Picker!Tasks -> [at : {"idle", "listed", "fetched", "indexed"}, n : 0 .. MAX_FILE_LIST]]
      BY <2>1, <2>2, GotoTyped DEF PickerInv
    <2>4. disturbed' = TRUE /\ UNCHANGED <<prompt, wifi_scan_picker, mount_list, picker_mount, wifi_scan_pending,
                                           Picker!picker, marked, opened>>
      BY <1>1 DEF Picker!EditList
    <2>5. disturbed' \in BOOLEAN
      BY <2>4, Zenon
    <2> QED BY <2>2, <2>3, <2>4, <2>5 DEF PickerInv, Picker!TypeOK, Picker!picker
  <1>2. CASE Picker!List(t)
    <2>1. PICK new \in Listings : Picker!Listing(new)
      BY <1>2 DEF Picker!List
    <2>2. file_list' \in Seq(Files \cup Dirs) /\ Len(file_list') <= MAX_FILE_LIST
      BY <2>1, ListingTyped DEF PickerInv
    <2>3. Picker!Result /\ UNCHANGED <<prompt, wifi_scan_picker, mount_list, picker_mount, wifi_scan_pending, Picker!picker, picker_job,
                                opened>>
      BY <1>2 DEF Picker!List
    <2> QED BY <2>2, <2>3, ResultTyped DEF PickerInv, Picker!TypeOK, Picker!picker
  <1>3. CASE Picker!UploadList
    <2>1. PICK new \in Listings : Picker!Listing(new)
      BY <1>3 DEF Picker!UploadList
    <2>2. file_list' \in Seq(Files \cup Dirs) /\ Len(file_list') <= MAX_FILE_LIST
      BY <2>1, ListingTyped DEF PickerInv
    <2>3. disturbed' = TRUE /\ UNCHANGED <<prompt, wifi_scan_picker, mount_list, picker_mount, wifi_scan_pending,
                                           Picker!picker, marked, picker_job, opened>>
      BY <1>3 DEF Picker!UploadList
    <2>4. disturbed' \in BOOLEAN
      BY <2>3, Zenon
    <2> QED BY <2>2, <2>3, <2>4 DEF PickerInv, Picker!TypeOK, Picker!picker
  <1> QED BY <1>1, <1>2, <1>3

(* Commands that only write their result, or close the picker with one. *)
LEMMA ResultKeeps ==
  ASSUME Picker!PickerAssumption, PickerInv, NEW t \in Picker!Tasks,
         Picker!OtherResult \/ Picker!EditListFails(t) \/ Picker!EditNamed(t) \/ \E m \in Remotes \cup {None} : Picker!MountNamed(t, m)
  PROVE  PickerInv'
  <1>1. CASE Picker!OtherResult
    BY <1>1, ResultTyped DEF Picker!OtherResult, PickerInv, Picker!TypeOK, Picker!lists, Picker!picker
  <1>2. CASE Picker!EditListFails(t)
    BY <1>2, ResultTyped, StopMarks DEF Picker!EditListFails, PickerInv, Picker!TypeOK, Picker!lists
  <1>3. CASE Picker!EditNamed(t)
    <2>1. prompt' \in BOOLEAN
      BY <1>3, Zenon DEF Picker!EditNamed
    <2> QED BY <1>3, <2>1, ResultTyped, StopMarks DEF Picker!EditNamed, PickerInv, Picker!TypeOK, Picker!lists
  <1>4. ASSUME NEW m \in Remotes \cup {None}, Picker!MountNamed(t, m) PROVE PickerInv'
    BY <1>4, ResultTyped DEF Picker!MountNamed, PickerInv, Picker!TypeOK, Picker!lists, Picker!picker
  <1> QED BY <1>1, <1>2, <1>3, <1>4

(* The edit picker is filled and drawn. *)
LEMMA EditKeeps ==
  ASSUME Picker!PickerAssumption, PickerInv, NEW t \in Picker!Tasks,
         Picker!EditIndex(t) \/ Picker!EditStart(t) PROVE PickerInv'
  <1>1. 0 \in 0 .. MAX_FILE_LIST
    BY DEF Picker!PickerAssumption
  <1>2. CASE Picker!EditIndex(t)
    <2> DEFINE refs == Picker!FileRefs(picker_job[t].n)
    <2>1. refs \in Seq(Nat \ {0})
      <3>1. picker_job[t].n \in Nat
        BY DEF PickerInv, Picker!TypeOK, Picker!PickerAssumption
      <3> QED BY <3>1, FileRefsAre
    <2>2. UNCHANGED <<prompt, Picker!lists, picker_mount, wifi_scan_pending, opened>>
          /\ IF refs = << >> THEN Picker!cmdPickerStop /\ Picker!Result /\ Picker!Goto(t, "idle", 0)
             ELSE /\ cmd_picker_indices' = refs /\ Picker!Goto(t, "indexed", 0) /\ disturbed' = TRUE
                  /\ UNCHANGED <<cmd_picker_mode, cmd_picker_selected, cmd_picker_top, marked>>
      BY <1>2 DEF Picker!EditIndex
    <2> HIDE DEF refs
    <2>3. CASE refs = << >>
      <3>1. picker_job' \in [Picker!Tasks -> [at : {"idle", "listed", "fetched", "indexed"}, n : 0 .. MAX_FILE_LIST]]
        BY <1>1, <2>2, <2>3, GotoTyped DEF PickerInv
      <3> QED BY <2>2, <2>3, <3>1, StopMarks, ResultTyped DEF PickerInv, Picker!TypeOK, Picker!lists
    <2>4. CASE refs # << >>
      <3>1. picker_job' \in [Picker!Tasks -> [at : {"idle", "listed", "fetched", "indexed"}, n : 0 .. MAX_FILE_LIST]]
        BY <1>1, <2>2, <2>4, GotoTyped DEF PickerInv
      <3>2. disturbed' \in BOOLEAN
        BY <2>2, <2>4, Zenon
      <3> QED BY <2>1, <2>2, <2>4, <3>1, <3>2 DEF PickerInv, Picker!TypeOK, Picker!lists
    <2> QED BY <2>3, <2>4
  <1>3. CASE Picker!EditStart(t)
    <2>1. /\ Picker!Show("edit", file_list, cmd_picker_indices, 0, 0) /\ Picker!Goto(t, "idle", 0)
          /\ UNCHANGED <<prompt, Picker!lists, picker_mount, wifi_scan_pending, opened>>
      BY <1>3 DEF Picker!EditStart
    <2>2. PICK list, indices : list = file_list /\ indices = cmd_picker_indices
      OBVIOUS
    <2>3. /\ list \in Seq(Picker!Items) /\ indices \in Seq(Nat \ {0}) /\ (indices # << >> => 0 < Len(indices))
          /\ "edit" \in Picker!Modes /\ Picker!Show("edit", list, indices, 0, 0)
      <3>1. indices \in Seq(Nat \ {0})
        BY <2>2 DEF PickerInv, Picker!TypeOK
      <3>2. indices # << >> => 0 < Len(indices)
        BY <3>1, EmptySeq
      <3> QED BY <2>1, <2>2, <3>1, <3>2, ListsOfItems DEF PickerInv, Picker!Modes
    <2>4. list = Picker!ListOf("edit")'
      BY <2>1, <2>2 DEF Picker!ListOf, Picker!lists
    <2>5. /\ Marked'
          /\ cmd_picker_mode' \in Picker!Modes \cup {"none"} /\ cmd_picker_indices' \in Seq(Nat \ {0})
          /\ cmd_picker_selected' \in Nat /\ cmd_picker_top' \in 0 .. cmd_picker_selected'
          /\ marked' \in Picker!Items \cup {None} /\ disturbed' \in BOOLEAN
          /\ opened.at # "closed" => disturbed' = disturbed
      BY <2>3, <2>4, ShowMarks DEF PickerInv
    <2>6. picker_job' \in [Picker!Tasks -> [at : {"idle", "listed", "fetched", "indexed"}, n : 0 .. MAX_FILE_LIST]]
      BY <1>1, <2>1, GotoTyped DEF PickerInv
    <2>7. Entered' \/ (opened.at # "closed" /\ ~Entered)
      BY <2>1 DEF Entered, Picker!lists
    <2>8. Picker!TypeOK'
      BY <2>1, <2>5, <2>6 DEF PickerInv, Picker!TypeOK, Picker!lists
    <2> QED BY <2>1, <2>5, <2>7, <2>8 DEF PickerInv
  <1> QED BY <1>2, <1>3

(* One after the other. *)
LEMMA CountedOff ==
  ASSUME NEW n \in Nat
  PROVE  [i \in 1 .. n |-> i] \in Seq(Nat \ {0}) /\ Len([i \in 1 .. n |-> i]) = n
  OBVIOUS

(* The mount picker is filled and drawn. *)
LEMMA MountKeeps ==
  ASSUME Picker!PickerAssumption, PickerInv, NEW t \in Picker!Tasks,
         Picker!MountFetch(t) \/ Picker!MountStart(t) PROVE PickerInv'
  <1>1. 0 \in 0 .. MAX_FILE_LIST
    BY DEF Picker!PickerAssumption
  <1>2. CASE Picker!MountFetch(t)
    <2>1. PICK new \in Picker!BoundedSeq(Remotes, MAX_MOUNT_LIST) :
            /\ mount_list' = new
            /\ IF new = << >> THEN UNCHANGED picker_job /\ Picker!Result
               ELSE Picker!Goto(t, "fetched", 0) /\ disturbed' = TRUE /\ UNCHANGED marked
      BY <1>2 DEF Picker!MountFetch
    <2>2. UNCHANGED <<prompt, file_list, wifi_scan_picker, picker_mount, wifi_scan_pending, Picker!picker, opened>>
      BY <1>2 DEF Picker!MountFetch
    <2>3. UNCHANGED <<cmd_picker_mode, cmd_picker_indices, cmd_picker_selected, cmd_picker_top>>
      BY <2>2 DEF Picker!picker
    <2>4. CASE new = << >>
      BY <2>1, <2>2, <2>3, <2>4, ResultTyped DEF PickerInv, Picker!TypeOK
    <2>5. CASE new # << >>
      <3>1. picker_job' \in [Picker!Tasks -> [at : {"idle", "listed", "fetched", "indexed"}, n : 0 .. MAX_FILE_LIST]]
        BY <1>1, <2>1, <2>5, GotoTyped DEF PickerInv
      <3>2. disturbed' \in BOOLEAN
        BY <2>1, <2>5, Zenon
      <3> QED BY <2>1, <2>2, <2>3, <2>5, <3>1, <3>2 DEF PickerInv, Picker!TypeOK
    <2> QED BY <2>4, <2>5
  <1>3. CASE Picker!MountStart(t)
    <2> DEFINE refs == [i \in 1 .. Len(mount_list) |-> i]
    <2>1. /\ Picker!Show("mount", mount_list, refs, 0, 0) /\ Picker!Goto(t, "idle", 0)
          /\ UNCHANGED <<prompt, Picker!lists, picker_mount, wifi_scan_pending, opened>>
      BY <1>3 DEF Picker!MountStart
    <2>2. PICK list, indices : list = mount_list /\ indices = refs
      OBVIOUS
    <2>3. /\ list \in Seq(Picker!Items) /\ indices \in Seq(Nat \ {0}) /\ (indices # << >> => 0 < Len(indices))
          /\ "mount" \in Picker!Modes /\ Picker!Show("mount", list, indices, 0, 0)
      <3>1. list \in Seq(Picker!Items)
        BY <2>2, ListsOfItems DEF PickerInv
      <3>2. indices \in Seq(Nat \ {0})
        BY <2>2, <3>1, CountedOff
      <3>3. indices # << >> => 0 < Len(indices)
        BY <3>2, EmptySeq
      <3> QED BY <2>1, <2>2, <3>1, <3>2, <3>3 DEF Picker!Modes
    <2>4. list = Picker!ListOf("mount")'
      BY <2>1, <2>2 DEF Picker!ListOf, Picker!lists
    <2>5. /\ Marked'
          /\ cmd_picker_mode' \in Picker!Modes \cup {"none"} /\ cmd_picker_indices' \in Seq(Nat \ {0})
          /\ cmd_picker_selected' \in Nat /\ cmd_picker_top' \in 0 .. cmd_picker_selected'
          /\ marked' \in Picker!Items \cup {None} /\ disturbed' \in BOOLEAN
          /\ opened.at # "closed" => disturbed' = disturbed
      BY <2>3, <2>4, ShowMarks DEF PickerInv
    <2>6. picker_job' \in [Picker!Tasks -> [at : {"idle", "listed", "fetched", "indexed"}, n : 0 .. MAX_FILE_LIST]]
      BY <1>1, <2>1, GotoTyped DEF PickerInv
    <2>7. Entered' \/ (opened.at # "closed" /\ ~Entered)
      BY <2>1 DEF Entered, Picker!lists
    <2>8. Picker!TypeOK'
      BY <2>1, <2>5, <2>6 DEF PickerInv, Picker!TypeOK, Picker!lists
    <2> QED BY <2>1, <2>5, <2>7, <2>8 DEF PickerInv
  <1> QED BY <1>2, <1>3

(* A scan begins. *)
LEMMA ScanKeeps ==
  ASSUME Picker!PickerAssumption, PickerInv, NEW t \in Picker!Tasks, Picker!wifiScanCommand(t) PROVE PickerInv'
  <1>1. /\ Picker!cmdPickerStop /\ Picker!Result /\ wifi_scan_picker' = << >> /\ wifi_scan_pending' \in BOOLEAN
        /\ UNCHANGED <<prompt, file_list, mount_list, picker_mount, picker_job, opened>>
    BY DEF Picker!wifiScanCommand
  <1>2. << >> \in Picker!BoundedSeq(Networks, WIFI_SCAN_PICKER_MAX) /\ Picker!IsInjective(<< >>)
    <2>1. << >> \in Seq(Networks) /\ Len(<< >>) = 0 /\ DOMAIN << >> = {}
      BY EmptySeq
    <2>2. WIFI_SCAN_PICKER_MAX \in Nat /\ 0 <= WIFI_SCAN_PICKER_MAX
      BY DEF Picker!PickerAssumption
    <2> QED BY <2>1, <2>2, Bounded DEF Picker!IsInjective
  <1> QED BY <1>1, <1>2, StopMarks, ResultTyped DEF PickerInv, Picker!TypeOK

(* A scan ends: its picker takes over. *)
LEMMA FinishScanKeeps ==
  ASSUME Picker!PickerAssumption, PickerInv, Picker!finishWifiScanCommand PROVE PickerInv'
  <1>1. WIFI_SCAN_PICKER_MAX \in Nat /\ WIFI_SCAN_PICKER_MAX + 1 \in Nat
    BY DEF Picker!PickerAssumption
  <1>2. PICK scanned \in Picker!BoundedSeq(Networks, WIFI_SCAN_PICKER_MAX + 1) :
          /\ wifi_scan_picker' = Picker!Found(scanned)
          /\ IF Picker!Found(scanned) # << >>
             THEN Picker!Show("wifi", Picker!Found(scanned), [i \in 1 .. Len(Picker!Found(scanned)) |-> i], 0, 0)
             ELSE Picker!Result /\ (Picker!cmdPickerStop \/ UNCHANGED Picker!picker)
    BY DEF Picker!finishWifiScanCommand
  <1>3. /\ wifi_scan_pending' = FALSE /\ opened = Picker!Closed
        /\ UNCHANGED <<prompt, file_list, mount_list, picker_mount, picker_job, opened>>
    BY DEF Picker!finishWifiScanCommand, Picker!LoopFree
  <1>4. wifi_scan_pending' \in BOOLEAN
    BY <1>3, Zenon
  <1>5. scanned \in Seq(Networks)
    BY <1>1, Bounded
  <1>6. PICK list : list = Picker!Found(scanned)
    OBVIOUS
  <1>7. list \in Seq(Networks) /\ Len(list) <= WIFI_SCAN_PICKER_MAX /\ Picker!IsInjective(list)
    BY <1>5, <1>6, FoundOnce
  <1>8. list \in Picker!BoundedSeq(Networks, WIFI_SCAN_PICKER_MAX)
    BY <1>1, <1>7, Bounded
  <1>9. Entered'
    BY <1>3 DEF Entered, Picker!Closed
  <1>10. CASE list = << >>
    <2>1. Picker!Result /\ (Picker!cmdPickerStop \/ UNCHANGED Picker!picker) /\ wifi_scan_picker' = list
      BY <1>2, <1>6, <1>10
    <2>2. CASE Picker!cmdPickerStop
      BY <1>3, <1>4, <1>7, <1>8, <2>1, <2>2, StopMarks, ResultTyped DEF PickerInv, Picker!TypeOK
    <2>3. CASE UNCHANGED Picker!picker
      BY <1>3, <1>4, <1>7, <1>8, <2>1, <2>3, ResultTyped DEF PickerInv, Picker!TypeOK, Picker!picker
    <2> QED BY <2>1, <2>2, <2>3
  <1>11. CASE list # << >>
    <2>1. PICK indices : indices = [i \in 1 .. Len(list) |-> i]
      OBVIOUS
    <2>2. Picker!Show("wifi", list, indices, 0, 0) /\ wifi_scan_picker' = list
      BY <1>2, <1>6, <1>11, <2>1
    <2>3. /\ list \in Seq(Picker!Items) /\ indices \in Seq(Nat \ {0}) /\ (indices # << >> => 0 < Len(indices))
          /\ "wifi" \in Picker!Modes
      <3>1. list \in Seq(Picker!Items)
        BY <1>7 DEF Picker!Items
      <3>2. indices \in Seq(Nat \ {0})
        BY <2>1, <3>1, CountedOff
      <3>3. indices # << >> => 0 < Len(indices)
        BY <3>2, EmptySeq
      <3> QED BY <3>1, <3>2, <3>3 DEF Picker!Modes
    <2>4. list = Picker!ListOf("wifi")'
      BY <2>2 DEF Picker!ListOf
    <2>5. /\ Marked'
          /\ cmd_picker_mode' \in Picker!Modes \cup {"none"} /\ cmd_picker_indices' \in Seq(Nat \ {0})
          /\ cmd_picker_selected' \in Nat /\ cmd_picker_top' \in 0 .. cmd_picker_selected'
          /\ marked' \in Picker!Items \cup {None} /\ disturbed' \in BOOLEAN
      BY <2>2, <2>3, <2>4, ShowMarks DEF PickerInv
    <2>6. Picker!TypeOK'
      BY <1>3, <1>4, <1>7, <1>8, <2>2, <2>5 DEF PickerInv, Picker!TypeOK
    <2> QED BY <1>3, <1>9, <2>5, <2>6 DEF PickerInv
  <1> QED BY <1>10, <1>11

(* The invariant holds of a prompt nobody used. *)
LEMMA InitPickerInv == ASSUME Picker!PickerAssumption, Picker!Init PROVE PickerInv
  <1>1. prompt \in BOOLEAN /\ wifi_scan_pending \in BOOLEAN /\ disturbed \in BOOLEAN
    BY Zenon DEF Picker!Init
  <1>2. << >> \in Seq(Files \cup Dirs) /\ << >> \in Seq(Networks) /\ << >> \in Seq(Remotes) /\ << >> \in Seq(Nat \ {0})
        /\ Len(<< >>) = 0 /\ DOMAIN << >> = {}
    BY EmptySeq
  <1>3. MAX_FILE_LIST \in Nat /\ WIFI_SCAN_PICKER_MAX \in Nat /\ MAX_MOUNT_LIST \in Nat
    BY DEF Picker!PickerAssumption
  <1>4. << >> \in Picker!BoundedSeq(Networks, WIFI_SCAN_PICKER_MAX) /\ << >> \in Picker!BoundedSeq(Remotes, MAX_MOUNT_LIST)
    <2>1. << >> \in Picker!BoundedSeq(Networks, WIFI_SCAN_PICKER_MAX)
      <3>1. 0 <= WIFI_SCAN_PICKER_MAX
        BY <1>3
      <3> QED BY <1>2, <1>3, <3>1, Bounded
    <2>2. << >> \in Picker!BoundedSeq(Remotes, MAX_MOUNT_LIST)
      <3>1. 0 <= MAX_MOUNT_LIST
        BY <1>3
      <3> QED BY <1>2, <1>3, <3>1, Bounded
    <2> QED BY <2>1, <2>2
  <1>5. Picker!IsInjective(<< >>)
    BY <1>2 DEF Picker!IsInjective
  <1>6. picker_job \in [Picker!Tasks -> [at : {"idle", "listed", "fetched", "indexed"}, n : 0 .. MAX_FILE_LIST]]
    BY <1>3 DEF Picker!Init, Picker!Idle
  <1>7. opened \in [at : {"closed", "chosen", "loaded", "done"}, ref : Nat,
                 row : Picker!Items \cup {None}, loaded : Picker!Items \cup {None}, named : Picker!Items \cup {None}]
        /\ opened.at = "closed"
    BY DEF Picker!Init, Picker!Closed
  <1>8. Picker!TypeOK
    BY <1>1, <1>2, <1>3, <1>4, <1>5, <1>6, <1>7 DEF Picker!Init, Picker!TypeOK
  <1>9. Marked /\ Entered
    BY <1>7 DEF Picker!Init, Marked, Entered, Picker!cmdPickerIsActive
  <1> QED BY <1>7, <1>8, <1>9 DEF PickerInv

(* Every step keeps it. *)
LEMMA NextPickerInv == ASSUME Picker!PickerAssumption, PickerInv, [Picker!Next]_(Picker!vars) PROVE PickerInv'
  <1>1. CASE UNCHANGED Picker!vars
    <2>1. UNCHANGED <<prompt, file_list, wifi_scan_picker, mount_list, picker_mount, wifi_scan_pending,
                      cmd_picker_mode, cmd_picker_indices, cmd_picker_selected, cmd_picker_top, marked,
                      picker_job, opened, disturbed>>
      BY <1>1 DEF Picker!vars, Picker!lists, Picker!picker
    <2>2. (Marked => Marked') /\ (Entered => Entered')
      BY <2>1 DEF Marked, Entered, Picker!cmdPickerIsActive, Picker!cmd_picker_count, Picker!ListOf
    <2> QED BY <2>1, <2>2 DEF PickerInv, Picker!TypeOK
  <1>2. ASSUME NEW delta \in {-1, 1}, Picker!cmdPickerMoveSelection(delta) \/ Picker!cmdPickerPage(delta) PROVE PickerInv'
    <2>1. delta \in Int /\ delta * Picker!cmdPickerVisibleRows \in Int
      BY DEF Picker!cmdPickerVisibleRows, Picker!PickerAssumption
    <2> QED BY <1>2, <2>1, MoveKeeps DEF Picker!cmdPickerPage
  <1>3. CASE Picker!cmdPickerCancel \/ Picker!Leave \/ Picker!OpenPrompt
    BY <1>3, CloseKeeps
  <1>4. CASE Picker!EnterEdit \/ Picker!EnterOther
    BY <1>4, EnterKeeps
  <1>5. CASE Picker!Load \/ Picker!Name \/ Picker!LoadFails \/ Picker!Done
    BY <1>5, OpenKeeps
  <1>6. "loop" \in Picker!Tasks
    BY DEF Picker!Tasks
  <1>7. CASE Picker!UploadList
    BY <1>6, <1>7, ListKeeps
  <1>8. CASE Picker!OtherResult
    BY <1>6, <1>8, ResultKeeps
  <1>9. CASE Picker!finishWifiScanCommand
    BY <1>9, FinishScanKeeps
  <1>10. ASSUME NEW t \in Picker!Tasks,
                Picker!EditList(t) \/ Picker!EditListFails(t) \/ Picker!EditIndex(t) \/ Picker!EditStart(t) \/ Picker!EditNamed(t)
                \/ Picker!List(t) \/ Picker!MountFetch(t) \/ Picker!MountStart(t) \/ Picker!wifiScanCommand(t)
                \/ \E m \in Remotes \cup {None} : Picker!MountNamed(t, m)
         PROVE PickerInv'
    BY <1>10, ListKeeps, ResultKeeps, EditKeeps, MountKeeps, ScanKeeps
  <1> QED BY <1>1, <1>2, <1>3, <1>4, <1>5, <1>7, <1>8, <1>9, <1>10 DEF Picker!Next

(* It says what the checked property says. *)
LEMMA PickerKept == PickerInv => Picker!TypeOK /\ Picker!OpensWhatIsShown
  BY DEF PickerInv, Entered, Picker!OpensWhatIsShown

-----------------------------------------------------------------------------
(* The clock and the receiver.  What is left of a burst is its end; the    *)
(* time and the date heard are those of two seconds of the past, the date  *)
(* never the later; and while whole bursts are heard they are of this      *)
(* second, or of the last one until RMC has come.                          *)

HasRmc == \E k \in 1 .. Len(burst) : burst[k] = "RMC"
RmcHeard == \E k \in 1 .. Len(burst) - Len(left) : burst[k] = "RMC"

Suffix ==
  /\ burst \in Seq(STRING) /\ burst # << >> /\ left \in Seq(STRING) /\ Len(left) <= Len(burst)
  /\ \A k \in 1 .. Len(left) : left[k] = burst[Len(burst) - Len(left) + k]

\* The seconds of which every sentence has been sent.
Over == IF left = << >> THEN now ELSE now - 1

HeardSeconds ==
  utc_date # None =>
    \E r \in 0 .. now, q \in 0 .. now : r <= q /\ utc_date = r \div DAY /\ utc_time = q % DAY
Behind ==
  /\ -now <= error /\ error <= 0 /\ time_sync_last_gnss_try <= now
  /\ clean <= Over /\ (~power_on => clean = 0)
  /\ ~HasRmc => utc_date = None /\ error = 0

Told(t) == gnss_rmc_fix /\ utc_date = t \div DAY
Fresh ==
  HasRmc =>
    /\ left # << >> /\ clean >= 1 /\ RmcHeard => Told(now) /\ utc_time = now % DAY
    /\ left = << >> /\ clean >= 2 => Told(now) /\ utc_time = now % DAY
    /\ left # << >> /\ clean >= 2 /\ ~RmcHeard =>
         Told(now - 1) /\ utc_time \in {(now - 1) % DAY, now % DAY}
Synced ==
  HasRmc /\ clean >= 2 =>
    /\ time_sync_last_gnss_try # 0 /\ now - time_sync_last_gnss_try <= INTERVAL
    /\ left = << >> => now - time_sync_last_gnss_try < INTERVAL
Exact ==
  HasRmc /\ time_sync_last_gnss_try >= Over - clean + 3 =>
    error >= -1 \/ time_sync_last_gnss_try % DAY = 0

\* The probe has wasted no more than its time at a wrong speed, and at the right one a
\* sentence comes before it looks again.
Probing ==
  power_on /\ ~missed =>
    /\ gnss_baud_index <= RightBaud
    /\ gnss_baud_index < RightBaud =>
         /\ ~gnss_seen_valid_sentence /\ now <= gnss_baud_set + PROBE
         /\ gnss_baud_set <= powered_at + gnss_baud_index * (PROBE + 1)
    /\ gnss_baud_index = RightBaud =>
         gnss_seen_valid_sentence \/ left = burst \/ (left = << >> /\ gnss_baud_set = now)

ClockInv == HeardSeconds /\ Behind /\ Fresh /\ Synced /\ Exact
GnssInv == Gnss!TypeOK /\ Suffix /\ ClockInv /\ Probing

(* Days and seconds of the day. *)
LEMMA DaySplit ==
  ASSUME NEW D \in Nat \ {0}, NEW q \in Nat
  PROVE  /\ q \div D \in Nat /\ q % D \in 0 .. D - 1 /\ (q \div D) * D + (q % D) = q
         /\ q \div D <= q
  <1>1. q \div D \in Nat /\ q % D \in 0 .. D - 1
    OBVIOUS
  <1>2. (q \div D) * D + (q % D) = q
    OBVIOUS
  <1>3. \A x \in Nat : x <= x * D
    OBVIOUS
  <1>4. q \div D <= (q \div D) * D
    BY ONLY <1>1, <1>3
  <1> DEFINE x == q \div D
             y == q % D
             z == (q \div D) * D
  <1>5. x \in Nat /\ y \in Nat /\ z \in Nat /\ z + y = q /\ x <= z
    BY <1>1, <1>2, <1>4
  <1>6. x <= q
    <2> HIDE DEF x, y, z
    <2> QED BY ONLY <1>5, q \in Nat
  <1> QED BY <1>1, <1>2, <1>6

(* The date of an earlier second with the time of a later one is not ahead *)
(* of the later one.                                                       *)
LEMMA DateBehind ==
  ASSUME NEW D \in Nat \ {0}, NEW q \in Nat, NEW r \in 0 .. q
  PROVE  (r \div D) * D + (q % D) \in 0 .. q
  <1> DEFINE a == r \div D
             b == q \div D
             c == q % D
  <1>1. a <= b
    OBVIOUS
  <1>2. a \in Nat /\ b \in Nat /\ c \in Nat /\ b * D + c = q
    BY DaySplit
  <1>3. \A u, v \in Nat : u <= v => u * D <= v * D
    OBVIOUS
  <1> HIDE DEF a, b, c
  <1>4. a * D <= b * D /\ a * D \in Nat /\ b * D \in Nat
    BY <1>1, <1>2, <1>3
  <1>5. a * D + c \in 0 .. q
    BY ONLY <1>2, <1>4, q \in Nat
  <1> QED BY <1>5 DEF a, c

(* Of two seconds in a row the days differ only at the start of a day. *)
LEMMA SameDay ==
  ASSUME NEW D \in Nat \ {0}, NEW q \in Nat, (q + 1) % D # 0
  PROVE  (q + 1) \div D = q \div D
  OBVIOUS

(* What a sentence read leaves of the burst. *)
LEMMA SentenceRead ==
  ASSUME Suffix, left # << >>, left' = Tail(left), burst' = burst
  PROVE  /\ Suffix' /\ Len(left) \in Nat \ {0} /\ (left' = << >> <=> Len(left) = 1) /\ left' # burst'
         /\ HasRmc' <=> HasRmc
         /\ RmcHeard' <=> RmcHeard \/ Head(left) = "RMC"
         /\ Head(left) = "RMC" => HasRmc
         /\ left' = << >> /\ HasRmc => RmcHeard'
  <1> DEFINE n == Len(left)
             m == Len(burst)
  <1>1. n \in Nat \ {0} /\ m \in Nat /\ n <= m /\ left' \in Seq(STRING) /\ Len(left') = n - 1
        /\ \A k \in 1 .. n - 1 : left'[k] = left[k + 1]
    BY HeadTailProperties, EmptySeq DEF Suffix
  <1>2. Head(left) = burst[m - n + 1] /\ m - n + 1 \in 1 .. m
    BY <1>1 DEF Suffix
  <1>3. left' = << >> <=> n = 1
    <2>1. left' = << >> <=> Len(left') = 0
      BY <1>1, EmptySeq
    <2> QED BY <1>1, <2>1
  <1>4. m - (n - 1) = m - n + 1 /\ \A k \in 1 .. m - n + 1 : k \in 1 .. m - n \/ k = m - n + 1
    BY <1>1
  <1>5. RmcHeard' <=> RmcHeard \/ Head(left) = "RMC"
    <2>1. RmcHeard' <=> \E k \in 1 .. m - n + 1 : burst[k] = "RMC"
      BY <1>1, <1>4 DEF RmcHeard
    <2>2. (\E k \in 1 .. m - n + 1 : burst[k] = "RMC") <=> RmcHeard \/ Head(left) = "RMC"
      BY <1>1, <1>2, <1>4 DEF RmcHeard
    <2> QED BY <2>1, <2>2
  <1>6. Suffix'
    <2>1. ASSUME NEW k \in 1 .. n - 1 PROVE left'[k] = burst[m - (n - 1) + k]
      <3>1. k + 1 \in 1 .. n /\ m - n + (k + 1) = m - (n - 1) + k
        BY <1>1
      <3>2. left[k + 1] = burst[m - n + (k + 1)]
        BY <3>1 DEF Suffix
      <3> QED BY <1>1, <3>1, <3>2
    <2> QED BY <1>1, <2>1 DEF Suffix
  <1>7. HasRmc' <=> HasRmc
    BY DEF HasRmc
  <1>8. Head(left) = "RMC" => HasRmc
    BY <1>2 DEF HasRmc
  <1>9. left' = << >> /\ HasRmc => RmcHeard'
    <2>1. left' = << >> => m - Len(left') = m
      BY <1>1, <1>3
    <2>2. left' = << >> => (RmcHeard' <=> HasRmc)
      BY <2>1 DEF HasRmc, RmcHeard
    <2> QED BY <2>2
  <1>10. left' # burst'
    BY <1>1
  <1> QED BY <1>1, <1>3, <1>5, <1>6, <1>7, <1>8, <1>9, <1>10

(* The clock as a synchronisation sets it. *)
LEMMA SetFromSession ==
  ASSUME Gnss!GnssAssumption, now \in Nat, HeardSeconds', now' = now, utc_date' # None,
         error' = utc_date' * DAY + utc_time' - now
  PROVE  /\ error' \in -now .. 0
         /\ utc_date' = now \div DAY /\ utc_time' = now % DAY => error' = 0
         /\ now >= 1 /\ utc_date' = (now - 1) \div DAY /\ utc_time' = (now - 1) % DAY => error' = -1
         /\ now >= 1 /\ utc_date' = (now - 1) \div DAY /\ utc_time' = now % DAY =>
              error' = 0 \/ now % DAY = 0
  <1>1. DAY \in Nat \ {0}
    BY DEF Gnss!GnssAssumption
  <1>2. PICK r \in 0 .. now, q \in 0 .. now : r <= q /\ utc_date' = r \div DAY /\ utc_time' = q % DAY
    BY DEF HeardSeconds
  <1>3. (r \div DAY) * DAY + (q % DAY) \in 0 .. q
    BY <1>1, <1>2, DateBehind
  <1>4. \A a, b \in Nat : utc_date' = a /\ utc_time' = b => error' = (a * DAY + b) - now
    <2>1. \A a \in Nat : a * DAY \in Nat
      BY <1>1
    <2>2. \A p, b, t \in Nat : p + (b - t) = (p + b) - t
      OBVIOUS
    <2> QED BY <2>1, <2>2
  <1>5. \A t \in Nat : t \div DAY \in Nat /\ t % DAY \in Nat
    <2>1. \A t \in Nat : t \div DAY \in Nat /\ t % DAY \in 0 .. DAY - 1
      BY <1>1, DaySplit
    <2>2. 0 .. DAY - 1 \subseteq Nat
      BY <1>1
    <2> QED BY <2>1, <2>2
  <1>6. error' \in -now .. 0
    <2> DEFINE s == (r \div DAY) * DAY + (q % DAY)
    <2>1. error' = s - now
      BY <1>2, <1>4, <1>5
    <2> HIDE DEF s
    <2>2. s \in 0 .. now
      BY <1>3 DEF s
    <2> QED BY ONLY <2>1, <2>2, now \in Nat
  <1>7. ASSUME NEW s \in Nat, utc_date' = s \div DAY, utc_time' = s % DAY
        PROVE  error' = s - now
    <2>1. (s \div DAY) * DAY + (s % DAY) = s
      BY <1>1, DaySplit
    <2> QED BY <1>7, <1>4, <1>5, <2>1
  <1>8. utc_date' = now \div DAY /\ utc_time' = now % DAY => error' = 0
    BY <1>7
  <1>9. now >= 1 /\ utc_date' = (now - 1) \div DAY /\ utc_time' = (now - 1) % DAY => error' = -1
    <2> SUFFICES ASSUME now >= 1, utc_date' = (now - 1) \div DAY, utc_time' = (now - 1) % DAY
                 PROVE  error' = -1
      OBVIOUS
    <2>1. now - 1 \in Nat
      OBVIOUS
    <2>2. error' = (now - 1) - now
      BY ONLY <1>7, <2>1, utc_date' = (now - 1) \div DAY, utc_time' = (now - 1) % DAY
    <2> QED BY <2>2
  <1>10. now >= 1 /\ utc_date' = (now - 1) \div DAY /\ utc_time' = now % DAY => error' = 0 \/ now % DAY = 0
    <2> SUFFICES ASSUME now >= 1, utc_date' = (now - 1) \div DAY, utc_time' = now % DAY, now % DAY # 0
                 PROVE  error' = 0
      OBVIOUS
    <2>1. (now - 1) + 1 = now /\ now - 1 \in Nat
      OBVIOUS
    <2>2. now \div DAY = (now - 1) \div DAY
      BY <1>1, <2>1, SameDay
    <2> QED BY <1>8, <2>2
  <1> QED BY <1>6, <1>8, <1>9, <1>10

(* What a sentence that is heard says of the time. *)
LEMMA HeardTime ==
  ASSUME Gnss!GnssAssumption, GnssInv, Gnss!Heard(Head(left)), now' = now
  PROVE  /\ HeardSeconds'
         /\ utc_time' \in (0 .. DAY - 1) \cup {None} /\ utc_date' \in (0 .. MaxTime) \cup {None}
         /\ gnss_rmc_fix' \in BOOLEAN /\ gnss_gga_fix' \in BOOLEAN
         /\ Head(left) # "RMC" => utc_date' = utc_date /\ gnss_rmc_fix' = gnss_rmc_fix
         /\ utc_time' \in {utc_time, now % DAY}
         /\ fix /\ Head(left) = "RMC" => Told(now)' /\ utc_time' = now % DAY
  <1>1. now \in 1 .. MaxTime /\ MaxTime \in Nat /\ DAY \in Nat \ {0} /\ fix \in BOOLEAN
    BY DEF GnssInv, Gnss!TypeOK, Gnss!GnssAssumption
  <1>2. now \div DAY \in 0 .. MaxTime /\ now % DAY \in 0 .. DAY - 1
    <2>1. now \in Nat
      BY <1>1
    <2>2. now \div DAY \in Nat /\ now \div DAY <= now /\ now % DAY \in 0 .. DAY - 1
      BY <1>1, <2>1, DaySplit
    <2> HIDE DEF GnssInv
    <2> QED BY <1>1, <2>2
  <1>3. PICK given \in BOOLEAN :
          /\ fix => given
          /\ Head(left) = "RMC" => Gnss!gnssParseRmc(given)
          /\ Head(left) = "GGA" => Gnss!gnssParseGga(given)
          /\ Head(left) \notin {"RMC", "GGA"} => UNCHANGED Gnss!session
    BY DEF Gnss!Heard
  <1>4. /\ gnss_rmc_fix' \in BOOLEAN /\ gnss_gga_fix' \in BOOLEAN
        /\ \/ UNCHANGED utc_date
           \/ Head(left) = "RMC" /\ utc_date' = now \div DAY /\ utc_time' = now % DAY
        /\ Head(left) # "RMC" => utc_date' = utc_date /\ gnss_rmc_fix' = gnss_rmc_fix
        /\ utc_time' \in {utc_time, now % DAY}
    <2>1. CASE Head(left) = "RMC"
      BY <1>1, <1>3, <2>1 DEF Gnss!gnssParseRmc, GnssInv, Gnss!TypeOK
    <2>2. CASE Head(left) = "GGA"
      BY <1>1, <1>3, <2>2 DEF Gnss!gnssParseGga, GnssInv, Gnss!TypeOK
    <2>3. CASE Head(left) \notin {"RMC", "GGA"}
      BY <1>3, <2>3 DEF Gnss!session, GnssInv, Gnss!TypeOK
    <2> QED BY <2>1, <2>2, <2>3
  <1>5. HeardSeconds'
    <2> SUFFICES ASSUME utc_date' # None
                 PROVE  \E r \in 0 .. now, q \in 0 .. now :
                          r <= q /\ utc_date' = r \div DAY /\ utc_time' = q % DAY
      BY DEF HeardSeconds
    <2>1. now \in 0 .. now /\ now <= now
      BY <1>1
    <2>2. CASE utc_date' = now \div DAY /\ utc_time' = now % DAY
      BY <2>1, <2>2
    <2>3. CASE UNCHANGED utc_date
      <3>1. PICK r \in 0 .. now, q \in 0 .. now : r <= q /\ utc_date = r \div DAY /\ utc_time = q % DAY
        BY <2>3 DEF GnssInv, ClockInv, HeardSeconds
      <3>2. r <= now
        BY <1>1
      <3>3. CASE utc_time' = utc_time
        BY <2>3, <3>1, <3>3
      <3>4. CASE utc_time' = now % DAY
        BY <2>1, <2>3, <3>1, <3>2, <3>4
      <3> QED BY <1>4, <3>3, <3>4
    <2> QED BY <1>4, <2>2, <2>3
  <1>6. fix /\ Head(left) = "RMC" => Told(now)' /\ utc_time' = now % DAY
    BY <1>3 DEF Told, Gnss!gnssParseRmc
  <1> QED BY <1>2, <1>4, <1>5, <1>6 DEF GnssInv, Gnss!TypeOK

(* A sentence heard may set the clock. *)
LEMMA HeardSyncs ==
  ASSUME Gnss!GnssAssumption, GnssInv, Gnss!Heard(Head(left)), now' = now
  PROVE  \/ /\ UNCHANGED Gnss!sync
            /\ ~(/\ gnss_rmc_fix' \/ gnss_gga_fix'
                 /\ utc_time' # None /\ utc_date' # None
                 /\ time_sync_last_gnss_try = 0 \/ now - time_sync_last_gnss_try >= INTERVAL)
         \/ /\ utc_date' # None /\ time_sync_last_gnss_try' = now /\ time_sync_source' = "gps"
            /\ error' = utc_date' * DAY + utc_time' - now
  BY DEF Gnss!Heard, Gnss!timeSyncMaybeFromGnss

(* The clock after a sentence that is heard. *)
LEMMA HeardClock ==
  ASSUME Gnss!GnssAssumption, GnssInv, left # << >>, left' = Tail(left), Gnss!Heard(Head(left)),
         UNCHANGED <<burst, now, fix, power_on>>
  PROVE  ClockInv' /\ error' \in -MaxTime .. MaxTime /\ time_sync_last_gnss_try' \in 0 .. MaxTime
         /\ clean' \in 0 .. MaxTime /\ time_sync_source' \in {"none", "ntp", "gps"}
  <1>1. /\ now \in 1 .. MaxTime /\ MaxTime \in Nat /\ DAY \in Nat \ {0} /\ INTERVAL \in Nat \ {0}
        /\ fix \in BOOLEAN /\ clean \in 0 .. MaxTime /\ time_sync_last_gnss_try \in 0 .. MaxTime
        /\ error \in -MaxTime .. MaxTime /\ None \notin Int
    BY DEF GnssInv, Gnss!TypeOK, Gnss!GnssAssumption
  <1>2. /\ Suffix' /\ Len(left) \in Nat \ {0} /\ (left' = << >> <=> Len(left) = 1)
        /\ HasRmc' <=> HasRmc
        /\ RmcHeard' <=> RmcHeard \/ Head(left) = "RMC"
        /\ Head(left) = "RMC" => HasRmc
        /\ left' = << >> /\ HasRmc => RmcHeard'
    BY SentenceRead DEF GnssInv
  <1>3. /\ HeardSeconds'
        /\ Head(left) # "RMC" => utc_date' = utc_date /\ gnss_rmc_fix' = gnss_rmc_fix
        /\ utc_time' \in {utc_time, now % DAY}
        /\ fix /\ Head(left) = "RMC" => Told(now)' /\ utc_time' = now % DAY
    BY HeardTime
  <1>4. /\ fix => clean' = clean + (IF left' = << >> THEN 1 ELSE 0)
        /\ ~fix => clean' = 0
    BY <1>2 DEF Gnss!Heard
  <1>5. /\ Over = now - 1 /\ Over' = IF left' = << >> THEN now ELSE now - 1
        /\ clean <= now - 1 /\ clean' \in 0 .. MaxTime /\ clean' <= Over'
        /\ fix => Over' - clean' = Over - clean
        /\ Over' \in Nat /\ Over' >= now - 1
    <2>1. Over = now - 1 /\ Over' = IF left' = << >> THEN now ELSE now - 1
      BY DEF Over
    <2>2. clean <= now - 1
      BY <2>1 DEF GnssInv, ClockInv, Behind
    <2> QED BY <1>1, <1>4, <2>1, <2>2
  <1>6. Fresh'
    <2> SUFFICES ASSUME HasRmc, fix, clean' >= 1
                 PROVE  /\ left' # << >> /\ clean' >= 1 /\ RmcHeard' => Told(now)' /\ utc_time' = now % DAY
                        /\ left' = << >> /\ clean' >= 2 => Told(now)' /\ utc_time' = now % DAY
                        /\ left' # << >> /\ clean' >= 2 /\ ~RmcHeard' =>
                             Told(now - 1)' /\ utc_time' \in {(now - 1) % DAY, now % DAY}
      BY <1>1, <1>2, <1>4 DEF Fresh, Told
    <2>1. ASSUME RmcHeard', clean >= 1 PROVE Told(now)' /\ utc_time' = now % DAY
      <3>1. CASE Head(left) = "RMC"
        BY <1>3, <3>1
      <3>2. CASE Head(left) # "RMC"
        <4>1. Told(now) /\ utc_time = now % DAY
          BY <1>2, <2>1, <3>2 DEF GnssInv, ClockInv, Fresh
        <4> QED BY <1>3, <3>2, <4>1 DEF Told
      <3> QED BY <3>1, <3>2
    <2>2. ASSUME ~RmcHeard', clean >= 2
          PROVE  Told(now - 1)' /\ utc_time' \in {(now - 1) % DAY, now % DAY}
      <3>1. Head(left) # "RMC" /\ ~RmcHeard
        BY <1>2, <2>2
      <3>2. Told(now - 1) /\ utc_time \in {(now - 1) % DAY, now % DAY}
        BY <1>1, <2>2, <3>1 DEF GnssInv, ClockInv, Fresh
      <3> QED BY <1>3, <3>1, <3>2 DEF Told
    <2>3. /\ left' # << >> => clean' = clean
          /\ left' = << >> => clean' = clean + 1 /\ RmcHeard'
      BY <1>1, <1>2, <1>4
    <2>4. clean' >= 2 => clean' >= 1
      BY <1>5
    <2>5. left' = << >> /\ clean' >= 2 => clean >= 1
      BY <1>1, <2>3
    <2> QED BY <2>1, <2>2, <2>3, <2>4, <2>5
  <1>7. \/ /\ UNCHANGED Gnss!sync
           /\ ~(/\ gnss_rmc_fix' \/ gnss_gga_fix'
                /\ utc_time' # None /\ utc_date' # None
                /\ time_sync_last_gnss_try = 0 \/ now - time_sync_last_gnss_try >= INTERVAL)
        \/ /\ utc_date' # None /\ time_sync_last_gnss_try' = now /\ time_sync_source' = "gps"
           /\ error' = utc_date' * DAY + utc_time' - now
    BY HeardSyncs
  <1>8. CASE /\ UNCHANGED Gnss!sync
             /\ ~(/\ gnss_rmc_fix' \/ gnss_gga_fix'
                  /\ utc_time' # None /\ utc_date' # None
                  /\ time_sync_last_gnss_try = 0 \/ now - time_sync_last_gnss_try >= INTERVAL)
    <2>1. /\ UNCHANGED <<time_sync_source, time_sync_last_gnss_try, error>>
          /\ time_sync_last_gnss_try <= now /\ -now <= error /\ error <= 0
          /\ ~power_on => clean = 0
      BY <1>8 DEF Gnss!sync, GnssInv, ClockInv, Behind
    <2>2. Behind'
      <3>1. ~HasRmc' => utc_date' = None /\ error' = 0
        BY <1>2, <1>3, <2>1 DEF GnssInv, ClockInv, Behind
      <3>2. ~power_on' => clean' = 0
        BY DEF Gnss!Heard
      <3> QED BY <1>1, <1>5, <2>1, <3>1, <3>2 DEF Behind
    <2>3. Synced'
      <3> SUFFICES ASSUME HasRmc, clean' >= 2
                   PROVE  /\ time_sync_last_gnss_try # 0 /\ now - time_sync_last_gnss_try <= INTERVAL
                          /\ left' = << >> => now - time_sync_last_gnss_try < INTERVAL
        BY <1>2, <2>1 DEF Synced
      <3>1. fix
        BY <1>4
      <3>2. CASE left' # << >>
        BY <1>1, <1>4, <3>1, <3>2 DEF GnssInv, ClockInv, Synced
      <3>3. CASE left' = << >>
        <4>1. Told(now)' /\ utc_time' = now % DAY
          BY <1>6, <1>2, <3>3 DEF Fresh
        <4>2. now \in Nat
          BY <1>1
        <4>3. now \div DAY \in Int /\ now % DAY \in Int
          BY <1>1, <4>2, DaySplit
        <4>4. now \div DAY # None /\ now % DAY # None
          BY <1>1, <4>3
        <4>5. ~(time_sync_last_gnss_try = 0 \/ now - time_sync_last_gnss_try >= INTERVAL)
          BY <1>8, <4>1, <4>4 DEF Told
        <4> QED BY <1>1, <4>5
      <3> QED BY <3>2, <3>3
    <2>4. Exact'
      <3> SUFFICES ASSUME HasRmc, time_sync_last_gnss_try >= Over' - clean' + 3
                   PROVE  error >= -1 \/ time_sync_last_gnss_try % DAY = 0
        BY <1>2, <2>1 DEF Exact
      <3>1. fix
        <4>1. now \in Nat /\ time_sync_last_gnss_try \in Nat /\ clean' \in Nat /\ Over' \in Nat
          BY <1>1, <1>5
        <4>2. \A n, o, c, t \in Nat : o >= n - 1 /\ t <= n /\ t >= o - c + 3 => c # 0
          OBVIOUS
        <4>3. clean' # 0
          BY <1>5, <2>1, <4>1, <4>2
        <4> QED BY <1>1, <1>4, <4>3
      <3> QED BY <1>5, <3>1 DEF GnssInv, ClockInv, Exact
    <2> QED BY <1>1, <1>3, <1>5, <1>6, <2>1, <2>2, <2>3, <2>4 DEF ClockInv, GnssInv, Gnss!TypeOK
  <1>9. CASE /\ utc_date' # None /\ time_sync_last_gnss_try' = now /\ time_sync_source' = "gps"
             /\ error' = utc_date' * DAY + utc_time' - now
    <2>1. /\ error' \in -now .. 0
          /\ utc_date' = now \div DAY /\ utc_time' = now % DAY => error' = 0
          /\ utc_date' = (now - 1) \div DAY /\ utc_time' = (now - 1) % DAY => error' = -1
          /\ utc_date' = (now - 1) \div DAY /\ utc_time' = now % DAY => error' = 0 \/ now % DAY = 0
      BY <1>1, <1>3, <1>9, SetFromSession
    <2>2. Behind'
      <3>1. HasRmc
        BY <1>2, <1>3, <1>9 DEF GnssInv, ClockInv, Behind
      <3>2. ~power_on' => clean' = 0
        BY DEF Gnss!Heard
      <3> QED BY <1>1, <1>2, <1>5, <1>9, <2>1, <3>1, <3>2 DEF Behind
    <2>3. Synced'
      BY <1>1, <1>9 DEF Synced
    <2>4. Exact'
      <3> SUFFICES ASSUME HasRmc, now >= Over' - clean' + 3
                   PROVE  error' >= -1 \/ now % DAY = 0
        BY <1>2, <1>9 DEF Exact
      <3>1. clean' >= 2
        <4>1. clean' \in Nat /\ now \in Nat /\ Over' \in Nat /\ Over' >= now - 1
          BY <1>1, <1>5
        <4>2. \A n, o, c \in Nat : o >= n - 1 /\ n >= o - c + 3 => c >= 2
          OBVIOUS
        <4> QED BY <4>1, <4>2
      <3>2. CASE left' = << >> \/ RmcHeard'
        <4>1. clean' >= 1
          BY <1>5, <3>1
        <4> QED BY <1>2, <1>6, <2>1, <3>1, <3>2, <4>1 DEF Fresh, Told
      <3>3. CASE left' # << >> /\ ~RmcHeard'
        BY <1>2, <1>6, <2>1, <3>1, <3>3 DEF Fresh, Told
      <3> QED BY <3>2, <3>3
    <2> QED BY <1>1, <1>3, <1>5, <1>6, <1>9, <2>1, <2>2, <2>3, <2>4 DEF ClockInv
  <1> QED BY <1>7, <1>8, <1>9

(* A second without a whole burst heard says nothing of the clock. *)
LEMMA UncleanClock ==
  ASSUME Gnss!GnssAssumption, GnssInv, clean' = 0, UNCHANGED <<burst, now, Gnss!sync>>,
         UNCHANGED <<utc_date, utc_time>> \/ utc_date' = None
  PROVE  ClockInv'
  <1>1. /\ now \in Nat /\ now >= 1 /\ time_sync_last_gnss_try \in Nat /\ time_sync_last_gnss_try <= now
        /\ UNCHANGED <<now, time_sync_last_gnss_try, error>>
        /\ UNCHANGED <<utc_date, utc_time>> \/ utc_date' = None
    BY DEF GnssInv, Gnss!TypeOK, ClockInv, Behind, Gnss!GnssAssumption, Gnss!sync
  <1>2. HeardSeconds'
    BY <1>1 DEF GnssInv, ClockInv, HeardSeconds
  <1>3. Over' \in Nat /\ Over' >= now - 1
    BY <1>1 DEF Over
  <1>4. Behind'
    BY <1>1, <1>3 DEF GnssInv, ClockInv, Behind, HasRmc
  <1>5. Fresh' /\ Synced'
    BY DEF Fresh, Synced
  <1>6. Exact'
    <2>1. \A n, o, t \in Nat : o >= n - 1 /\ t <= n => ~(t >= o - 0 + 3)
      OBVIOUS
    <2>2. ~(time_sync_last_gnss_try >= Over' - 0 + 3)
      BY <1>1, <1>3, <2>1
    <2> QED BY <1>1, <2>2 DEF Exact
  <1> QED BY <1>2, <1>4, <1>5, <1>6 DEF ClockInv

(* Another act or lost sentence, within the bounds. *)
LEMMA OneMore ==
  ASSUME Gnss!GnssAssumption, GnssInv
  PROVE  /\ gnss_bounds.user < MaxUser =>
              [gnss_bounds EXCEPT !.user = @ + 1] \in [lost : 0 .. MaxLost, user : 0 .. MaxUser]
         /\ gnss_bounds.lost < MaxLost =>
              [gnss_bounds EXCEPT !.lost = @ + 1] \in [lost : 0 .. MaxLost, user : 0 .. MaxUser]
  <1>1. gnss_bounds \in [lost : 0 .. MaxLost, user : 0 .. MaxUser] /\ MaxLost \in Nat /\ MaxUser \in Nat
    BY DEF GnssInv, Gnss!TypeOK, Gnss!GnssAssumption
  <1> QED BY <1>1

(* A sentence heard, garbled, or sent to a receiver that is off. *)
LEMMA SentenceInv == ASSUME Gnss!GnssAssumption, GnssInv, Gnss!Sentence PROVE GnssInv'
  <1>1. /\ left # << >> /\ left' = Tail(left)
        /\ UNCHANGED <<burst, now, fix, power_on, gnss_baud_index, gnss_baud_set, powered_at>>
    BY DEF Gnss!Sentence
  <1>2. Suffix' /\ left' # burst' /\ Len(left') <= Len(burst')
    BY <1>1, SentenceRead DEF GnssInv, Suffix
  <1>3. CASE Gnss!Heard(Head(left))
    <2>1. /\ power_on /\ gnss_baud_index = RightBaud /\ gnss_seen_valid_sentence' = TRUE
          /\ UNCHANGED <<missed, gnss_bounds>>
      BY <1>3 DEF Gnss!Heard
    <2>2. ClockInv' /\ error' \in -MaxTime .. MaxTime /\ time_sync_last_gnss_try' \in 0 .. MaxTime
          /\ clean' \in 0 .. MaxTime /\ time_sync_source' \in {"none", "ntp", "gps"}
      BY <1>1, <1>3, HeardClock
    <2>3. /\ utc_time' \in (0 .. DAY - 1) \cup {None} /\ utc_date' \in (0 .. MaxTime) \cup {None}
          /\ gnss_rmc_fix' \in BOOLEAN /\ gnss_gga_fix' \in BOOLEAN
      BY <1>1, <1>3, HeardTime
    <2>4. Gnss!TypeOK'
      BY <1>1, <1>2, <2>1, <2>2, <2>3 DEF GnssInv, Gnss!TypeOK
    <2>5. Probing'
      BY <1>1, <2>1 DEF GnssInv, Gnss!TypeOK, Probing, Gnss!GnssAssumption
    <2> QED BY <1>2, <2>2, <2>4, <2>5 DEF GnssInv
  <1>4. CASE Gnss!Garbled \/ (~power_on /\ UNCHANGED <<Gnss!session, Gnss!sync, gnss_seen_valid_sentence, clean, missed, gnss_bounds>>)
    <2>1. UNCHANGED <<Gnss!session, Gnss!sync, gnss_seen_valid_sentence>> /\ clean' = 0
      <3>1. ~power_on => clean = 0
        BY DEF GnssInv, ClockInv, Behind
      <3> QED BY <1>4, <3>1 DEF Gnss!Garbled
    <2>2. ClockInv'
      <3>1. UNCHANGED <<utc_date, utc_time>>
        BY <2>1 DEF Gnss!session
      <3> QED BY <1>1, <2>1, <3>1, UncleanClock
    <2>3. /\ missed' \in BOOLEAN /\ gnss_bounds' \in [lost : 0 .. MaxLost, user : 0 .. MaxUser]
          /\ power_on /\ gnss_baud_index = RightBaud => missed'
          /\ missed => missed'
      BY <1>4, OneMore DEF Gnss!Garbled, GnssInv, Gnss!TypeOK
    <2>4. 0 \in 0 .. MaxTime
      BY DEF Gnss!GnssAssumption
    <2>5. Gnss!TypeOK'
      BY <1>1, <1>2, <2>1, <2>3, <2>4 DEF GnssInv, Gnss!TypeOK, Gnss!session, Gnss!sync
    <2>6. Probing'
      BY <1>1, <2>1, <2>3 DEF GnssInv, Probing
    <2> QED BY <1>2, <2>2, <2>5, <2>6 DEF GnssInv
  <1> QED BY <1>3, <1>4 DEF Gnss!Sentence

(* The next second, with the look at the speed that may come before it. *)
LEMMA SecondInv == ASSUME Gnss!GnssAssumption, GnssInv, Gnss!Second PROVE GnssInv'
  <1>1. /\ left = << >> /\ now < MaxTime /\ now' = now + 1 /\ left' = burst /\ fix' \in BOOLEAN
        /\ UNCHANGED <<burst, power_on, Gnss!session, Gnss!sync, gnss_seen_valid_sentence, Gnss!ghosts, gnss_bounds>>
        /\ IF Gnss!ProbeDue THEN gnss_baud_index' = gnss_baud_index + 1 /\ gnss_baud_set' = now
                       ELSE UNCHANGED <<gnss_baud_index, gnss_baud_set>>
    BY DEF Gnss!Second
  <1>2. /\ UNCHANGED <<gnss_rmc_fix, gnss_gga_fix, utc_time, utc_date>>
        /\ UNCHANGED <<time_sync_source, time_sync_last_gnss_try, error, clean, powered_at, missed>>
    BY <1>1 DEF Gnss!session, Gnss!sync, Gnss!ghosts
  <1>3. /\ now \in 1 .. MaxTime /\ now \in Nat /\ {MaxTime, PROBE, INTERVAL} \subseteq Nat \ {0}
        /\ RightBaud \in 0 .. Bauds - 1 /\ Bauds \in Nat
        /\ clean \in Nat /\ time_sync_last_gnss_try \in Nat /\ error \in Int
        /\ gnss_baud_index \in 0 .. Bauds - 1 /\ gnss_baud_set \in 0 .. MaxTime /\ powered_at \in 0 .. MaxTime
        /\ power_on \in BOOLEAN /\ missed \in BOOLEAN /\ gnss_seen_valid_sentence \in BOOLEAN
    BY DEF GnssInv, Gnss!TypeOK, Gnss!GnssAssumption
  <1>4. Suffix' /\ left' # << >> /\ ~RmcHeard' /\ HasRmc' = HasRmc
    <2>1. burst \in Seq(STRING) /\ burst # << >> /\ Len(burst) \in Nat
      BY DEF GnssInv, Suffix
    <2>2. Len(burst') - Len(left') = 0
      BY <1>1, <2>1
    <2> QED BY <1>1, <2>1, <2>2 DEF Suffix, RmcHeard, HasRmc
  <1>5. Gnss!TypeOK'
    <2>1. gnss_baud_index' \in 0 .. Bauds - 1 /\ gnss_baud_set' \in 0 .. MaxTime
      BY <1>1, <1>3 DEF Gnss!ProbeDue
    <2>2. now' \in 1 .. MaxTime
      BY <1>1, <1>3
    <2> QED BY <1>1, <1>2, <1>4, <2>1, <2>2 DEF GnssInv, Gnss!TypeOK, Suffix
  <1>6. Over = now /\ Over' = now
    BY <1>1, <1>3, <1>4 DEF Over
  <1>7. HeardSeconds'
    <2>1. 0 .. now \subseteq 0 .. now'
      BY <1>1, <1>3
    <2> QED BY <1>2, <2>1 DEF GnssInv, ClockInv, HeardSeconds
  <1>8. Behind'
    <2>1. -now <= error => -(now + 1) <= error
      BY <1>3
    <2> QED BY <1>1, <1>2, <1>3, <1>4, <1>6, <2>1 DEF GnssInv, ClockInv, Behind
  <1>9. Fresh'
    <2>1. now' - 1 = now
      BY <1>1, <1>3
    <2> QED BY <1>1, <1>2, <1>4, <2>1 DEF GnssInv, ClockInv, Fresh, Told
  <1>10. Synced' /\ Exact'
    BY <1>1, <1>2, <1>3, <1>4, <1>6 DEF GnssInv, ClockInv, Synced, Exact
  <1>11. Probing'
    <2> SUFFICES ASSUME power_on, ~missed
                 PROVE  /\ gnss_baud_index' <= RightBaud
                        /\ gnss_baud_index' < RightBaud =>
                             /\ ~gnss_seen_valid_sentence /\ now + 1 <= gnss_baud_set' + PROBE
                             /\ gnss_baud_set' <= powered_at + gnss_baud_index' * (PROBE + 1)
      BY <1>1, <1>2, <1>3 DEF Probing
    <2>1. CASE gnss_baud_index < RightBaud /\ Gnss!ProbeDue
      <3>1. gnss_baud_index' = gnss_baud_index + 1 /\ gnss_baud_set' = now /\ ~gnss_seen_valid_sentence
        BY <1>1, <2>1 DEF Gnss!ProbeDue
      <3>2. now <= gnss_baud_set + PROBE /\ gnss_baud_set <= powered_at + gnss_baud_index * (PROBE + 1)
        BY <2>1 DEF GnssInv, Probing
      <3>3. (gnss_baud_index + 1) * (PROBE + 1) = gnss_baud_index * (PROBE + 1) + PROBE + 1
            /\ gnss_baud_index * (PROBE + 1) \in Nat
        BY <1>3
      <3>4. now <= powered_at + (gnss_baud_index + 1) * (PROBE + 1)
        BY <1>3, <3>2, <3>3
      <3> QED BY <1>3, <2>1, <3>1, <3>4
    <2>2. CASE gnss_baud_index < RightBaud /\ ~Gnss!ProbeDue
      <3>1. ASSUME now - gnss_baud_set >= PROBE PROVE Gnss!EnoughBytes
        <4>1. Len(burst) \in Nat \ {0} /\ now - gnss_baud_set \in Nat /\ PROBE_BYTES \in 0 .. PROBE
          BY <1>3, <3>1, EmptySeq DEF GnssInv, Suffix, Gnss!GnssAssumption
        <4>2. \A a \in Nat, b \in Nat \ {0} : a * b >= a /\ a * b \in Nat
          OBVIOUS
        <4> QED BY <1>3, <3>1, <4>1, <4>2 DEF Gnss!EnoughBytes
      <3> QED BY <1>1, <1>3, <2>2, <3>1 DEF GnssInv, Probing, Gnss!ProbeDue
    <2>3. CASE gnss_baud_index = RightBaud
      <3>1. gnss_seen_valid_sentence \/ gnss_baud_set = now
        BY <1>1, <2>3, <1>3 DEF GnssInv, Probing, Suffix
      <3>2. ~Gnss!ProbeDue
        BY <1>3, <3>1 DEF Gnss!ProbeDue
      <3> QED BY <1>1, <1>3, <2>3, <3>2
    <2> QED BY <1>3, <2>1, <2>2, <2>3 DEF GnssInv, Probing
  <1> QED BY <1>4, <1>5, <1>7, <1>8, <1>9, <1>10, <1>11 DEF GnssInv, ClockInv

(* Power, either way. *)
LEMMA SetPowerInv == ASSUME Gnss!GnssAssumption, GnssInv, Gnss!gnssSetPower PROVE GnssInv'
  <1>1. /\ power_on' = ~power_on /\ gnss_rmc_fix' = FALSE /\ gnss_gga_fix' = FALSE
        /\ gnss_seen_valid_sentence' = FALSE /\ clean' = 0 /\ missed' = FALSE
        /\ UNCHANGED <<burst, now, fix, Gnss!sync>>
        /\ gnss_bounds' \in [lost : 0 .. MaxLost, user : 0 .. MaxUser]
    BY OneMore DEF Gnss!gnssSetPower, Gnss!Act
  <1>2. \/ /\ power_on
           /\ UNCHANGED <<utc_time, utc_date, gnss_baud_index, gnss_baud_set, powered_at, left>>
        \/ /\ ~power_on /\ utc_time' = None /\ utc_date' = None /\ gnss_baud_set' = now
           /\ gnss_baud_index' = 0 /\ powered_at' = now /\ left' = << >>
    BY DEF Gnss!gnssSetPower, Gnss!gnssResetSessionData, GnssInv, Gnss!TypeOK
  <1>3. Suffix' /\ Len(left') <= Len(burst')
    <2>1. << >> \in Seq(STRING) /\ Len(<< >>) = 0 /\ 1 .. 0 = {}
      BY EmptySeq
    <2>2. CASE left' = << >>
      <3>1. burst \in Seq(STRING) /\ burst # << >> /\ Len(burst) \in Nat /\ burst' = burst
        BY <1>1 DEF GnssInv, Suffix
      <3> QED BY <2>1, <2>2, <3>1 DEF Suffix
    <2>3. CASE left' = left
      BY <1>1, <2>3 DEF GnssInv, Suffix
    <2> QED BY <1>2, <2>2, <2>3
  <1>4. now \in 0 .. MaxTime /\ 0 \in 0 .. MaxTime /\ 0 \in 0 .. Bauds - 1 /\ power_on' \in BOOLEAN
        /\ RightBaud \in Nat
    <2>1. power_on' \in BOOLEAN
      BY <1>1, Zenon DEF GnssInv, Gnss!TypeOK
    <2>2. now \in 1 .. MaxTime /\ MaxTime \in Nat /\ Bauds \in Nat /\ RightBaud \in 0 .. Bauds - 1
      BY DEF GnssInv, Gnss!TypeOK, Gnss!GnssAssumption
    <2> QED BY <2>1, <2>2
  <1>5. Gnss!TypeOK'
    BY <1>1, <1>2, <1>3, <1>4 DEF GnssInv, Gnss!TypeOK, Gnss!sync
  <1>6. ClockInv'
    BY <1>1, <1>2, UncleanClock
  <1>7. Probing'
    <2>1. PROBE \in Nat /\ RightBaud \in Nat /\ 0 * (PROBE + 1) = 0
      BY DEF Gnss!GnssAssumption
    <2>2. now \in Nat /\ now <= now + PROBE /\ now <= now + 0
      BY <1>4, <2>1
    <2>3. CASE power_on
      BY <1>1, <2>3 DEF Probing
    <2>4. CASE ~power_on
      <3>1. /\ gnss_baud_index' = 0 /\ gnss_baud_set' = now /\ powered_at' = now /\ now' = now
            /\ left' = << >> /\ 0 <= RightBaud
        BY <1>1, <1>2, <2>1, <2>4
      <3> QED BY <1>1, <2>1, <2>2, <3>1 DEF Probing
    <2> QED BY <2>3, <2>4
  <1> QED BY <1>3, <1>5, <1>6, <1>7 DEF GnssInv

(* The network sets the clock. *)
LEMMA NtpInv == ASSUME Gnss!GnssAssumption, GnssInv, Gnss!timeSyncMarkNtp PROVE GnssInv'
  <1>1. /\ time_sync_source' = "ntp" /\ error' = 0
        /\ UNCHANGED <<burst, now, left, fix, power_on, Gnss!session, time_sync_last_gnss_try, Gnss!line, Gnss!ghosts>>
        /\ gnss_bounds' \in [lost : 0 .. MaxLost, user : 0 .. MaxUser]
    BY OneMore DEF Gnss!timeSyncMarkNtp, Gnss!Act
  <1>2. /\ UNCHANGED <<gnss_rmc_fix, gnss_gga_fix, utc_time, utc_date>>
        /\ UNCHANGED <<gnss_baud_index, gnss_baud_set, gnss_seen_valid_sentence>>
        /\ UNCHANGED <<clean, powered_at, missed>>
    BY <1>1 DEF Gnss!session, Gnss!line, Gnss!ghosts
  <1>3. now \in Nat /\ 0 \in -MaxTime .. MaxTime
    <2>1. now \in 0 .. MaxTime
      BY DEF GnssInv, Gnss!TypeOK
    <2>2. MaxTime \in Nat
      BY DEF Gnss!GnssAssumption
    <2> QED BY <2>1, <2>2
  <1>4. Gnss!TypeOK' /\ Suffix'
    BY <1>1, <1>2, <1>3 DEF GnssInv, Gnss!TypeOK, Suffix
  <1>5. Over' = Over /\ (HasRmc' <=> HasRmc) /\ (RmcHeard' <=> RmcHeard)
    BY <1>1 DEF Over, HasRmc, RmcHeard
  <1>6. HeardSeconds' /\ Behind'
    BY <1>1, <1>2, <1>3, <1>5 DEF GnssInv, ClockInv, HeardSeconds, Behind
  <1>7. Fresh' /\ Synced' /\ Exact'
    BY <1>1, <1>2, <1>5 DEF GnssInv, ClockInv, Fresh, Told, Synced, Exact
  <1>8. Probing'
    BY <1>1, <1>2 DEF GnssInv, Probing
  <1> QED BY <1>4, <1>6, <1>7, <1>8 DEF GnssInv, ClockInv

(* At the start nothing was heard. *)
LEMMA InitGnssInv == ASSUME Gnss!GnssAssumption, Gnss!Init PROVE GnssInv
  <1>1. burst \in Seq(STRING) /\ burst # << >> /\ left = << >> /\ Len(left) = 0 /\ Len(burst) \in Nat
    BY EmptySeq DEF Gnss!Init, Gnss!GnssAssumption
  <1>2. Suffix
    BY <1>1, EmptySeq DEF Suffix
  <1>3. Gnss!TypeOK
    <2>1. /\ 1 \in 1 .. MaxTime /\ 0 \in 0 .. MaxTime /\ 0 \in -MaxTime .. MaxTime
          /\ 0 \in 0 .. Bauds - 1 /\ 0 \in 0 .. MaxLost /\ 0 \in 0 .. MaxUser /\ 0 <= Len(burst)
      BY <1>1 DEF Gnss!GnssAssumption
    <2> QED BY <1>1, <2>1 DEF Gnss!Init, Gnss!TypeOK
  <1>4. ClockInv
    BY <1>1 DEF Gnss!Init, ClockInv, HeardSeconds, Behind, Fresh, Synced, Exact, Over
  <1>5. Probing
    BY DEF Gnss!Init, Probing
  <1> QED BY <1>2, <1>3, <1>4, <1>5 DEF GnssInv

(* Every step keeps it. *)
LEMMA NextGnssInv == ASSUME Gnss!GnssAssumption, GnssInv, [Gnss!Next]_(Gnss!vars) PROVE GnssInv'
  <1>1. CASE UNCHANGED Gnss!vars
    <2> USE <1>1 DEF Gnss!vars, Gnss!session, Gnss!sync, Gnss!line, Gnss!ghosts
    <2>1. Gnss!TypeOK' /\ Suffix' /\ Probing'
      BY DEF GnssInv, Gnss!TypeOK, Suffix, Probing
    <2>2. Over' = Over /\ (HasRmc' <=> HasRmc) /\ (RmcHeard' <=> RmcHeard)
      BY DEF Over, HasRmc, RmcHeard
    <2>3. HeardSeconds' /\ Behind'
      BY <2>2 DEF GnssInv, ClockInv, HeardSeconds, Behind
    <2>4. Fresh' /\ Synced' /\ Exact'
      BY <2>2 DEF GnssInv, ClockInv, Fresh, Told, Synced, Exact
    <2> QED BY <2>1, <2>3, <2>4 DEF GnssInv, ClockInv
  <1> QED BY <1>1, SentenceInv, SecondInv, SetPowerInv, NtpInv DEF Gnss!Next

(* The clock is a second behind at most while whole bursts are heard. *)
LEMMA ClockKept == ASSUME Gnss!GnssAssumption, GnssInv PROVE Gnss!ClockFollows
  <1>1. /\ now \in Nat /\ time_sync_last_gnss_try \in Nat /\ clean \in Nat /\ INTERVAL \in Nat \ {0}
        /\ error \in Int /\ error <= 0
    BY DEF GnssInv, Gnss!TypeOK, ClockInv, Behind, Gnss!GnssAssumption
  <1>2. CASE clean > INTERVAL + 1 /\ HasRmc
    <2>1. /\ now - time_sync_last_gnss_try <= INTERVAL
          /\ left = << >> => now - time_sync_last_gnss_try < INTERVAL
      BY <1>1, <1>2 DEF GnssInv, ClockInv, Synced
    <2>2. time_sync_last_gnss_try >= Over - clean + 3
      BY <1>1, <1>2, <2>1 DEF Over
    <2> QED BY <1>1, <1>2, <2>2 DEF GnssInv, ClockInv, Exact, Gnss!ClockFollows
  <1>3. ~HasRmc => error = 0
    BY DEF GnssInv, ClockInv, Behind
  <1> QED BY <1>1, <1>2, <1>3 DEF Gnss!ClockFollows

(* The receiver's speed is found in the time the wrong ones take. *)
LEMMA SpeedKept == ASSUME Gnss!GnssAssumption, GnssInv PROVE Gnss!SpeedFound
  <1> SUFFICES ASSUME power_on, ~missed
               PROVE  /\ gnss_baud_index <= RightBaud
                      /\ now - powered_at > RightBaud * (PROBE + 1) => gnss_baud_index = RightBaud
    BY DEF Gnss!SpeedFound
  <1>1. /\ now \in Nat /\ powered_at \in Nat /\ gnss_baud_index \in Nat /\ gnss_baud_set \in Nat
        /\ PROBE \in Nat /\ RightBaud \in Nat
    BY DEF GnssInv, Gnss!TypeOK, Gnss!GnssAssumption
  <1>2. gnss_baud_index <= RightBaud
    BY DEF GnssInv, Probing
  <1>3. ASSUME gnss_baud_index < RightBaud PROVE now - powered_at <= RightBaud * (PROBE + 1)
    <2>1. now <= gnss_baud_set + PROBE /\ gnss_baud_set <= powered_at + gnss_baud_index * (PROBE + 1)
      BY <1>3 DEF GnssInv, Probing
    <2>2. \A a, b, d \in Nat : a < b => a * (d + 1) + (d + 1) <= b * (d + 1)
      <3>1. \A x, y, d \in Nat : x <= y => x * (d + 1) <= y * (d + 1)
        OBVIOUS
      <3>2. \A x, d \in Nat : (x + 1) * (d + 1) = x * (d + 1) + (d + 1)
        OBVIOUS
      <3>3. \A x, y \in Nat : x < y => x + 1 <= y
        OBVIOUS
      <3> QED BY <3>1, <3>2, <3>3
    <2>3. gnss_baud_index * (PROBE + 1) + (PROBE + 1) <= RightBaud * (PROBE + 1)
      BY <1>1, <1>3, <2>2
    <2>4. gnss_baud_index * (PROBE + 1) \in Nat /\ RightBaud * (PROBE + 1) \in Nat
      BY <1>1
    <2> QED BY <1>1, <2>1, <2>3, <2>4
  <1>4. RightBaud * (PROBE + 1) \in Nat
    BY <1>1
  <1> QED BY <1>1, <1>2, <1>3, <1>4

-----------------------------------------------------------------------------
(* The mesh radio.  While tasks use it one at a time, what a task has still to do is the *)
(* rest of what its command began, and the chip is where that rest expects it.            *)
\* The last k steps.
Rest(steps, k) == SubSeq(steps, Len(steps) - k + 1, Len(steps))

OnSteps == Mesh!mshConfigureForMesh \o <<"ready">>
ScanSteps == Mesh!mshConfigureForMesh \o <<"ready", "probe", "standby", "cut">>
PollSteps == <<"ack">> \o Mesh!mshStartReceiveMode

Busy(c) == todo[c] # << >>

\* What ListensAgain says of a radio nobody uses.
Settled ==
  /\ msh_radio_ready = chip.en /\ (chip.en => Mesh!meshtasticIsPowered)
  /\ msh_radio_ready /\ ~deaf => chip.mode = "rx"
Working == msh_radio_ready /\ chip.en /\ Mesh!meshtasticIsPowered

SwitchesOff(c) == \E k \in 1 .. 2 : todo[c] = Rest(<<"standby", "cut">>, k)
SwitchesOn(c) ==
  \/ todo[c] = <<"init_failed">>
  \/ chip.en /\ Mesh!meshtasticIsPowered
     /\ \E k \in 1 .. 7 : todo[c] = Rest(OnSteps, k) /\ (k = 1 => chip.mode = "rx")
Scans(c) == todo[c] = <<"init_failed">> \/ \E k \in 1 .. 10 : todo[c] = Rest(ScanSteps, k)
Probes(c) == todo[c] = <<"probe">> /\ Settled
Polls(c) ==
  /\ Working
  /\ \/ todo[c] = <<"ack">> /\ (deaf \/ chip.mode = "rx")
     \/ \E k \in 1 .. 5 : todo[c] = Rest(PollSteps, k)

Prepared(c, k) ==
  /\ k \in 2 .. 5 => chip.mode = "standby"
  /\ k <= 4 => chip.len = "frame"
  /\ k <= 3 => chip.buffer = c
  /\ k = 1 /\ "TX_DONE" \in chip.irq => aired[c]
  /\ k = 2 => "TX_DONE" \notin chip.irq
Sends(c) ==
  /\ Working
  /\ \/ \E k \in 1 .. 6 : todo[c] = Rest(Mesh!mshTransmitPacket, k) /\ Prepared(c, k)
     \/ \E k \in 1 .. 6 : todo[c] = Rest(Mesh!AfterTxDone, k) /\ aired[c] /\ (k = 1 => chip.mode = "rx")
     \/ todo[c] = <<"not_sent">> /\ deaf

Doing(c) ==
  \/ op[c] = "off" /\ SwitchesOff(c)
  \/ op[c] = "on" /\ SwitchesOn(c)
  \/ op[c] = "scan" /\ Scans(c)
  \/ op[c] = "probe" /\ Probes(c)
  \/ op[c] = "poll" /\ Polls(c)
  \/ op[c] = "send" /\ Sends(c)

OneAtATime ==
  /\ \A c, d \in Commanders : Busy(c) /\ Busy(d) => c = d
  /\ \A c \in Commanders : Busy(c) => Doing(c)
  /\ Mesh!Quiet => Settled
  /\ \A c \in Commanders : told[c] = "tx_ok" => aired[c]

MeshInv == Mesh!TypeOK /\ (~overlap => OneAtATime)

-----------------------------------------------------------------------------
(* One step more of a sequence of steps. *)
LEMMA RestStep ==
  ASSUME NEW s \in Seq(Mesh!Steps), NEW k \in 1 .. Len(s)
  PROVE  /\ Rest(s, k) \in Seq(Mesh!Steps) /\ Len(Rest(s, k)) = k /\ Rest(s, k) # << >>
         /\ Head(Rest(s, k)) = s[Len(s) - k + 1]
         /\ Tail(Rest(s, k)) = Rest(s, k - 1) /\ Rest(s, 0) = << >>
  <1> DEFINE n == Len(s)
             from == n - k + 1
  <1>1. n \in Nat /\ from \in 1 .. n /\ n \in from .. n /\ n - from + 1 = k /\ from <= n
        /\ n - (k - 1) + 1 = from + 1 /\ n - 0 + 1 = n + 1 /\ n + 1 \in Int /\ n < n + 1
    OBVIOUS
  <1>2. Head(SubSeq(s, from, n)) = s[from] /\ Tail(SubSeq(s, from, n)) = SubSeq(s, from + 1, n)
    BY <1>1, HeadTailOfSubSeq
  <1>3. \A i \in from .. n : s[i] \in Mesh!Steps
    BY <1>1
  <1>4. SubSeq(s, from, n) \in Seq(Mesh!Steps) /\ Len(SubSeq(s, from, n)) = k
    BY <1>1, <1>3, SubSeqProperties
  <1>5. SubSeq(s, n + 1, n) = << >>
    BY <1>1, SubSeqEmpty
  <1>6. SubSeq(s, from, n) # << >>
    <2>1. k # 0
      OBVIOUS
    <2> QED BY <1>4, <2>1, EmptySeq
  <1>7. /\ Rest(s, k) = SubSeq(s, from, n) /\ Rest(s, k - 1) = SubSeq(s, from + 1, n)
        /\ Rest(s, 0) = SubSeq(s, n + 1, n)
    BY <1>1 DEF Rest
  <1> QED BY <1>2, <1>4, <1>5, <1>6, <1>7

(* Sequences put together. *)
LEMMA Joined ==
  ASSUME NEW s \in Seq(Mesh!Steps), NEW t \in Seq(Mesh!Steps), NEW u \in Seq(Mesh!Steps),
         Len(u) = Len(s) + Len(t),
         \A i \in 1 .. Len(s) : u[i] = s[i], \A i \in 1 .. Len(t) : u[Len(s) + i] = t[i]
  PROVE  s \o t = u
  <1>1. /\ s \o t \in Seq(Mesh!Steps) /\ Len(s \o t) = Len(u)
        /\ \A i \in 1 .. Len(u) : (s \o t)[i] = IF i <= Len(s) THEN s[i] ELSE t[i - Len(s)]
    BY ConcatProperties
  <1>2. ASSUME NEW i \in 1 .. Len(u) PROVE (s \o t)[i] = u[i]
    <2>1. CASE i <= Len(s)
      BY <1>1, <2>1
    <2>2. CASE i > Len(s)
      <3>1. i - Len(s) \in 1 .. Len(t) /\ Len(s) + (i - Len(s)) = i /\ ~(i <= Len(s))
        BY <2>2
      <3> QED BY <1>1, <3>1
    <2> QED BY <2>1, <2>2
  <1> QED BY <1>1, <1>2, SeqEqual

(* The sequences step by step. *)
LEMMA StepsAre ==
  /\ Mesh!mshStartReceiveMode = <<"standby", "max_len", "clear", "rx">>
  /\ Mesh!mshConfigureForMesh = <<"standby", "parameters", "standby", "max_len", "clear", "rx">>
  /\ OnSteps = <<"standby", "parameters", "standby", "max_len", "clear", "rx", "ready">>
  /\ ScanSteps = <<"standby", "parameters", "standby", "max_len", "clear", "rx", "ready",
                   "probe", "standby", "cut">>
  /\ PollSteps = <<"ack", "standby", "max_len", "clear", "rx">>
  /\ Mesh!AfterTxDone = <<"ack", "standby", "max_len", "clear", "rx", "sent">>
  <1>1. Mesh!mshStartReceiveMode = <<"standby", "max_len", "clear", "rx">>
    BY DEF Mesh!mshStartReceiveMode
  <1>2. <<"standby", "parameters">> \o <<"standby", "max_len", "clear", "rx">>
        = <<"standby", "parameters", "standby", "max_len", "clear", "rx">>
    <2> DEFINE s == <<"standby", "parameters">>
               t == <<"standby", "max_len", "clear", "rx">>
               u == <<"standby", "parameters", "standby", "max_len", "clear", "rx">>
    <2>1. s \in Seq(Mesh!Steps) /\ t \in Seq(Mesh!Steps) /\ u \in Seq(Mesh!Steps)
      BY DEF Mesh!Steps, Mesh!ChipCommands
    <2>2. Len(s) = 2 /\ Len(t) = 4 /\ Len(u) = 6
      OBVIOUS
    <2>3. /\ \A i \in 1 .. 2 : u[i] = s[i]
          /\ \A i \in 1 .. 4 : u[2 + i] = t[i]
      OBVIOUS
    <2> HIDE DEF s, t, u
    <2>4. /\ Len(u) = Len(s) + Len(t) /\ (\A i \in 1 .. Len(s) : u[i] = s[i])
          /\ \A i \in 1 .. Len(t) : u[Len(s) + i] = t[i]
      BY <2>2, <2>3
    <2>5. s \o t = u
      BY <2>1, <2>4, Joined
    <2> QED BY <2>5 DEF s, t, u
  <1>3. <<"standby", "parameters", "standby", "max_len", "clear", "rx">> \o <<"ready">>
        = <<"standby", "parameters", "standby", "max_len", "clear", "rx", "ready">>
    <2> DEFINE s == <<"standby", "parameters", "standby", "max_len", "clear", "rx">>
               t == <<"ready">>
               u == <<"standby", "parameters", "standby", "max_len", "clear", "rx", "ready">>
    <2>1. s \in Seq(Mesh!Steps) /\ t \in Seq(Mesh!Steps) /\ u \in Seq(Mesh!Steps)
      BY DEF Mesh!Steps, Mesh!ChipCommands
    <2>2. Len(s) = 6 /\ Len(t) = 1 /\ Len(u) = 7
      OBVIOUS
    <2>3. /\ \A i \in 1 .. 6 : u[i] = s[i]
          /\ \A i \in 1 .. 1 : u[6 + i] = t[i]
      OBVIOUS
    <2> HIDE DEF s, t, u
    <2>4. /\ Len(u) = Len(s) + Len(t) /\ (\A i \in 1 .. Len(s) : u[i] = s[i])
          /\ \A i \in 1 .. Len(t) : u[Len(s) + i] = t[i]
      BY <2>2, <2>3
    <2>5. s \o t = u
      BY <2>1, <2>4, Joined
    <2> QED BY <2>5 DEF s, t, u
  <1>4. <<"standby", "parameters", "standby", "max_len", "clear", "rx">> \o <<"ready", "probe", "standby", "cut">>
        = <<"standby", "parameters", "standby", "max_len", "clear", "rx", "ready", "probe", "standby", "cut">>
    <2> DEFINE s == <<"standby", "parameters", "standby", "max_len", "clear", "rx">>
               t == <<"ready", "probe", "standby", "cut">>
               u == <<"standby", "parameters", "standby", "max_len", "clear", "rx", "ready", "probe", "standby", "cut">>
    <2>1. s \in Seq(Mesh!Steps) /\ t \in Seq(Mesh!Steps) /\ u \in Seq(Mesh!Steps)
      BY DEF Mesh!Steps, Mesh!ChipCommands
    <2>2. Len(s) = 6 /\ Len(t) = 4 /\ Len(u) = 10
      OBVIOUS
    <2>3. /\ \A i \in 1 .. 6 : u[i] = s[i]
          /\ \A i \in 1 .. 4 : u[6 + i] = t[i]
      OBVIOUS
    <2> HIDE DEF s, t, u
    <2>4. /\ Len(u) = Len(s) + Len(t) /\ (\A i \in 1 .. Len(s) : u[i] = s[i])
          /\ \A i \in 1 .. Len(t) : u[Len(s) + i] = t[i]
      BY <2>2, <2>3
    <2>5. s \o t = u
      BY <2>1, <2>4, Joined
    <2> QED BY <2>5 DEF s, t, u
  <1>5. <<"ack">> \o <<"standby", "max_len", "clear", "rx">>
        = <<"ack", "standby", "max_len", "clear", "rx">>
    <2> DEFINE s == <<"ack">>
               t == <<"standby", "max_len", "clear", "rx">>
               u == <<"ack", "standby", "max_len", "clear", "rx">>
    <2>1. s \in Seq(Mesh!Steps) /\ t \in Seq(Mesh!Steps) /\ u \in Seq(Mesh!Steps)
      BY DEF Mesh!Steps, Mesh!ChipCommands
    <2>2. Len(s) = 1 /\ Len(t) = 4 /\ Len(u) = 5
      OBVIOUS
    <2>3. /\ \A i \in 1 .. 1 : u[i] = s[i]
          /\ \A i \in 1 .. 4 : u[1 + i] = t[i]
      OBVIOUS
    <2> HIDE DEF s, t, u
    <2>4. /\ Len(u) = Len(s) + Len(t) /\ (\A i \in 1 .. Len(s) : u[i] = s[i])
          /\ \A i \in 1 .. Len(t) : u[Len(s) + i] = t[i]
      BY <2>2, <2>3
    <2>5. s \o t = u
      BY <2>1, <2>4, Joined
    <2> QED BY <2>5 DEF s, t, u
  <1>6. <<"ack", "standby", "max_len", "clear", "rx">> \o <<"sent">>
        = <<"ack", "standby", "max_len", "clear", "rx", "sent">>
    <2> DEFINE s == <<"ack", "standby", "max_len", "clear", "rx">>
               t == <<"sent">>
               u == <<"ack", "standby", "max_len", "clear", "rx", "sent">>
    <2>1. s \in Seq(Mesh!Steps) /\ t \in Seq(Mesh!Steps) /\ u \in Seq(Mesh!Steps)
      BY DEF Mesh!Steps, Mesh!ChipCommands
    <2>2. Len(s) = 5 /\ Len(t) = 1 /\ Len(u) = 6
      OBVIOUS
    <2>3. /\ \A i \in 1 .. 5 : u[i] = s[i]
          /\ \A i \in 1 .. 1 : u[5 + i] = t[i]
      OBVIOUS
    <2> HIDE DEF s, t, u
    <2>4. /\ Len(u) = Len(s) + Len(t) /\ (\A i \in 1 .. Len(s) : u[i] = s[i])
          /\ \A i \in 1 .. Len(t) : u[Len(s) + i] = t[i]
      BY <2>2, <2>3
    <2>5. s \o t = u
      BY <2>1, <2>4, Joined
    <2> QED BY <2>5 DEF s, t, u
  <1> QED BY <1>1, <1>2, <1>3, <1>4, <1>5, <1>6
        DEF Mesh!mshConfigureForMesh, OnSteps, ScanSteps, PollSteps, Mesh!AfterTxDone

(* What is next of each sequence. *)
LEMMA OffRest ==
  ASSUME NEW k \in 1 .. 2
  PROVE  /\ Rest(<<"standby", "cut">>, k) # << >>
         /\ Tail(Rest(<<"standby", "cut">>, k)) = Rest(<<"standby", "cut">>, k - 1)
         /\ k = 1 => Head(Rest(<<"standby", "cut">>, k)) = "cut" /\ Tail(Rest(<<"standby", "cut">>, k)) = << >>
         /\ k = 2 => Head(Rest(<<"standby", "cut">>, k)) = "standby"
  <1> DEFINE s == <<"standby", "cut">>
  <1>1. s \in Seq(Mesh!Steps) /\ Len(s) = 2 /\ s[1] = "standby" /\ s[2] = "cut"
    BY DEF Mesh!Steps, Mesh!ChipCommands
  <1> HIDE DEF s
  <1>2. /\ Rest(s, k) # << >> /\ Head(Rest(s, k)) = s[2 - k + 1] /\ Tail(Rest(s, k)) = Rest(s, k - 1)
        /\ Rest(s, 0) = << >>
    BY <1>1, RestStep
  <1>3. /\ Rest(s, k) # << >> /\ Tail(Rest(s, k)) = Rest(s, k - 1)
        /\ k = 1 => Head(Rest(s, k)) = "cut" /\ Tail(Rest(s, k)) = << >>
        /\ k = 2 => Head(Rest(s, k)) = "standby"
    BY <1>1, <1>2
  <1> QED BY <1>3 DEF s

(* What is next of a start. *)
LEMMA OnRest ==
  ASSUME NEW k \in 1 .. 7
  PROVE  /\ Rest(OnSteps, k) # << >> /\ Tail(Rest(OnSteps, k)) = Rest(OnSteps, k - 1)
         /\ k = 1 => Head(Rest(OnSteps, k)) = "ready" /\ Tail(Rest(OnSteps, k)) = << >>
         /\ k = 2 => Head(Rest(OnSteps, k)) = "rx"
         /\ k > 2 => Head(Rest(OnSteps, k)) \in {"standby", "parameters", "max_len", "clear"}
  <1> DEFINE s == <<"standby", "parameters", "standby", "max_len", "clear", "rx", "ready">>
  <1>1. s \in Seq(Mesh!Steps) /\ Len(s) = 7
    BY DEF Mesh!Steps, Mesh!ChipCommands
  <1>2. /\ s[1] = "standby" /\ s[2] = "parameters" /\ s[3] = "standby" /\ s[4] = "max_len"
        /\ s[5] = "clear" /\ s[6] = "rx" /\ s[7] = "ready"
    OBVIOUS
  <1>3. OnSteps = s
    BY StepsAre
  <1> HIDE DEF s
  <1>4. /\ Rest(s, k) # << >> /\ Head(Rest(s, k)) = s[7 - k + 1] /\ Len(Rest(s, k)) = k
        /\ Tail(Rest(s, k)) = Rest(s, k - 1) /\ Rest(s, 0) = << >>
    BY <1>1, RestStep, ZenonT(40)
  <1>5. \/ k = 1 /\ Head(Rest(s, k)) = s[7]
        \/ k = 2 /\ Head(Rest(s, k)) = s[6]
        \/ k = 3 /\ Head(Rest(s, k)) = s[5]
        \/ k = 4 /\ Head(Rest(s, k)) = s[4]
        \/ k = 5 /\ Head(Rest(s, k)) = s[3]
        \/ k = 6 /\ Head(Rest(s, k)) = s[2]
        \/ k = 7 /\ Head(Rest(s, k)) = s[1]
    BY <1>4
  <1>6. ASSUME NEW h,
               \/ k = 1 /\ h = "ready"
               \/ k = 2 /\ h = "rx"
               \/ k = 3 /\ h = "clear"
               \/ k = 4 /\ h = "max_len"
               \/ k = 5 /\ h = "standby"
               \/ k = 6 /\ h = "parameters"
               \/ k = 7 /\ h = "standby"
        PROVE  /\ k = 1 => h = "ready"
               /\ k = 2 => h = "rx"
               /\ k > 2 => h \in {"standby", "parameters", "max_len", "clear"}
    BY <1>6
  <1>7. k = 1 => Tail(Rest(s, k)) = << >>
    <2>1. k = 1 => k - 1 = 0
      OBVIOUS
    <2> QED BY <1>4, <2>1
  <1> QED BY <1>2, <1>3, <1>4, <1>5, <1>6, <1>7

(* What is next of a scan. *)
LEMMA ScanRest ==
  ASSUME NEW k \in 1 .. 10
  PROVE  /\ Rest(ScanSteps, k) # << >> /\ Tail(Rest(ScanSteps, k)) = Rest(ScanSteps, k - 1)
         /\ k = 1 => Head(Rest(ScanSteps, k)) = "cut" /\ Tail(Rest(ScanSteps, k)) = << >>
         /\ k > 1 => Head(Rest(ScanSteps, k)) \in Mesh!ChipCommands \cup {"ready", "probe"}
  <1> DEFINE s == <<"standby", "parameters", "standby", "max_len", "clear", "rx", "ready", "probe", "standby", "cut">>
  <1>1. s \in Seq(Mesh!Steps) /\ Len(s) = 10
    BY DEF Mesh!Steps, Mesh!ChipCommands
  <1>2. /\ s[1] = "standby" /\ s[2] = "parameters" /\ s[3] = "standby" /\ s[4] = "max_len" /\ s[5] = "clear"
        /\ s[6] = "rx" /\ s[7] = "ready" /\ s[8] = "probe" /\ s[9] = "standby" /\ s[10] = "cut"
    OBVIOUS
  <1>3. ScanSteps = s
    BY StepsAre
  <1> HIDE DEF s
  <1>4. /\ Rest(s, k) # << >> /\ Head(Rest(s, k)) = s[10 - k + 1] /\ Len(Rest(s, k)) = k
        /\ Tail(Rest(s, k)) = Rest(s, k - 1) /\ Rest(s, 0) = << >>
    BY <1>1, RestStep, ZenonT(40)
  <1>5. \/ k = 1 /\ Head(Rest(s, k)) = s[10]
        \/ k = 2 /\ Head(Rest(s, k)) = s[9]
        \/ k = 3 /\ Head(Rest(s, k)) = s[8]
        \/ k = 4 /\ Head(Rest(s, k)) = s[7]
        \/ k = 5 /\ Head(Rest(s, k)) = s[6]
        \/ k = 6 /\ Head(Rest(s, k)) = s[5]
        \/ k = 7 /\ Head(Rest(s, k)) = s[4]
        \/ k = 8 /\ Head(Rest(s, k)) = s[3]
        \/ k = 9 /\ Head(Rest(s, k)) = s[2]
        \/ k = 10 /\ Head(Rest(s, k)) = s[1]
    BY <1>4
  <1>6. ASSUME NEW h,
               \/ k = 1 /\ h = "cut"
               \/ k = 2 /\ h = "standby"
               \/ k = 3 /\ h = "probe"
               \/ k = 4 /\ h = "ready"
               \/ k = 5 /\ h = "rx"
               \/ k = 6 /\ h = "clear"
               \/ k = 7 /\ h = "max_len"
               \/ k = 8 /\ h = "standby"
               \/ k = 9 /\ h = "parameters"
               \/ k = 10 /\ h = "standby"
        PROVE  /\ k = 1 => h = "cut"
               /\ k > 1 => h \in Mesh!ChipCommands \cup {"ready", "probe"}
    BY <1>6 DEF Mesh!ChipCommands
  <1>7. k = 1 => Tail(Rest(s, k)) = << >>
    <2>1. k = 1 => k - 1 = 0
      OBVIOUS
    <2> QED BY <1>4, <2>1
  <1> QED BY <1>2, <1>3, <1>4, <1>5, <1>6, <1>7

(* What is next of a poll. *)
LEMMA PollRest ==
  ASSUME NEW k \in 1 .. 5
  PROVE  /\ Rest(PollSteps, k) # << >> /\ Tail(Rest(PollSteps, k)) = Rest(PollSteps, k - 1)
         /\ k = 1 => Head(Rest(PollSteps, k)) = "rx" /\ Tail(Rest(PollSteps, k)) = << >>
         /\ k > 1 => Head(Rest(PollSteps, k)) \in {"ack", "standby", "max_len", "clear"}
  <1> DEFINE s == <<"ack", "standby", "max_len", "clear", "rx">>
  <1>1. s \in Seq(Mesh!Steps) /\ Len(s) = 5
    BY DEF Mesh!Steps, Mesh!ChipCommands
  <1>2. /\ s[1] = "ack" /\ s[2] = "standby" /\ s[3] = "max_len"
        /\ s[4] = "clear" /\ s[5] = "rx"
    OBVIOUS
  <1>3. PollSteps = s
    BY StepsAre
  <1> HIDE DEF s
  <1>4. /\ Rest(s, k) # << >> /\ Head(Rest(s, k)) = s[5 - k + 1] /\ Len(Rest(s, k)) = k
        /\ Tail(Rest(s, k)) = Rest(s, k - 1) /\ Rest(s, 0) = << >>
    BY <1>1, RestStep
  <1>5. \/ k = 1 /\ Head(Rest(s, k)) = s[5]
        \/ k = 2 /\ Head(Rest(s, k)) = s[4]
        \/ k = 3 /\ Head(Rest(s, k)) = s[3]
        \/ k = 4 /\ Head(Rest(s, k)) = s[2]
        \/ k = 5 /\ Head(Rest(s, k)) = s[1]
    BY <1>4
  <1>6. ASSUME NEW h,
               \/ k = 1 /\ h = "rx"
               \/ k = 2 /\ h = "clear"
               \/ k = 3 /\ h = "max_len"
               \/ k = 4 /\ h = "standby"
               \/ k = 5 /\ h = "ack"
        PROVE  /\ k = 1 => h = "rx"
               /\ k > 1 => h \in {"ack", "standby", "max_len", "clear"}
    BY <1>6
  <1>7. k = 1 => Tail(Rest(s, k)) = << >>
    <2>1. k = 1 => k - 1 = 0
      OBVIOUS
    <2> QED BY <1>4, <2>1
  <1> QED BY <1>2, <1>3, <1>4, <1>5, <1>6, <1>7

(* What is next of a frame to send. *)
LEMMA TransmitRest ==
  ASSUME NEW k \in 1 .. 6
  PROVE  /\ Rest(Mesh!mshTransmitPacket, k) # << >>
         /\ Tail(Rest(Mesh!mshTransmitPacket, k)) = Rest(Mesh!mshTransmitPacket, k - 1)
         /\ k = 1 => Head(Rest(Mesh!mshTransmitPacket, k)) = "wait"
         /\ k = 2 => Head(Rest(Mesh!mshTransmitPacket, k)) = "tx"
         /\ k = 3 => Head(Rest(Mesh!mshTransmitPacket, k)) = "clear"
         /\ k = 4 => Head(Rest(Mesh!mshTransmitPacket, k)) = "write"
         /\ k = 5 => Head(Rest(Mesh!mshTransmitPacket, k)) = "frame_len"
         /\ k = 6 => Head(Rest(Mesh!mshTransmitPacket, k)) = "standby"
         /\ Len(Rest(Mesh!mshTransmitPacket, k)) = k
  <1> DEFINE s == Mesh!mshTransmitPacket
  <1>1. /\ s \in Seq(Mesh!Steps) /\ Len(s) = 6
        /\ s[1] = "standby" /\ s[2] = "frame_len" /\ s[3] = "write" /\ s[4] = "clear" /\ s[5] = "tx" /\ s[6] = "wait"
    BY DEF Mesh!mshTransmitPacket, Mesh!Steps, Mesh!ChipCommands
  <1> HIDE DEF s
  <1>2. /\ Rest(s, k) # << >> /\ Head(Rest(s, k)) = s[6 - k + 1] /\ Len(Rest(s, k)) = k
        /\ Tail(Rest(s, k)) = Rest(s, k - 1)
    BY <1>1, RestStep
  <1>3. \/ k = 1 /\ Head(Rest(s, k)) = s[6]
        \/ k = 2 /\ Head(Rest(s, k)) = s[5]
        \/ k = 3 /\ Head(Rest(s, k)) = s[4]
        \/ k = 4 /\ Head(Rest(s, k)) = s[3]
        \/ k = 5 /\ Head(Rest(s, k)) = s[2]
        \/ k = 6 /\ Head(Rest(s, k)) = s[1]
    BY <1>2
  <1>4. s = Mesh!mshTransmitPacket
    BY DEF s
  <1> QED BY <1>1, <1>2, <1>3, <1>4

(* What is next when it is sent. *)
LEMMA SentRest ==
  ASSUME NEW k \in 1 .. 6
  PROVE  /\ Rest(Mesh!AfterTxDone, k) # << >> /\ Tail(Rest(Mesh!AfterTxDone, k)) = Rest(Mesh!AfterTxDone, k - 1)
         /\ k = 1 => Head(Rest(Mesh!AfterTxDone, k)) = "sent"
         /\ k = 2 => Head(Rest(Mesh!AfterTxDone, k)) = "rx"
         /\ k \in 3 .. 5 => Head(Rest(Mesh!AfterTxDone, k)) \in {"standby", "max_len", "clear"}
         /\ k = 6 => Head(Rest(Mesh!AfterTxDone, k)) = "ack"
         /\ Len(Rest(Mesh!AfterTxDone, k)) = k
  <1> DEFINE s == <<"ack", "standby", "max_len", "clear", "rx", "sent">>
  <1>1. s \in Seq(Mesh!Steps) /\ Len(s) = 6
    BY DEF Mesh!Steps, Mesh!ChipCommands
  <1>2. /\ s[1] = "ack" /\ s[2] = "standby" /\ s[3] = "max_len"
        /\ s[4] = "clear" /\ s[5] = "rx" /\ s[6] = "sent"
    OBVIOUS
  <1>3. Mesh!AfterTxDone = s
    BY StepsAre
  <1> HIDE DEF s
  <1>4. /\ Rest(s, k) # << >> /\ Head(Rest(s, k)) = s[6 - k + 1] /\ Len(Rest(s, k)) = k
        /\ Tail(Rest(s, k)) = Rest(s, k - 1) /\ Rest(s, 0) = << >>
    BY <1>1, RestStep
  <1>5. \/ k = 1 /\ Head(Rest(s, k)) = s[6]
        \/ k = 2 /\ Head(Rest(s, k)) = s[5]
        \/ k = 3 /\ Head(Rest(s, k)) = s[4]
        \/ k = 4 /\ Head(Rest(s, k)) = s[3]
        \/ k = 5 /\ Head(Rest(s, k)) = s[2]
        \/ k = 6 /\ Head(Rest(s, k)) = s[1]
    BY <1>4
  <1>6. ASSUME NEW h,
               \/ k = 1 /\ h = "sent"
               \/ k = 2 /\ h = "rx"
               \/ k = 3 /\ h = "clear"
               \/ k = 4 /\ h = "max_len"
               \/ k = 5 /\ h = "standby"
               \/ k = 6 /\ h = "ack"
        PROVE  /\ k = 1 => h = "sent"
               /\ k = 2 => h = "rx"
               /\ k \in 3 .. 5 => h \in {"standby", "max_len", "clear"}
               /\ k = 6 => h = "ack"
    BY <1>6
  <1>7. k = 1 => Tail(Rest(s, k)) = << >>
    <2>1. k = 1 => k - 1 = 0
      OBVIOUS
    <2> QED BY <1>4, <2>1
  <1> QED BY <1>2, <1>3, <1>4, <1>5, <1>6, <1>7

(* What a command does to a chip that has its supply. *)
LEMMA AfterIs ==
  ASSUME Mesh!TypeOK, NEW c, NEW h \in Mesh!ChipCommands
  PROVE  /\ Mesh!After(h, c).en = chip.en
         /\ chip.en =>
              /\ h = "rx" => Mesh!After(h, c).mode = "rx"
              /\ h = "standby" => Mesh!After(h, c).mode = "standby"
              /\ h = "tx" => Mesh!After(h, c).mode = "tx"
              /\ h \notin {"rx", "standby", "tx"} => Mesh!After(h, c).mode = chip.mode
              /\ h = "frame_len" => Mesh!After(h, c).len = "frame"
              /\ h \notin {"frame_len", "max_len"} => Mesh!After(h, c).len = chip.len
              /\ h = "write" => Mesh!After(h, c).buffer = c
              /\ h # "write" => Mesh!After(h, c).buffer = chip.buffer
              /\ h = "clear" => Mesh!After(h, c).irq = {}
              /\ h \notin {"clear", "ack"} => Mesh!After(h, c).irq = chip.irq
  <1>1. chip \in [en : BOOLEAN, mode : {"standby", "rx", "tx"}, irq : SUBSET Mesh!Flags,
                  len : {"frame", "max"}, buffer : Commanders \cup {Mesh!Nobody}]
    BY DEF Mesh!TypeOK
  <1>2. CASE ~chip.en
    BY <1>2 DEF Mesh!After
  <1>3. CASE chip.en
    <2>1. CASE h = "standby"
      BY <1>1, <1>3, <2>1 DEF Mesh!After
    <2>2. CASE h \in {"max_len", "frame_len"}
      BY <1>1, <1>3, <2>2 DEF Mesh!After
    <2>3. CASE h \in {"write", "clear", "ack"}
      BY <1>1, <1>3, <2>3 DEF Mesh!After
    <2>4. CASE h \in {"rx", "tx"}
      BY <1>1, <1>3, <2>4 DEF Mesh!After
    <2>5. CASE h = "parameters"
      BY <1>1, <1>3, <2>5 DEF Mesh!After
    <2> QED BY <2>1, <2>2, <2>3, <2>4, <2>5 DEF Mesh!ChipCommands
  <1> QED BY <1>2, <1>3

(* A step of a task, by what is next. *)
LEMMA StepIs ==
  ASSUME Mesh!TypeOK, NEW c \in Commanders, Mesh!Step(c)
  PROVE  /\ Busy(c) /\ op' = op /\ overlap' = overlap /\ todo' = [todo EXCEPT ![c] = todo'[c]]
         /\ \/ /\ Head(todo[c]) \in Mesh!ChipCommands /\ todo'[c] = Tail(todo[c])
               /\ chip' = Mesh!After(Head(todo[c]), c) /\ deaf' = (deaf /\ Head(todo[c]) # "rx")
               /\ UNCHANGED <<msh_state, msh_radio_ready, told, aired>>
            \/ /\ Head(todo[c]) = "wait" /\ UNCHANGED <<Mesh!radio, told, aired>>
               /\ \/ "TX_DONE" \in chip.irq /\ todo'[c] = Mesh!AfterTxDone /\ UNCHANGED deaf
                  \/ todo'[c] = <<"not_sent">> /\ deaf'
            \/ /\ Head(todo[c]) \in Mesh!ChipCommands \cup {"wait"} /\ deaf' = TRUE
               /\ todo'[c] = IF Mesh!Unchecked(c) THEN Tail(todo[c])
                             ELSE CASE op[c] = "send" -> <<"not_sent">>
                                    [] op[c] \in {"on", "scan"} -> <<"init_failed">>
                                    [] OTHER -> << >>
               /\ UNCHANGED <<Mesh!radio, told, aired>>
            \/ /\ Head(todo[c]) = "sent" /\ todo'[c] = << >> /\ told' = [told EXCEPT ![c] = "tx_ok"]
               /\ UNCHANGED <<Mesh!radio, aired, deaf>>
            \/ /\ Head(todo[c]) = "not_sent" /\ todo'[c] = << >>
               /\ told' = [told EXCEPT ![c] = "tx_failed"] /\ UNCHANGED <<Mesh!radio, aired, deaf>>
            \/ /\ Head(todo[c]) = "ready" /\ todo'[c] = Tail(todo[c]) /\ msh_radio_ready' = TRUE
               /\ UNCHANGED <<msh_state, chip, told, aired, deaf>>
            \/ /\ Head(todo[c]) \in {"init_failed", "cut"} /\ todo'[c] = << >>
               /\ msh_state' = (IF Head(todo[c]) = "cut" THEN "OFF" ELSE "ERROR")
               /\ msh_radio_ready' = FALSE /\ chip' = Mesh!ChipOff
               /\ UNCHANGED <<told, aired, deaf>>
            \/ /\ Head(todo[c]) = "probe" /\ todo'[c] = Tail(todo[c])
               /\ msh_state' \in IF op[c] = "probe" THEN {"ERROR", "ON"} ELSE {msh_state}
               /\ UNCHANGED <<msh_radio_ready, chip, told, aired, deaf>>
  <1>1. todo \in [Commanders -> Seq(Mesh!Steps)]
    BY DEF Mesh!TypeOK
  <1>2. CASE Mesh!Command(c)
    BY <1>1, <1>2 DEF Mesh!Command, Mesh!Go, Busy
  <1>3. CASE Mesh!Wait(c)
    BY <1>1, <1>3 DEF Mesh!Wait, Mesh!At, Mesh!Go, Busy
  <1>4. CASE Mesh!Fault(c)
    BY <1>1, <1>4 DEF Mesh!Fault, Mesh!Go, Busy
  <1>5. CASE Mesh!Sent(c)
    BY <1>1, <1>5 DEF Mesh!Sent, Mesh!At, Mesh!Go, Busy
  <1>6. CASE Mesh!Ready(c)
    BY <1>1, <1>6 DEF Mesh!Ready, Mesh!At, Mesh!Go, Busy
  <1>7. CASE Mesh!InitFailed(c)
    BY <1>1, <1>7 DEF Mesh!InitFailed, Mesh!At, Mesh!Go, Busy
  <1>8. CASE Mesh!Cut(c)
    BY <1>1, <1>8 DEF Mesh!Cut, Mesh!At, Mesh!Go, Busy
  <1>9. CASE Mesh!Probe(c)
    BY <1>1, <1>9 DEF Mesh!Probe, Mesh!At, Mesh!Go, Busy
  <1> QED BY <1>2, <1>3, <1>4, <1>5, <1>6, <1>7, <1>8, <1>9 DEF Mesh!Step

(* A lone step. *)
LEMMA Single ==
  /\ Head(<<"init_failed">>) = "init_failed" /\ Tail(<<"init_failed">>) = << >>
  /\ Head(<<"not_sent">>) = "not_sent" /\ Tail(<<"not_sent">>) = << >>
  /\ Head(<<"ack">>) = "ack" /\ Tail(<<"ack">>) = << >>
  /\ Head(<<"probe">>) = "probe" /\ Tail(<<"probe">>) = << >>
  OBVIOUS

\* What a step of a task leaves: its command goes on, or the radio is as it should be.
GoesOn(c, going) == IF todo'[c] = << >> THEN Settled' ELSE going

(* Switching off ends with the radio off. *)
LEMMA OffStep ==
  ASSUME Mesh!TypeOK, NEW c \in Commanders, op[c] = "off", SwitchesOff(c), Mesh!Step(c)
  PROVE  GoesOn(c, SwitchesOff(c)') /\ UNCHANGED <<told, aired>>
  <1>1. PICK k \in 1 .. 2 : todo[c] = Rest(<<"standby", "cut">>, k)
    BY DEF SwitchesOff
  <1>2. Mesh!Unchecked(c)
    BY DEF Mesh!Unchecked
  <1>3. CASE k = 1
    <2>1. /\ todo'[c] = << >> /\ msh_radio_ready' = FALSE /\ chip' = Mesh!ChipOff
          /\ UNCHANGED <<told, aired>>
      BY <1>1, <1>3, OffRest, StepIs DEF Mesh!ChipCommands
    <2> QED BY <2>1 DEF GoesOn, Settled, Mesh!ChipOff
  <1>4. CASE k = 2
    <2>1. 2 - 1 = 1 /\ 1 \in 1 .. 2 /\ 2 \in 1 .. 2
      OBVIOUS
    <2>2. Head(todo[c]) = "standby" /\ Tail(todo[c]) = Rest(<<"standby", "cut">>, 1)
          /\ Rest(<<"standby", "cut">>, 1) # << >>
      BY <1>1, <1>4, <2>1, OffRest
    <2>3. todo'[c] = Tail(todo[c]) /\ UNCHANGED <<told, aired>>
      BY <1>2, <2>2, StepIs DEF Mesh!ChipCommands
    <2> QED BY <2>1, <2>2, <2>3 DEF GoesOn, SwitchesOff
  <1> QED BY <1>3, <1>4

(* Switching on ends in reception, or with the supply cut. *)
LEMMA OnStep ==
  ASSUME Mesh!TypeOK, NEW c \in Commanders, op[c] = "on", SwitchesOn(c), Mesh!Step(c)
  PROVE  GoesOn(c, SwitchesOn(c)') /\ UNCHANGED <<told, aired>>
  <1>1. CASE todo[c] = <<"init_failed">>
    <2>1. todo'[c] = << >> /\ msh_radio_ready' = FALSE /\ chip' = Mesh!ChipOff /\ UNCHANGED <<told, aired>>
      BY <1>1, Single, StepIs DEF Mesh!ChipCommands
    <2> QED BY <2>1 DEF GoesOn, Settled, Mesh!ChipOff
  <1>2. CASE todo[c] # <<"init_failed">>
    <2>1. /\ chip.en /\ Mesh!meshtasticIsPowered
          /\ \E k \in 1 .. 7 : todo[c] = Rest(OnSteps, k) /\ (k = 1 => chip.mode = "rx")
      BY <1>2 DEF SwitchesOn
    <2>2. PICK k \in 1 .. 7 : todo[c] = Rest(OnSteps, k) /\ (k = 1 => chip.mode = "rx")
      BY <2>1
    <2>3. CASE k = 1
      <3>1. /\ todo'[c] = << >> /\ msh_radio_ready' = TRUE /\ UNCHANGED <<msh_state, chip, told, aired>>
        <4>1. Head(todo[c]) = "ready" /\ Tail(todo[c]) = << >>
          BY <2>2, <2>3, OnRest
        <4> QED BY <4>1, StepIs DEF Mesh!ChipCommands
      <3> QED BY <2>1, <2>2, <2>3, <3>1 DEF GoesOn, Settled, Mesh!meshtasticIsPowered
    <2>4. CASE k # 1
      <3>1. k - 1 \in 1 .. 7 /\ (k - 1 = 1 => k = 2) /\ k > 1
        BY <2>4
      <3>2. /\ Head(todo[c]) \in {"rx", "standby", "parameters", "max_len", "clear"}
            /\ k = 2 => Head(todo[c]) = "rx"
            /\ Tail(todo[c]) = Rest(OnSteps, k - 1)
        <4>1. k = 2 \/ k > 2
          BY <2>4
        <4> QED BY <2>2, <4>1, OnRest
      <3>3. Head(todo[c]) \in Mesh!ChipCommands /\ Head(todo[c]) \notin {"wait", "sent", "not_sent", "ready",
              "init_failed", "cut", "probe", "ack"}
        BY <3>2 DEF Mesh!ChipCommands
      <3>4. k = 2 => ~Mesh!Unchecked(c)
        <4>1. todo[c] = <<"standby", "cut">> => Head(todo[c]) = "standby"
          BY SMT
        <4>2. ~Mesh!At(c, "ack")
          BY <3>3 DEF Mesh!At
        <4> QED BY <3>2, <4>1, <4>2 DEF Mesh!Unchecked
      <3>5. Rest(OnSteps, k - 1) # << >>
        BY <3>1, OnRest
      <3>6. CASE todo'[c] = Tail(todo[c]) /\ chip' = Mesh!After(Head(todo[c]), c)
                 /\ UNCHANGED <<msh_state, told, aired>>
        <4>1. chip'.en /\ (k = 2 => chip'.mode = "rx")
          BY <2>1, <3>2, <3>3, <3>6, AfterIs
        <4>2. todo'[c] = Rest(OnSteps, k - 1) /\ todo'[c] # << >>
          BY <3>2, <3>6, <3>5
        <4> QED BY <2>1, <3>1, <3>6, <4>1, <4>2 DEF GoesOn, SwitchesOn, Mesh!meshtasticIsPowered
      <3>7. CASE todo'[c] = <<"init_failed">> /\ UNCHANGED <<told, aired>>
        BY <3>7 DEF GoesOn, SwitchesOn
      <3>8. CASE todo'[c] = Tail(todo[c]) /\ Mesh!Unchecked(c) /\ UNCHANGED <<Mesh!radio, told, aired>>
        <4>1. todo'[c] = Rest(OnSteps, k - 1) /\ todo'[c] # << >> /\ k - 1 # 1
          BY <3>1, <3>2, <3>4, <3>8, <3>5
        <4> QED BY <2>1, <3>1, <3>8, <4>1 DEF GoesOn, SwitchesOn, Mesh!meshtasticIsPowered, Mesh!radio
      <3> QED BY <3>3, <3>6, <3>7, <3>8, StepIs
    <2> QED BY <2>3, <2>4
  <1> QED BY <1>1, <1>2

(* A scan with the radio off ends with it off. *)
LEMMA ScanStep ==
  ASSUME Mesh!TypeOK, NEW c \in Commanders, op[c] = "scan", Scans(c), Mesh!Step(c)
  PROVE  GoesOn(c, Scans(c)') /\ UNCHANGED <<told, aired>>
  <1>1. CASE todo[c] = <<"init_failed">>
    <2>1. todo'[c] = << >> /\ msh_radio_ready' = FALSE /\ chip' = Mesh!ChipOff /\ UNCHANGED <<told, aired>>
      BY <1>1, Single, StepIs DEF Mesh!ChipCommands
    <2> QED BY <2>1 DEF GoesOn, Settled, Mesh!ChipOff
  <1>2. CASE todo[c] # <<"init_failed">>
    <2>1. PICK k \in 1 .. 10 : todo[c] = Rest(ScanSteps, k)
      BY <1>2 DEF Scans
    <2>2. CASE k = 1
      <3>1. todo'[c] = << >> /\ msh_radio_ready' = FALSE /\ chip' = Mesh!ChipOff /\ UNCHANGED <<told, aired>>
        BY <2>1, <2>2, ScanRest, StepIs DEF Mesh!ChipCommands
      <3> QED BY <3>1 DEF GoesOn, Settled, Mesh!ChipOff
    <2>3. CASE k # 1
      <3>1. k - 1 \in 1 .. 10 /\ k > 1
        BY <2>3
      <3>2. Head(todo[c]) \in Mesh!ChipCommands \cup {"ready", "probe"} /\ Tail(todo[c]) = Rest(ScanSteps, k - 1)
        BY <2>1, <3>1, ScanRest
      <3>3. Head(todo[c]) \notin {"wait", "sent", "not_sent", "init_failed", "cut"}
        BY <3>2 DEF Mesh!ChipCommands
      <3>4. (todo'[c] = Tail(todo[c]) \/ todo'[c] = <<"init_failed">>) /\ UNCHANGED <<told, aired>>
        BY <3>2, <3>3, StepIs
      <3>5. Rest(ScanSteps, k - 1) # << >>
        BY <3>1, ScanRest
      <3>6. CASE todo'[c] = Tail(todo[c])
        BY <3>1, <3>2, <3>4, <3>5, <3>6 DEF GoesOn, Scans
      <3>7. CASE todo'[c] = <<"init_failed">>
        BY <3>4, <3>7 DEF GoesOn, Scans
      <3> QED BY <3>4, <3>6, <3>7
    <2> QED BY <2>2, <2>3
  <1> QED BY <1>1, <1>2

(* The probe of a radio that is on leaves it as it is. *)
LEMMA ProbeStep ==
  ASSUME Mesh!TypeOK, NEW c \in Commanders, op[c] = "probe", Probes(c), Mesh!Step(c)
  PROVE  GoesOn(c, Probes(c)') /\ UNCHANGED <<told, aired>>
  <1>1. /\ todo'[c] = << >> /\ msh_state' \in {"ERROR", "ON"}
        /\ UNCHANGED <<msh_radio_ready, chip, told, aired, deaf>>
    BY Single, StepIs DEF Mesh!ChipCommands, Probes
  <1> QED BY <1>1 DEF GoesOn, Settled, Probes, Mesh!meshtasticIsPowered

(* A poll leaves the radio listening. *)
LEMMA PollStep ==
  ASSUME Mesh!TypeOK, NEW c \in Commanders, op[c] = "poll", Polls(c), Mesh!Step(c)
  PROVE  GoesOn(c, Polls(c)') /\ UNCHANGED <<told, aired>>
  <1>1. /\ Head(todo[c]) \in {"ack", "standby", "max_len", "clear", "rx"}
        /\ \/ Head(todo[c]) = "ack" /\ Tail(todo[c]) = << >> /\ (deaf \/ chip.mode = "rx")
           \/ Head(todo[c]) = "rx" /\ Tail(todo[c]) = << >>
           \/ \E k \in 1 .. 5 : Tail(todo[c]) = Rest(PollSteps, k)
    <2>1. CASE todo[c] = <<"ack">> /\ (deaf \/ chip.mode = "rx")
      BY <2>1, Single
    <2>2. CASE \E k \in 1 .. 5 : todo[c] = Rest(PollSteps, k)
      <3>1. PICK k \in 1 .. 5 : todo[c] = Rest(PollSteps, k)
        BY <2>2
      <3>2. k = 1 \/ (k > 1 /\ k - 1 \in 1 .. 5)
        OBVIOUS
      <3> QED BY <3>1, <3>2, PollRest
    <2> QED BY <2>1, <2>2 DEF Polls
  <1>2. Head(todo[c]) \in Mesh!ChipCommands /\ Head(todo[c]) \notin {"wait", "sent", "not_sent", "ready",
              "init_failed", "cut", "probe"}
    BY <1>1 DEF Mesh!ChipCommands
  <1>3. msh_radio_ready /\ chip.en /\ Mesh!meshtasticIsPowered
    BY DEF Polls, Working
  <1>4. CASE /\ todo'[c] = Tail(todo[c]) /\ chip' = Mesh!After(Head(todo[c]), c)
             /\ deaf' = (deaf /\ Head(todo[c]) # "rx")
             /\ UNCHANGED <<msh_state, msh_radio_ready, told, aired>>
    <2>1. Working'
      BY <1>2, <1>3, <1>4, AfterIs DEF Working, Mesh!meshtasticIsPowered
    <2>2. CASE Head(todo[c]) = "ack" /\ Tail(todo[c]) = << >> /\ (deaf \/ chip.mode = "rx")
      <3>1. chip'.mode = chip.mode
        <4>1. "ack" \in Mesh!ChipCommands
          BY DEF Mesh!ChipCommands
        <4>2. Mesh!After("ack", c).mode = chip.mode
          BY <1>3, <4>1, AfterIs
        <4>3. chip' = Mesh!After("ack", c)
          BY <1>4, <2>2
        <4> QED BY <4>2, <4>3
      <3> QED BY <1>4, <2>1, <2>2, <3>1 DEF GoesOn, Settled, Working
    <2>3. CASE Head(todo[c]) = "rx" /\ Tail(todo[c]) = << >>
      <3>1. chip'.mode = "rx"
        <4>1. "rx" \in Mesh!ChipCommands
          BY DEF Mesh!ChipCommands
        <4>2. Mesh!After("rx", c).mode = "rx"
          BY <1>3, <4>1, AfterIs, ZenonT(40)
        <4>3. chip' = Mesh!After("rx", c)
          BY <1>4, <2>3
        <4> QED BY <4>2, <4>3
      <3> QED BY <1>4, <2>1, <2>3, <3>1 DEF GoesOn, Settled, Working
    <2>4. CASE \E k \in 1 .. 5 : Tail(todo[c]) = Rest(PollSteps, k)
      BY <1>4, <2>1, <2>4, PollRest DEF GoesOn, Polls
    <2> QED BY <1>1, <2>2, <2>3, <2>4
  <1>5. CASE deaf' = TRUE /\ todo'[c] \in {Tail(todo[c]), << >>} /\ UNCHANGED <<Mesh!radio, told, aired>>
    <2>1. Working'
      BY <1>3, <1>5 DEF Working, Mesh!radio, Mesh!meshtasticIsPowered
    <2>2. CASE todo'[c] = << >>
      BY <1>5, <2>1, <2>2 DEF GoesOn, Settled, Working
    <2>3. CASE todo'[c] # << >>
      BY <1>1, <1>5, <2>1, <2>3 DEF GoesOn, Polls
    <2> QED BY <2>2, <2>3
  <1> QED BY <1>2, <1>4, <1>5, StepIs

(* Only an acknowledgement and the end of a scan go on after a fault. *)
LEMMA FaultEnds ==
  ASSUME NEW c, op[c] = "send", Head(todo[c]) # "ack", Head(todo[c]) # "standby" \/ Len(todo[c]) # 2
  PROVE  ~Mesh!Unchecked(c)
  <1>1. todo[c] = <<"standby", "cut">> => Head(todo[c]) = "standby" /\ Len(todo[c]) = 2
    OBVIOUS
  <1> QED BY <1>1 DEF Mesh!Unchecked, Mesh!At

(* A frame is prepared step by step. *)
LEMMA SendCommand ==
  ASSUME Mesh!TypeOK, NEW c \in Commanders, Working, NEW k \in 2 .. 6,
         todo[c] = Rest(Mesh!mshTransmitPacket, k), Prepared(c, k),
         Head(todo[c]) \in Mesh!ChipCommands, todo'[c] = Tail(todo[c]), chip' = Mesh!After(Head(todo[c]), c),
         UNCHANGED <<msh_state, msh_radio_ready, told, aired>>
  PROVE  GoesOn(c, Sends(c)')
  <1>1. /\ k - 1 \in 1 .. 6 /\ todo'[c] = Rest(Mesh!mshTransmitPacket, k - 1)
        /\ Rest(Mesh!mshTransmitPacket, k - 1) # << >>
    <2>1. k - 1 \in 1 .. 6 /\ k \in 1 .. 6
      OBVIOUS
    <2> QED BY <2>1, TransmitRest
  <1>2. chip.en /\ chip'.en
    BY AfterIs DEF Working
  <1>3. chip \in [en : BOOLEAN, mode : {"standby", "rx", "tx"}, irq : SUBSET Mesh!Flags,
                  len : {"frame", "max"}, buffer : Commanders \cup {Mesh!Nobody}]
    BY DEF Mesh!TypeOK
  <1>4. Working'
    BY <1>2 DEF Working, Mesh!meshtasticIsPowered
  <1>5. Prepared(c, k - 1)'
    <2>1. CASE k = 6
      <3>1. Head(todo[c]) = "standby"
        BY <2>1, TransmitRest
      <3>2. chip' = [chip EXCEPT !.mode = "standby"]
        BY <1>2, <3>1 DEF Mesh!After
      <3>3. chip'.mode = "standby"
        BY <1>3, <3>2
      <3> QED BY <2>1, <3>3 DEF Prepared
    <2>2. CASE k = 5
      <3>1. Head(todo[c]) = "frame_len"
        BY <2>2, TransmitRest
      <3>2. chip' = [chip EXCEPT !.len = "frame"]
        BY <1>2, <3>1 DEF Mesh!After
      <3>3. chip'.mode = chip.mode /\ chip'.len = "frame"
        BY <1>3, <3>2
      <3> QED BY <2>2, <3>3 DEF Prepared
    <2>3. CASE k = 4
      <3>1. Head(todo[c]) = "write"
        BY <2>3, TransmitRest
      <3>2. chip' = [chip EXCEPT !.buffer = c]
        BY <1>2, <3>1 DEF Mesh!After
      <3>3. chip'.mode = chip.mode /\ chip'.len = chip.len /\ chip'.buffer = c
        BY <1>3, <3>2
      <3> QED BY <2>3, <3>3 DEF Prepared
    <2>4. CASE k = 3
      <3>1. Head(todo[c]) = "clear"
        BY <2>4, TransmitRest
      <3>2. chip' = [chip EXCEPT !.irq = {}]
        BY <1>2, <3>1 DEF Mesh!After
      <3>3. chip'.mode = chip.mode /\ chip'.len = chip.len /\ chip'.buffer = chip.buffer /\ chip'.irq = {}
        BY <1>3, <3>2
      <3> QED BY <2>4, <3>3 DEF Prepared
    <2>5. CASE k = 2
      <3>1. Head(todo[c]) = "tx"
        BY <2>5, TransmitRest
      <3>2. chip' = [chip EXCEPT !.mode = "tx"]
        BY <1>2, <3>1 DEF Mesh!After
      <3>3. chip'.len = chip.len /\ chip'.buffer = chip.buffer /\ chip'.irq = chip.irq
        BY <1>3, <3>2
      <3> QED BY <2>5, <3>3 DEF Prepared
    <2> QED BY <2>1, <2>2, <2>3, <2>4, <2>5
  <1> QED BY <1>1, <1>4, <1>5 DEF GoesOn, Sends

(* A frame that went out was written whole, and the radio listens again *)
(* after it.                                                             *)
LEMMA SendStep ==
  ASSUME Mesh!TypeOK, NEW c \in Commanders, op[c] = "send", Sends(c), Mesh!Step(c),
         \A d \in Commanders : told[d] = "tx_ok" => aired[d]
  PROVE  GoesOn(c, Sends(c)') /\ \A d \in Commanders : told'[d] = "tx_ok" => aired'[d]
  <1>1. told \in [Commanders -> {"nothing", "tx_ok", "tx_failed"}]
    BY DEF Mesh!TypeOK
  <1>2. Working
    BY DEF Sends
  <1>3. ASSUME UNCHANGED Mesh!radio PROVE Working'
    BY <1>2, <1>3 DEF Working, Mesh!radio, Mesh!meshtasticIsPowered
  <1>4. CASE \E k \in 1 .. 6 : todo[c] = Rest(Mesh!mshTransmitPacket, k) /\ Prepared(c, k)
    <2>1. PICK k \in 1 .. 6 : todo[c] = Rest(Mesh!mshTransmitPacket, k) /\ Prepared(c, k)
      BY <1>4
    <2>2. CASE k = 1
      <3>1. Head(todo[c]) = "wait" /\ Len(todo[c]) = 1
        BY <2>1, <2>2, TransmitRest
      <3>2. ~Mesh!Unchecked(c)
        BY <3>1, FaultEnds
      <3>3. /\ UNCHANGED <<Mesh!radio, told, aired>>
            /\ \/ "TX_DONE" \in chip.irq /\ todo'[c] = Mesh!AfterTxDone
               \/ todo'[c] = <<"not_sent">> /\ deaf'
        BY <3>1, <3>2, StepIs DEF Mesh!ChipCommands
      <3>4. Mesh!AfterTxDone = Rest(Mesh!AfterTxDone, 6) /\ 6 \in 1 .. 6 /\ Mesh!AfterTxDone # << >>
        <4>1. /\ Mesh!AfterTxDone \in Seq(Mesh!Steps) /\ Len(Mesh!AfterTxDone) = 6
          BY StepsAre DEF Mesh!Steps, Mesh!ChipCommands
        <4>2. SubSeq(Mesh!AfterTxDone, 1, 6) = Mesh!AfterTxDone
          BY <4>1, SubSeqFull
        <4>3. 6 - 6 + 1 = 1
          OBVIOUS
        <4>4. Rest(Mesh!AfterTxDone, 6) = Mesh!AfterTxDone
          BY <4>1, <4>2, <4>3 DEF Rest
        <4> QED BY <4>4, SentRest
      <3>5. "TX_DONE" \in chip.irq => aired[c]
        BY <2>1, <2>2 DEF Prepared
      <3>6. Working' /\ UNCHANGED <<told, aired>>
        BY <1>3, <3>3
      <3>7. CASE "TX_DONE" \in chip.irq /\ todo'[c] = Mesh!AfterTxDone
        BY <3>4, <3>5, <3>6, <3>7 DEF GoesOn, Sends
      <3>8. CASE todo'[c] = <<"not_sent">> /\ deaf'
        BY <3>6, <3>8 DEF GoesOn, Sends
      <3> QED BY <3>3, <3>6, <3>7, <3>8
    <2>3. CASE k # 1
      <3>1. k \in 2 .. 6
        BY <2>3
      <3>2. /\ Head(todo[c]) \in {"standby", "frame_len", "write", "clear", "tx"}
            /\ Head(todo[c]) # "standby" \/ Len(todo[c]) # 2
        BY <2>1, <3>1, TransmitRest
      <3>3. Head(todo[c]) \in Mesh!ChipCommands /\ Head(todo[c]) \notin {"wait", "sent", "not_sent", "ready",
              "init_failed", "cut", "probe", "ack"}
        BY <3>2 DEF Mesh!ChipCommands
      <3>4. ~Mesh!Unchecked(c)
        BY <3>2, <3>3, FaultEnds
      <3>5. \/ /\ todo'[c] = Tail(todo[c]) /\ chip' = Mesh!After(Head(todo[c]), c)
               /\ UNCHANGED <<msh_state, msh_radio_ready, told, aired>>
            \/ todo'[c] = <<"not_sent">> /\ deaf' /\ UNCHANGED <<Mesh!radio, told, aired>>
        BY <3>3, <3>4, StepIs
      <3>6. CASE /\ todo'[c] = Tail(todo[c]) /\ chip' = Mesh!After(Head(todo[c]), c)
                 /\ UNCHANGED <<msh_state, msh_radio_ready, told, aired>>
        BY <1>2, <2>1, <3>1, <3>3, <3>6, SendCommand
      <3>7. CASE todo'[c] = <<"not_sent">> /\ deaf' /\ UNCHANGED <<Mesh!radio, told, aired>>
        BY <1>3, <3>7 DEF GoesOn, Sends
      <3> QED BY <3>5, <3>6, <3>7
    <2> QED BY <2>2, <2>3
  <1>5. CASE \E k \in 1 .. 6 : todo[c] = Rest(Mesh!AfterTxDone, k) /\ aired[c] /\ (k = 1 => chip.mode = "rx")
    <2>1. PICK k \in 1 .. 6 : todo[c] = Rest(Mesh!AfterTxDone, k) /\ aired[c] /\ (k = 1 => chip.mode = "rx")
      BY <1>5
    <2>2. CASE k = 1
      <3>1. Head(todo[c]) = "sent"
        BY <2>1, <2>2, SentRest
      <3>2. todo'[c] = << >> /\ told' = [told EXCEPT ![c] = "tx_ok"] /\ UNCHANGED <<Mesh!radio, aired, deaf>>
        BY <3>1, StepIs DEF Mesh!ChipCommands
      <3>3. Settled'
        BY <1>3, <2>1, <2>2, <3>2 DEF Settled, Working, Mesh!radio
      <3> QED BY <1>1, <2>1, <3>2, <3>3 DEF GoesOn
    <2>3. CASE k # 1
      <3>1. k - 1 \in 1 .. 6 /\ (k - 1 = 1 => k = 2) /\ (k = 2 \/ k \in 3 .. 5 \/ k = 6)
        BY <2>3
      <3>2. /\ Head(todo[c]) \in {"ack", "standby", "max_len", "clear", "rx"}
            /\ k = 2 => Head(todo[c]) = "rx"
            /\ Tail(todo[c]) = Rest(Mesh!AfterTxDone, k - 1)
        BY <2>1, <3>1, SentRest
      <3>3. Head(todo[c]) \in Mesh!ChipCommands /\ Head(todo[c]) \notin {"wait", "sent", "not_sent", "ready",
              "init_failed", "cut", "probe"}
        BY <3>2 DEF Mesh!ChipCommands
      <3>4. k = 2 => ~Mesh!Unchecked(c)
        BY <3>2, FaultEnds
      <3>5. Rest(Mesh!AfterTxDone, k - 1) # << >>
        BY <3>1, SentRest
      <3>6. CASE /\ todo'[c] = Tail(todo[c]) /\ chip' = Mesh!After(Head(todo[c]), c)
                 /\ UNCHANGED <<msh_state, msh_radio_ready, told, aired>>
        <4>1. chip'.en /\ (k = 2 => chip'.mode = "rx")
          <5>1. chip.en /\ chip'.en
            BY <1>2, <3>3, <3>6, AfterIs DEF Working
          <5>2. k = 2 => chip' = Mesh!After("rx", c)
            BY <3>2, <3>3, <3>6
          <5>3. Mesh!After("rx", c).mode = "rx"
            BY <5>1, AfterIs DEF Mesh!ChipCommands
          <5> QED BY <5>1, <5>2, <5>3
        <4>2. Working'
          BY <1>2, <3>6, <4>1 DEF Working, Mesh!meshtasticIsPowered
        <4> QED BY <2>1, <3>1, <3>2, <3>5, <3>6, <4>1, <4>2 DEF GoesOn, Sends
      <3>7. CASE todo'[c] = <<"not_sent">> /\ deaf' /\ UNCHANGED <<Mesh!radio, told, aired>>
        BY <1>3, <3>7 DEF GoesOn, Sends
      <3>8. CASE todo'[c] = Tail(todo[c]) /\ Mesh!Unchecked(c) /\ UNCHANGED <<Mesh!radio, told, aired>>
        <4>1. k - 1 # 1
          BY <3>1, <3>4, <3>8
        <4> QED BY <1>3, <2>1, <3>1, <3>2, <3>5, <3>8, <4>1 DEF GoesOn, Sends
      <3> QED BY <3>3, <3>6, <3>7, <3>8, StepIs
    <2> QED BY <2>2, <2>3
  <1>6. CASE todo[c] = <<"not_sent">> /\ deaf
    <2>1. todo'[c] = << >> /\ told' = [told EXCEPT ![c] = "tx_failed"] /\ UNCHANGED <<Mesh!radio, aired, deaf>>
      BY <1>6, Single, StepIs DEF Mesh!ChipCommands
    <2>2. Settled'
      BY <1>3, <1>6, <2>1 DEF Settled, Working
    <2> QED BY <1>1, <2>1, <2>2 DEF GoesOn
  <1> QED BY <1>4, <1>5, <1>6 DEF Sends

(* All the steps of a sequence. *)
LEMMA RestAll ==
  /\ <<"standby", "cut">> = Rest(<<"standby", "cut">>, 2)
  /\ OnSteps = Rest(OnSteps, 7) /\ ScanSteps = Rest(ScanSteps, 10) /\ PollSteps = Rest(PollSteps, 5)
  /\ Mesh!mshTransmitPacket = Rest(Mesh!mshTransmitPacket, 6)
  <1>1. ASSUME NEW s \in Seq(Mesh!Steps), NEW n \in Nat, Len(s) = n PROVE s = Rest(s, n)
    <2>1. SubSeq(s, 1, Len(s)) = s
      BY SubSeqFull
    <2>2. n - n + 1 = 1
      OBVIOUS
    <2> QED BY <1>1, <2>1, <2>2 DEF Rest
  <1>2. <<"standby", "cut">> \in Seq(Mesh!Steps) /\ Len(<<"standby", "cut">>) = 2
    BY DEF Mesh!Steps, Mesh!ChipCommands
  <1>3. OnSteps \in Seq(Mesh!Steps) /\ Len(OnSteps) = 7
    BY StepsAre DEF Mesh!Steps, Mesh!ChipCommands
  <1>4. ScanSteps \in Seq(Mesh!Steps) /\ Len(ScanSteps) = 10
    BY StepsAre DEF Mesh!Steps, Mesh!ChipCommands
  <1>5. PollSteps \in Seq(Mesh!Steps) /\ Len(PollSteps) = 5
    BY StepsAre DEF Mesh!Steps, Mesh!ChipCommands
  <1>6. Mesh!mshTransmitPacket \in Seq(Mesh!Steps) /\ Len(Mesh!mshTransmitPacket) = 6
    BY DEF Mesh!mshTransmitPacket, Mesh!Steps, Mesh!ChipCommands
  <1> QED BY <1>1, <1>2, <1>3, <1>4, <1>5, <1>6

(* One task's step while the others are idle. *)
LEMMA StepOne ==
  ASSUME Mesh!TypeOK, OneAtATime, NEW c \in Commanders, Mesh!Step(c) PROVE OneAtATime'
  <1>1. Busy(c) /\ op' = op /\ todo' = [todo EXCEPT ![c] = todo'[c]] /\ todo \in [Commanders -> Seq(Mesh!Steps)]
    BY StepIs DEF Mesh!TypeOK
  <1>2. \A d \in Commanders : d # c => ~Busy(d) /\ ~Busy(d)'
    BY <1>1 DEF OneAtATime, Busy
  <1>3. GoesOn(c, Doing(c)') /\ \A d \in Commanders : told'[d] = "tx_ok" => aired'[d]
    <2>1. Doing(c) /\ \A d \in Commanders : told[d] = "tx_ok" => aired[d]
      BY <1>1 DEF OneAtATime
    <2>2. CASE op[c] = "off" /\ SwitchesOff(c)
      BY <1>1, <2>1, <2>2, OffStep DEF GoesOn, Doing
    <2>3. CASE op[c] = "on" /\ SwitchesOn(c)
      BY <1>1, <2>1, <2>3, OnStep DEF GoesOn, Doing
    <2>4. CASE op[c] = "scan" /\ Scans(c)
      BY <1>1, <2>1, <2>4, ScanStep DEF GoesOn, Doing
    <2>5. CASE op[c] = "probe" /\ Probes(c)
      BY <1>1, <2>1, <2>5, ProbeStep DEF GoesOn, Doing
    <2>6. CASE op[c] = "poll" /\ Polls(c)
      BY <1>1, <2>1, <2>6, PollStep DEF GoesOn, Doing
    <2>7. CASE op[c] = "send" /\ Sends(c)
      BY <1>1, <2>1, <2>7, SendStep DEF GoesOn, Doing
    <2> QED BY <2>1, <2>2, <2>3, <2>4, <2>5, <2>6, <2>7 DEF Doing
  <1>4. Busy(c)' => Doing(c)'
    BY <1>3 DEF GoesOn, Busy
  <1>5. Mesh!Quiet' => Settled'
    BY <1>3 DEF GoesOn, Mesh!Quiet
  <1> QED BY <1>2, <1>3, <1>4, <1>5 DEF OneAtATime

(* A command that begins alone. *)
LEMMA BeginOne ==
  ASSUME Mesh!TypeOK, NEW c \in Commanders, NEW what, NEW steps, Mesh!Begin(c, what, steps), steps # << >>,
         ~overlap',
         Doing(c)', \A d \in Commanders : told'[d] = "tx_ok" => aired'[d]
  PROVE  OneAtATime'
  <1>1. /\ todo \in [Commanders -> Seq(Mesh!Steps)] /\ todo' = [todo EXCEPT ![c] = steps]
        /\ \A d \in Commanders : todo[d] = << >>
    BY DEF Mesh!TypeOK, Mesh!Begin
  <1>2. Busy(c)' /\ \A d \in Commanders : d # c => ~Busy(d)'
    BY <1>1 DEF Busy
  <1>3. ~Mesh!Quiet'
    BY <1>2 DEF Mesh!Quiet, Busy
  <1> QED BY <1>2, <1>3 DEF OneAtATime

(* What a command that begins alone finds. *)
LEMMA BeginAlone ==
  ASSUME MeshInv, NEW c \in Commanders, NEW what, NEW steps, Mesh!Begin(c, what, steps), ~overlap'
  PROVE  /\ OneAtATime /\ Settled /\ \A d \in Commanders : told[d] = "tx_ok" => aired[d]
         /\ op'[c] = what /\ todo'[c] = steps
  <1>1. ~overlap /\ \A d \in Commanders : todo[d] = << >>
    BY DEF Mesh!Begin
  <1> QED BY <1>1 DEF MeshInv, Mesh!TypeOK, OneAtATime, Mesh!Quiet, Mesh!Begin

(* Each command begins its sequence where it may. *)
LEMMA ToggleOne ==
  ASSUME MeshInv, NEW c \in Commanders, Mesh!Toggle(c), ~overlap' PROVE OneAtATime'
  <1>1. UNCHANGED <<told, aired>>
    BY DEF Mesh!Toggle
  <1>2. CASE Mesh!meshtasticIsPowered
    <2>1. Mesh!Begin(c, "off", <<"standby", "cut">>)
      BY <1>2 DEF Mesh!Toggle
    <2>2. op'[c] = "off" /\ todo'[c] = Rest(<<"standby", "cut">>, 2) /\ 2 \in 1 .. 2
          /\ \A d \in Commanders : told[d] = "tx_ok" => aired[d]
      BY <2>1, BeginAlone, RestAll
    <2>3. Doing(c)'
      BY <2>2 DEF Doing, SwitchesOff
    <2>4. <<"standby", "cut">> # << >>
      OBVIOUS
    <2> QED BY <1>1, <2>1, <2>2, <2>3, <2>4, BeginOne DEF MeshInv
  <1>3. CASE ~Mesh!meshtasticIsPowered
    <2>1. Mesh!Begin(c, "on", OnSteps) /\ Mesh!PowerUp
      BY <1>3 DEF Mesh!Toggle, OnSteps
    <2>2. op'[c] = "on" /\ todo'[c] = Rest(OnSteps, 7) /\ 7 \in 1 .. 7 /\ 7 # 1
          /\ \A d \in Commanders : told[d] = "tx_ok" => aired[d]
      BY <2>1, BeginAlone, RestAll
    <2>3. chip'.en /\ Mesh!meshtasticIsPowered'
      BY <2>1 DEF Mesh!PowerUp, Mesh!ChipOff, Mesh!meshtasticIsPowered
    <2>4. Doing(c)'
      BY <2>2, <2>3 DEF Doing, SwitchesOn
    <2>5. OnSteps # << >>
      BY OnRest, RestAll, 7 \in 1 .. 7
    <2> QED BY <1>1, <2>1, <2>2, <2>4, <2>5, BeginOne DEF MeshInv
  <1> QED BY <1>2, <1>3

(* `mss tx` begins. *)
LEMMA SendOne ==
  ASSUME MeshInv, NEW c \in Commanders, Mesh!Send(c), ~overlap' PROVE OneAtATime'
  <1>1. /\ Mesh!Begin(c, "send", Mesh!mshTransmitPacket) /\ Mesh!meshtasticIsPowered /\ msh_radio_ready
        /\ aired' = [aired EXCEPT ![c] = FALSE] /\ told' = [told EXCEPT ![c] = "nothing"]
        /\ UNCHANGED Mesh!radio
    BY DEF Mesh!Send
  <1>2. /\ op'[c] = "send" /\ todo'[c] = Rest(Mesh!mshTransmitPacket, 6) /\ 6 \in 1 .. 6 /\ Settled
        /\ \A d \in Commanders : told[d] = "tx_ok" => aired[d]
    BY <1>1, BeginAlone, RestAll
  <1>3. Working'
    BY <1>1, <1>2 DEF Settled, Working, Mesh!radio, Mesh!meshtasticIsPowered
  <1>4. Prepared(c, 6)'
    BY DEF Prepared
  <1>5. Doing(c)'
    BY <1>2, <1>3, <1>4 DEF Doing, Sends
  <1>6. \A d \in Commanders : told'[d] = "tx_ok" => aired'[d]
    BY <1>1, <1>2 DEF MeshInv, Mesh!TypeOK
  <1>7. Mesh!mshTransmitPacket # << >>
    BY <1>2, TransmitRest, RestAll
  <1> QED BY <1>1, <1>5, <1>6, <1>7, BeginOne DEF MeshInv

(* loop() begins a scan that was asked for. *)
LEMMA FinishScanOne ==
  ASSUME Mesh!MeshAssumption, MeshInv, Mesh!finishMeshtasticScanCommand, ~overlap' PROVE OneAtATime'
  <1>1. UNCHANGED <<msh_radio_ready, told, aired>> /\ "loop" \in Commanders
    BY DEF Mesh!finishMeshtasticScanCommand, Mesh!MeshAssumption
  <1>2. CASE Mesh!meshtasticIsPowered
    <2>1. Mesh!Begin("loop", "probe", <<"probe">>) /\ UNCHANGED <<msh_state, chip, deaf>>
      BY <1>2 DEF Mesh!finishMeshtasticScanCommand
    <2>2. op'["loop"] = "probe" /\ todo'["loop"] = <<"probe">> /\ Settled
          /\ \A d \in Commanders : told[d] = "tx_ok" => aired[d]
      BY <1>1, <2>1, BeginAlone
    <2>3. Doing("loop")'
      BY <1>1, <2>1, <2>2 DEF Doing, Probes, Settled, Mesh!meshtasticIsPowered
    <2>4. <<"probe">> # << >>
      OBVIOUS
    <2> QED BY <1>1, <2>1, <2>2, <2>3, <2>4, BeginOne DEF MeshInv
  <1>3. CASE ~Mesh!meshtasticIsPowered
    <2>1. Mesh!Begin("loop", "scan", ScanSteps)
      BY <1>3 DEF Mesh!finishMeshtasticScanCommand, ScanSteps
    <2>2. op'["loop"] = "scan" /\ todo'["loop"] = Rest(ScanSteps, 10) /\ 10 \in 1 .. 10
          /\ \A d \in Commanders : told[d] = "tx_ok" => aired[d]
      BY <1>1, <2>1, BeginAlone, RestAll
    <2>3. Doing("loop")'
      BY <2>2 DEF Doing, Scans
    <2>4. ScanSteps # << >>
      BY <2>2, ScanRest, RestAll
    <2> QED BY <1>1, <2>1, <2>2, <2>3, <2>4, BeginOne DEF MeshInv
  <1> QED BY <1>2, <1>3

(* loop() answers what the chip reports. *)
LEMMA PollOne ==
  ASSUME Mesh!MeshAssumption, MeshInv, Mesh!meshtasticPoll, ~overlap' PROVE OneAtATime'
  <1> DEFINE steps == <<"ack">> \o IF chip.irq # {"TX_DONE"} THEN Mesh!mshStartReceiveMode ELSE << >>
  <1>1. /\ Mesh!meshtasticIsPowered /\ msh_radio_ready /\ Mesh!Begin("loop", "poll", steps)
        /\ UNCHANGED <<Mesh!radio, told, aired, deaf>> /\ "loop" \in Commanders
    BY DEF Mesh!meshtasticPoll, Mesh!MeshAssumption
  <1>2. steps = PollSteps \/ steps = <<"ack">>
    <2>1. CASE chip.irq # {"TX_DONE"}
      BY <2>1 DEF PollSteps
    <2>2. CASE chip.irq = {"TX_DONE"}
      <3>1. <<"ack">> \in Seq(Mesh!Steps)
        BY DEF Mesh!Steps, Mesh!ChipCommands
      <3>2. <<"ack">> \o << >> = <<"ack">>
        BY <3>1, ConcatEmptySeq
      <3> QED BY <2>2, <3>2
    <2> QED BY <2>1, <2>2
  <1> HIDE DEF steps
  <1>3. op'["loop"] = "poll" /\ todo'["loop"] = steps /\ Settled
        /\ \A d \in Commanders : told[d] = "tx_ok" => aired[d]
    BY <1>1, BeginAlone
  <1>4. Working' /\ (deaf \/ chip.mode = "rx")' /\ PollSteps = Rest(PollSteps, 5) /\ 5 \in 1 .. 5
    <2>1. UNCHANGED <<msh_state, msh_radio_ready, chip, deaf>>
      BY <1>1 DEF Mesh!radio
    <2>2. Working /\ (deaf \/ chip.mode = "rx")
      BY <1>1, <1>3 DEF Settled, Working
    <2>3. Working'
      BY <2>1, <2>2 DEF Working, Mesh!meshtasticIsPowered
    <2>4. (deaf \/ chip.mode = "rx")'
      BY <2>1, <2>2
    <2>5. PollSteps = Rest(PollSteps, 5)
      BY RestAll
    <2> QED BY <2>3, <2>4, <2>5
  <1>5. Doing("loop")'
    BY <1>2, <1>3, <1>4 DEF Doing, Polls
  <1>6. steps # << >>
    <2>1. PollSteps # << >>
      BY <1>4, PollRest
    <2>2. <<"ack">> # << >>
      OBVIOUS
    <2> QED BY <1>2, <2>1, <2>2
  <1> QED BY <1>1, <1>3, <1>5, <1>6, BeginOne DEF MeshInv

(* A frame goes out: it is that of the task that waits for it. *)
LEMMA TxDoneOne == ASSUME Mesh!TypeOK, OneAtATime, Mesh!TxDone PROVE OneAtATime'
  <1>1. /\ chip.mode = "tx" /\ chip'.mode = "standby" /\ chip'.en = chip.en /\ chip'.len = chip.len
        /\ chip'.buffer = chip.buffer
        /\ \A c \in Commanders : /\ aired[c] => aired'[c]
                                 /\ chip.buffer = c /\ chip.len = "frame" => aired'[c]
        /\ UNCHANGED <<msh_state, msh_radio_ready, todo, op, told, deaf>>
    BY DEF Mesh!TxDone, Mesh!TypeOK
  <1>2. Settled => Settled'
    BY <1>1 DEF Settled, Mesh!meshtasticIsPowered
  <1>3. Working => Working'
    BY <1>1 DEF Working, Mesh!meshtasticIsPowered
  <1>4. ASSUME NEW c \in Commanders, Doing(c) PROVE Doing(c)'
    <2>1. SwitchesOff(c) => SwitchesOff(c)'
      BY <1>1 DEF SwitchesOff
    <2>2. SwitchesOn(c) => SwitchesOn(c)'
      BY <1>1 DEF SwitchesOn, Mesh!meshtasticIsPowered
    <2>3. Scans(c) => Scans(c)'
      BY <1>1 DEF Scans
    <2>4. Probes(c) => Probes(c)'
      BY <1>1, <1>2 DEF Probes
    <2>5. Polls(c) => Polls(c)'
      BY <1>1, <1>3 DEF Polls
    <2>6. Sends(c) => Sends(c)'
      <3>1. ASSUME NEW k \in 1 .. 6, Prepared(c, k) PROVE Prepared(c, k)'
        <4>1. k = 1 \/ k = 6
          BY <1>1, <3>1 DEF Prepared
        <4>2. CASE k = 1
          BY <1>1, <3>1, <4>2 DEF Prepared
        <4>3. CASE k = 6
          BY <4>3 DEF Prepared
        <4> QED BY <4>1, <4>2, <4>3
      <3> QED BY <1>1, <1>3, <3>1 DEF Sends
    <2> QED BY <1>1, <1>4, <2>1, <2>2, <2>3, <2>4, <2>5, <2>6 DEF Doing
  <1> QED BY <1>1, <1>2, <1>4 DEF OneAtATime, Busy, Mesh!Quiet

(* A packet arrives in reception. *)
LEMMA PacketOne == ASSUME Mesh!TypeOK, OneAtATime, Mesh!Packet PROVE OneAtATime'
  <1>1. /\ chip.mode = "rx" /\ chip'.mode = "rx" /\ chip'.en = chip.en /\ chip'.len = chip.len
        /\ chip'.buffer = chip.buffer /\ ("TX_DONE" \in chip'.irq => "TX_DONE" \in chip.irq)
        /\ UNCHANGED <<msh_state, msh_radio_ready, todo, op, told, aired, deaf>>
    BY DEF Mesh!Packet, Mesh!TypeOK
  <1>2. Settled => Settled'
    BY <1>1 DEF Settled, Mesh!meshtasticIsPowered
  <1>3. Working => Working'
    BY <1>1 DEF Working, Mesh!meshtasticIsPowered
  <1>4. ASSUME NEW c \in Commanders, Doing(c) PROVE Doing(c)'
    <2>1. SwitchesOff(c) => SwitchesOff(c)'
      BY <1>1 DEF SwitchesOff
    <2>2. SwitchesOn(c) => SwitchesOn(c)'
      BY <1>1 DEF SwitchesOn, Mesh!meshtasticIsPowered
    <2>3. Scans(c) => Scans(c)'
      BY <1>1 DEF Scans
    <2>4. Probes(c) => Probes(c)'
      BY <1>1, <1>2 DEF Probes
    <2>5. Polls(c) => Polls(c)'
      BY <1>1, <1>3 DEF Polls
    <2>6. Sends(c) => Sends(c)'
      <3>1. ASSUME NEW k \in 1 .. 6, Prepared(c, k) PROVE Prepared(c, k)'
        BY <1>1, <3>1 DEF Prepared
      <3> QED BY <1>1, <1>3, <3>1 DEF Sends
    <2> QED BY <1>1, <1>4, <2>1, <2>2, <2>3, <2>4, <2>5, <2>6 DEF Doing
  <1> QED BY <1>1, <1>2, <1>4 DEF OneAtATime, Busy, Mesh!Quiet

-----------------------------------------------------------------------------
(* The types, action by action. *)

(* A command leaves the chip in a state of its own. *)
LEMMA AfterTyped ==
  ASSUME Mesh!TypeOK, NEW c \in Commanders, NEW h
  PROVE  Mesh!After(h, c) \in [en : BOOLEAN, mode : {"standby", "rx", "tx"}, irq : SUBSET Mesh!Flags,
                          len : {"frame", "max"}, buffer : Commanders \cup {Mesh!Nobody}]
  <1> DEFINE Chips == [en : BOOLEAN, mode : {"standby", "rx", "tx"}, irq : SUBSET Mesh!Flags,
                       len : {"frame", "max"}, buffer : Commanders \cup {Mesh!Nobody}]
  <1>1. chip \in Chips /\ seen[c] \in SUBSET Mesh!Flags
    BY DEF Mesh!TypeOK
  <1>2. /\ [chip EXCEPT !.mode = "standby"] \in Chips /\ [chip EXCEPT !.mode = "rx"] \in Chips
        /\ [chip EXCEPT !.mode = "tx"] \in Chips
        /\ [chip EXCEPT !.len = "max"] \in Chips /\ [chip EXCEPT !.len = "frame"] \in Chips
        /\ [chip EXCEPT !.buffer = c] \in Chips
        /\ [chip EXCEPT !.irq = {}] \in Chips /\ [chip EXCEPT !.irq = @ \ seen[c]] \in Chips
    BY <1>1
  <1> HIDE DEF Chips
  <1>3. Mesh!After(h, c) \in Chips
    BY <1>1, <1>2 DEF Mesh!After
  <1> QED BY <1>3 DEF Chips

(* One more of what is counted. *)
LEMMA Counted ==
  ASSUME Mesh!MeshAssumption, Mesh!TypeOK
  PROVE  /\ mesh_bounds.commands < MaxCommands => [mesh_bounds EXCEPT !.commands = @ + 1] \in [commands : 0 .. MaxCommands, faults : 0 .. MaxFaults, packets : 0 .. MaxPackets]
         /\ mesh_bounds.faults < MaxFaults => [mesh_bounds EXCEPT !.faults = @ + 1] \in [commands : 0 .. MaxCommands, faults : 0 .. MaxFaults, packets : 0 .. MaxPackets]
         /\ mesh_bounds.packets < MaxPackets => [mesh_bounds EXCEPT !.packets = @ + 1] \in [commands : 0 .. MaxCommands, faults : 0 .. MaxFaults, packets : 0 .. MaxPackets]
  <1> DEFINE Counts == [commands : 0 .. MaxCommands, faults : 0 .. MaxFaults, packets : 0 .. MaxPackets]
  <1>1. MaxCommands \in Nat /\ MaxFaults \in Nat /\ MaxPackets \in Nat
    BY DEF Mesh!MeshAssumption
  <1>2. mesh_bounds \in Counts
    BY DEF Mesh!TypeOK
  <1>3. \A m \in Nat : \A n \in 0 .. m : n < m => n + 1 \in 0 .. m
    OBVIOUS
  <1>4. /\ mesh_bounds.commands < MaxCommands => mesh_bounds.commands + 1 \in 0 .. MaxCommands
        /\ mesh_bounds.faults < MaxFaults => mesh_bounds.faults + 1 \in 0 .. MaxFaults
        /\ mesh_bounds.packets < MaxPackets => mesh_bounds.packets + 1 \in 0 .. MaxPackets
    BY <1>1, <1>2, <1>3
  <1>5. /\ \A n \in 0 .. MaxCommands : [mesh_bounds EXCEPT !.commands = n] \in Counts
        /\ \A n \in 0 .. MaxFaults : [mesh_bounds EXCEPT !.faults = n] \in Counts
        /\ \A n \in 0 .. MaxPackets : [mesh_bounds EXCEPT !.packets = n] \in Counts
    BY <1>2
  <1> QED BY <1>4, <1>5

(* A step keeps the types. *)
LEMMA StepTyped ==
  ASSUME Mesh!MeshAssumption, Mesh!TypeOK, NEW c \in Commanders, Mesh!Step(c)
  PROVE  Mesh!TypeOK'
  <1> DEFINE Others == <<msh_state, msh_radio_ready, meshtastic_scan_pending, chip, seen, told, deaf, mesh_bounds>>
  <1>1. todo \in [Commanders -> Seq(Mesh!Steps)] /\ todo[c] \in Seq(Mesh!Steps)
    BY DEF Mesh!TypeOK
  <1>2. todo[c] # << >> => Tail(todo[c]) \in Seq(Mesh!Steps)
    BY <1>1, HeadTailProperties
  <1>3. << >> \in Seq(Mesh!Steps)
    BY EmptySeq
  <1>4. <<"not_sent">> \in Seq(Mesh!Steps) /\ <<"init_failed">> \in Seq(Mesh!Steps)
    BY DEF Mesh!Steps
  <1>5. Mesh!AfterTxDone \in Seq(Mesh!Steps)
    BY StepsAre DEF Mesh!Steps, Mesh!ChipCommands
  <1>6. ASSUME NEW s \in Seq(Mesh!Steps) PROVE [todo EXCEPT ![c] = s] \in [Commanders -> Seq(Mesh!Steps)]
    BY <1>1
  <1>7. CASE Mesh!Command(c)
    <2>1. todo' \in [Commanders -> Seq(Mesh!Steps)]
      BY <1>2, <1>6, <1>7 DEF Mesh!Command, Mesh!Go
    <2>2. chip' \in [en : BOOLEAN, mode : {"standby", "rx", "tx"}, irq : SUBSET Mesh!Flags,
                     len : {"frame", "max"}, buffer : Commanders \cup {Mesh!Nobody}]
      BY <1>7, AfterTyped DEF Mesh!Command
    <2>3. deaf' \in BOOLEAN
      BY <1>7, Zenon DEF Mesh!Command, Mesh!TypeOK
    <2>4. UNCHANGED <<msh_state, msh_radio_ready, meshtastic_scan_pending, op, seen, told, aired,
                      overlap, mesh_bounds>>
      BY <1>7 DEF Mesh!Command
    <2> QED BY <2>1, <2>2, <2>3, <2>4 DEF Mesh!TypeOK
  <1>8. CASE Mesh!Wait(c)
    <2>1. todo' \in [Commanders -> Seq(Mesh!Steps)]
      BY <1>4, <1>5, <1>6, <1>8 DEF Mesh!Wait, Mesh!Go
    <2>2. seen' \in [Commanders -> SUBSET Mesh!Flags]
      <3>1. {"TX_DONE"} \in SUBSET Mesh!Flags /\ seen \in [Commanders -> SUBSET Mesh!Flags]
        BY DEF Mesh!Flags, Mesh!TypeOK
      <3>2. seen' = [seen EXCEPT ![c] = {"TX_DONE"}] \/ seen' = seen
        BY <1>8 DEF Mesh!Wait
      <3> QED BY <3>1, <3>2
    <2>3. deaf' \in BOOLEAN
      BY <1>8 DEF Mesh!Wait, Mesh!TypeOK
    <2>4. UNCHANGED <<Mesh!radio, meshtastic_scan_pending, op, told, aired, overlap, mesh_bounds>>
      BY <1>8 DEF Mesh!Wait
    <2> QED BY <2>1, <2>2, <2>3, <2>4 DEF Mesh!TypeOK, Mesh!radio
  <1>9. CASE Mesh!Fault(c)
    <2>1. (IF Mesh!Unchecked(c) THEN Tail(todo[c])
           ELSE CASE op[c] = "send" -> <<"not_sent">>
                  [] op[c] \in {"on", "scan"} -> <<"init_failed">>
                  [] OTHER -> << >>) \in Seq(Mesh!Steps)
      BY <1>2, <1>3, <1>4, <1>9 DEF Mesh!Fault
    <2>2. todo' \in [Commanders -> Seq(Mesh!Steps)]
      BY <1>6, <1>9, <2>1 DEF Mesh!Fault, Mesh!Go
    <2>3. mesh_bounds' \in [commands : 0 .. MaxCommands, faults : 0 .. MaxFaults, packets : 0 .. MaxPackets]
      BY <1>9, Counted DEF Mesh!Fault
    <2>4. deaf' = TRUE /\ UNCHANGED <<Mesh!radio, meshtastic_scan_pending, op, seen, told, aired, overlap>>
      BY <1>9 DEF Mesh!Fault
    <2>5. deaf' \in BOOLEAN
      BY <2>4, Zenon
    <2> QED BY <2>2, <2>3, <2>4, <2>5 DEF Mesh!TypeOK, Mesh!radio
  <1>10. CASE Mesh!Sent(c)
    <2>1. todo' \in [Commanders -> Seq(Mesh!Steps)]
      BY <1>3, <1>6, <1>10 DEF Mesh!Sent, Mesh!Go
    <2>2. told' \in [Commanders -> {"nothing", "tx_ok", "tx_failed"}]
      BY <1>10 DEF Mesh!Sent, Mesh!TypeOK
    <2>3. UNCHANGED <<Mesh!radio, meshtastic_scan_pending, op, seen, aired, deaf, overlap, mesh_bounds>>
      BY <1>10 DEF Mesh!Sent
    <2> QED BY <2>1, <2>2, <2>3 DEF Mesh!TypeOK, Mesh!radio
  <1>11. CASE Mesh!Ready(c)
    <2>1. todo' \in [Commanders -> Seq(Mesh!Steps)]
      BY <1>2, <1>6, <1>11 DEF Mesh!Ready, Mesh!At, Mesh!Go
    <2>2. msh_radio_ready' \in BOOLEAN
      BY <1>11, Zenon DEF Mesh!Ready
    <2>3. UNCHANGED <<msh_state, chip, meshtastic_scan_pending, op, seen, told, aired, deaf, overlap, mesh_bounds>>
      BY <1>11 DEF Mesh!Ready
    <2> QED BY <2>1, <2>2, <2>3 DEF Mesh!TypeOK
  <1>12. CASE Mesh!InitFailed(c) \/ Mesh!Cut(c)
    <2>1. todo' \in [Commanders -> Seq(Mesh!Steps)]
      BY <1>3, <1>6, <1>12 DEF Mesh!InitFailed, Mesh!Cut, Mesh!Go
    <2>2. msh_state' \in {"OFF", "ON", "ERROR"} /\ chip' = Mesh!ChipOff
          /\ UNCHANGED <<op, seen, told, aired, deaf, overlap, mesh_bounds>>
      BY <1>12 DEF Mesh!InitFailed, Mesh!Cut
    <2>3. msh_radio_ready' \in BOOLEAN
      BY <1>12, Zenon DEF Mesh!InitFailed, Mesh!Cut
    <2>4. meshtastic_scan_pending' \in BOOLEAN
      BY <1>12, Zenon DEF Mesh!InitFailed, Mesh!Cut
    <2>5. chip' \in [en : BOOLEAN, mode : {"standby", "rx", "tx"}, irq : SUBSET Mesh!Flags,
                     len : {"frame", "max"}, buffer : Commanders \cup {Mesh!Nobody}]
      BY <2>2 DEF Mesh!ChipOff
    <2> QED BY <2>1, <2>2, <2>3, <2>4, <2>5 DEF Mesh!TypeOK
  <1>13. CASE Mesh!Probe(c)
    <2>1. todo' \in [Commanders -> Seq(Mesh!Steps)]
      BY <1>2, <1>6, <1>13 DEF Mesh!Probe, Mesh!At, Mesh!Go
    <2>2. msh_state' \in {"OFF", "ON", "ERROR"}
      BY <1>13 DEF Mesh!Probe, Mesh!TypeOK
    <2>3. meshtastic_scan_pending' \in BOOLEAN
      BY <1>13, Zenon DEF Mesh!Probe
    <2>4. UNCHANGED <<msh_radio_ready, chip, op, seen, told, aired, deaf, overlap, mesh_bounds>>
      BY <1>13 DEF Mesh!Probe
    <2> QED BY <2>1, <2>2, <2>3, <2>4 DEF Mesh!TypeOK
  <1> QED BY <1>7, <1>8, <1>9, <1>10, <1>11, <1>12, <1>13 DEF Mesh!Step

(* What Begin writes has its types. *)
LEMMA BeginTyped ==
  ASSUME Mesh!TypeOK, NEW c \in Commanders, NEW steps \in Seq(Mesh!Steps),
         NEW what \in {"on", "off", "send", "poll", "scan", "probe"}, Mesh!Begin(c, what, steps)
  PROVE  /\ todo' \in [Commanders -> Seq(Mesh!Steps)] /\ overlap' \in BOOLEAN
         /\ op' \in [Commanders -> {"none", "on", "off", "send", "poll", "scan", "probe"}]
  <1>1. overlap' \in BOOLEAN
    BY Zenon DEF Mesh!Begin, Mesh!TypeOK
  <1>2. todo' \in [Commanders -> Seq(Mesh!Steps)]
    BY DEF Mesh!Begin, Mesh!TypeOK
  <1>3. op' \in [Commanders -> {"none", "on", "off", "send", "poll", "scan", "probe"}]
    BY DEF Mesh!Begin, Mesh!TypeOK
  <1> QED BY <1>1, <1>2, <1>3

(* A typed command counts. *)
LEMMA TypeTyped ==
  ASSUME Mesh!MeshAssumption, Mesh!TypeOK, Mesh!Type
  PROVE  mesh_bounds' \in [commands : 0 .. MaxCommands, faults : 0 .. MaxFaults, packets : 0 .. MaxPackets]
  BY Counted DEF Mesh!Type

(* The sequences are sequences of steps. *)
LEMMA SequencesTyped ==
  /\ <<"standby", "cut">> \in Seq(Mesh!Steps) /\ OnSteps \in Seq(Mesh!Steps) /\ ScanSteps \in Seq(Mesh!Steps)
  /\ Mesh!mshTransmitPacket \in Seq(Mesh!Steps) /\ PollSteps \in Seq(Mesh!Steps) /\ <<"ack">> \in Seq(Mesh!Steps)
  /\ <<"probe">> \in Seq(Mesh!Steps)
  BY StepsAre DEF Mesh!Steps, Mesh!ChipCommands, Mesh!mshTransmitPacket

(* A powered chip is a chip. *)
LEMMA PowerUpTyped ==
  ASSUME Mesh!PowerUp
  PROVE  /\ msh_state' \in {"OFF", "ON", "ERROR"}
         /\ chip' \in [en : BOOLEAN, mode : {"standby", "rx", "tx"}, irq : SUBSET Mesh!Flags,
                       len : {"frame", "max"}, buffer : Commanders \cup {Mesh!Nobody}]
  BY DEF Mesh!PowerUp, Mesh!ChipOff

(* What begins something keeps the types, and so do the chip and a packet. *)
LEMMA ToggleTyped ==
  ASSUME Mesh!MeshAssumption, Mesh!TypeOK, NEW c \in Commanders, Mesh!Toggle(c) PROVE Mesh!TypeOK'
  <1>1. mesh_bounds' \in [commands : 0 .. MaxCommands, faults : 0 .. MaxFaults, packets : 0 .. MaxPackets]
    BY TypeTyped DEF Mesh!Toggle
  <1>2. UNCHANGED <<msh_radio_ready, meshtastic_scan_pending, seen, told, aired>>
    BY DEF Mesh!Toggle
  <1>3. CASE Mesh!meshtasticIsPowered
    <2>1. Mesh!Begin(c, "off", <<"standby", "cut">>) /\ UNCHANGED <<msh_state, chip, deaf>>
      BY <1>3 DEF Mesh!Toggle
    <2>2. /\ todo' \in [Commanders -> Seq(Mesh!Steps)] /\ overlap' \in BOOLEAN
          /\ op' \in [Commanders -> {"none", "on", "off", "send", "poll", "scan", "probe"}]
      BY <2>1, SequencesTyped, BeginTyped
    <2> QED BY <1>1, <1>2, <2>1, <2>2 DEF Mesh!TypeOK
  <1>4. CASE ~Mesh!meshtasticIsPowered
    <2>1. Mesh!Begin(c, "on", OnSteps) /\ Mesh!PowerUp /\ deaf' = FALSE
      BY <1>4 DEF Mesh!Toggle, OnSteps
    <2>2. /\ todo' \in [Commanders -> Seq(Mesh!Steps)] /\ overlap' \in BOOLEAN
          /\ op' \in [Commanders -> {"none", "on", "off", "send", "poll", "scan", "probe"}]
      BY <2>1, SequencesTyped, BeginTyped
    <2>3. deaf' \in BOOLEAN
      BY <2>1, Zenon
    <2> QED BY <1>1, <1>2, <2>1, <2>2, <2>3, PowerUpTyped DEF Mesh!TypeOK
  <1> QED BY <1>3, <1>4

(* A send keeps the types. *)
LEMMA SendTyped ==
  ASSUME Mesh!MeshAssumption, Mesh!TypeOK, NEW c \in Commanders, Mesh!Send(c) PROVE Mesh!TypeOK'
  <1>1. mesh_bounds' \in [commands : 0 .. MaxCommands, faults : 0 .. MaxFaults, packets : 0 .. MaxPackets]
    BY TypeTyped DEF Mesh!Send
  <1>2. Mesh!Begin(c, "send", Mesh!mshTransmitPacket) /\ UNCHANGED <<Mesh!radio, meshtastic_scan_pending, seen, deaf>>
        /\ aired' = [aired EXCEPT ![c] = FALSE] /\ told' = [told EXCEPT ![c] = "nothing"]
    BY DEF Mesh!Send
  <1>3. /\ todo' \in [Commanders -> Seq(Mesh!Steps)] /\ overlap' \in BOOLEAN
        /\ op' \in [Commanders -> {"none", "on", "off", "send", "poll", "scan", "probe"}]
    BY <1>2, SequencesTyped, BeginTyped
  <1>4. told' \in [Commanders -> {"nothing", "tx_ok", "tx_failed"}] /\ aired' \in [Commanders -> BOOLEAN]
    BY <1>2 DEF Mesh!TypeOK
  <1> QED BY <1>1, <1>2, <1>3, <1>4 DEF Mesh!TypeOK, Mesh!radio

(* The start of a scan that was asked for keeps the types. *)
LEMMA FinishScanTyped ==
  ASSUME Mesh!MeshAssumption, Mesh!TypeOK, Mesh!finishMeshtasticScanCommand PROVE Mesh!TypeOK'
  <1>1. UNCHANGED <<msh_radio_ready, meshtastic_scan_pending, seen, told, aired, mesh_bounds>>
        /\ "loop" \in Commanders
    BY DEF Mesh!finishMeshtasticScanCommand, Mesh!MeshAssumption
  <1>2. CASE Mesh!meshtasticIsPowered
    <2>1. Mesh!Begin("loop", "probe", <<"probe">>) /\ UNCHANGED <<msh_state, chip, deaf>>
      BY <1>2 DEF Mesh!finishMeshtasticScanCommand
    <2>2. /\ todo' \in [Commanders -> Seq(Mesh!Steps)] /\ overlap' \in BOOLEAN
          /\ op' \in [Commanders -> {"none", "on", "off", "send", "poll", "scan", "probe"}]
      BY <1>1, <2>1, SequencesTyped, BeginTyped
    <2> QED BY <1>1, <2>1, <2>2 DEF Mesh!TypeOK
  <1>3. CASE ~Mesh!meshtasticIsPowered
    <2>1. Mesh!Begin("loop", "scan", ScanSteps) /\ Mesh!PowerUp /\ deaf' = FALSE
      BY <1>3 DEF Mesh!finishMeshtasticScanCommand, ScanSteps
    <2>2. /\ todo' \in [Commanders -> Seq(Mesh!Steps)] /\ overlap' \in BOOLEAN
          /\ op' \in [Commanders -> {"none", "on", "off", "send", "poll", "scan", "probe"}]
      BY <1>1, <2>1, SequencesTyped, BeginTyped
    <2>3. deaf' \in BOOLEAN
      BY <2>1, Zenon
    <2> QED BY <1>1, <2>1, <2>2, <2>3, PowerUpTyped DEF Mesh!TypeOK
  <1> QED BY <1>2, <1>3

(* A poll keeps the types. *)
LEMMA PollTyped ==
  ASSUME Mesh!MeshAssumption, Mesh!TypeOK, Mesh!meshtasticPoll PROVE Mesh!TypeOK'
  <1> DEFINE steps == <<"ack">> \o IF chip.irq # {"TX_DONE"} THEN Mesh!mshStartReceiveMode ELSE << >>
  <1>1. /\ Mesh!Begin("loop", "poll", steps) /\ seen' = [seen EXCEPT !["loop"] = chip.irq]
        /\ UNCHANGED <<Mesh!radio, meshtastic_scan_pending, told, aired, deaf, mesh_bounds>> /\ "loop" \in Commanders
    BY DEF Mesh!meshtasticPoll, Mesh!MeshAssumption
  <1>2. steps \in Seq(Mesh!Steps)
    <2>1. CASE chip.irq # {"TX_DONE"}
      BY <2>1, SequencesTyped DEF PollSteps
    <2>2. CASE chip.irq = {"TX_DONE"}
      <3>1. <<"ack">> \o << >> = <<"ack">>
        BY SequencesTyped, ConcatEmptySeq
      <3> QED BY <2>2, <3>1, SequencesTyped
    <2> QED BY <2>1, <2>2
  <1> HIDE DEF steps
  <1>3. /\ todo' \in [Commanders -> Seq(Mesh!Steps)] /\ overlap' \in BOOLEAN
        /\ op' \in [Commanders -> {"none", "on", "off", "send", "poll", "scan", "probe"}]
    BY <1>1, <1>2, BeginTyped
  <1>4. seen' \in [Commanders -> SUBSET Mesh!Flags]
    BY <1>1 DEF Mesh!TypeOK
  <1> QED BY <1>1, <1>3, <1>4 DEF Mesh!TypeOK, Mesh!radio

(* A transmission that ends and a packet keep the types. *)
LEMMA AirTyped == ASSUME Mesh!MeshAssumption, Mesh!TypeOK, Mesh!TxDone \/ Mesh!Packet PROVE Mesh!TypeOK'
  <1>1. CASE Mesh!TxDone
    <2>1. chip' \in [en : BOOLEAN, mode : {"standby", "rx", "tx"}, irq : SUBSET Mesh!Flags,
                     len : {"frame", "max"}, buffer : Commanders \cup {Mesh!Nobody}]
      BY <1>1 DEF Mesh!TxDone, Mesh!TypeOK, Mesh!Flags
    <2>2. aired' \in [Commanders -> BOOLEAN]
      BY <1>1, Zenon DEF Mesh!TxDone, Mesh!TypeOK
    <2> QED BY <1>1, <2>1, <2>2 DEF Mesh!TxDone, Mesh!TypeOK
  <1>2. CASE Mesh!Packet
    <2>1. chip' \in [en : BOOLEAN, mode : {"standby", "rx", "tx"}, irq : SUBSET Mesh!Flags,
                     len : {"frame", "max"}, buffer : Commanders \cup {Mesh!Nobody}]
      <3>1. PICK flag \in Mesh!Flags : chip' = [chip EXCEPT !.irq = @ \cup {flag}]
        BY <1>2 DEF Mesh!Packet, Mesh!Flags
      <3> QED BY <3>1 DEF Mesh!TypeOK
    <2>2. mesh_bounds' \in [commands : 0 .. MaxCommands, faults : 0 .. MaxFaults, packets : 0 .. MaxPackets]
      BY <1>2, Counted DEF Mesh!Packet
    <2> QED BY <1>2, <2>1, <2>2 DEF Mesh!Packet, Mesh!TypeOK
  <1> QED BY <1>1, <1>2

(* The invariant holds of a radio that is off. *)
LEMMA InitMeshInv == ASSUME Mesh!MeshAssumption, Mesh!Init PROVE MeshInv
  <1>1. << >> \in Seq(Mesh!Steps)
    BY EmptySeq
  <1>2. todo \in [Commanders -> Seq(Mesh!Steps)]
    BY <1>1 DEF Mesh!Init
  <1>3. seen \in [Commanders -> SUBSET Mesh!Flags] /\ aired \in [Commanders -> BOOLEAN]
    BY DEF Mesh!Init, Mesh!Flags
  <1>4. chip \in [en : BOOLEAN, mode : {"standby", "rx", "tx"}, irq : SUBSET Mesh!Flags,
                  len : {"frame", "max"}, buffer : Commanders \cup {Mesh!Nobody}]
    BY DEF Mesh!Init, Mesh!ChipOff
  <1>5. mesh_bounds \in [commands : 0 .. MaxCommands, faults : 0 .. MaxFaults, packets : 0 .. MaxPackets]
    BY DEF Mesh!Init, Mesh!MeshAssumption
  <1>6. Mesh!TypeOK
    BY <1>2, <1>3, <1>4, <1>5 DEF Mesh!Init, Mesh!TypeOK
  <1>7. OneAtATime
    BY DEF OneAtATime, Mesh!Init, Busy, Mesh!Quiet, Settled, Mesh!ChipOff
  <1> QED BY <1>6, <1>7 DEF MeshInv

(* Every step keeps it. *)
LEMMA NextMeshInv == ASSUME Mesh!MeshAssumption, MeshInv, [Mesh!Next]_(Mesh!vars) PROVE MeshInv'
  <1> USE DEF MeshInv
  <1>1. ASSUME NEW c \in Commanders, Mesh!Toggle(c) PROVE MeshInv'
    BY <1>1, ToggleOne, ToggleTyped
  <1>2. ASSUME NEW c \in Commanders, Mesh!Send(c) PROVE MeshInv'
    BY <1>2, SendOne, SendTyped
  <1>3. ASSUME NEW c \in Commanders, Mesh!meshtasticScanCommand(c) PROVE MeshInv'
    <2>1. UNCHANGED <<msh_state, msh_radio_ready, chip, todo, op, seen, told, aired, deaf, overlap>>
          /\ meshtastic_scan_pending' = TRUE
      BY <1>3 DEF Mesh!meshtasticScanCommand, Mesh!radio
    <2>2. mesh_bounds' \in [commands : 0 .. MaxCommands, faults : 0 .. MaxFaults, packets : 0 .. MaxPackets]
      BY <1>3, TypeTyped DEF Mesh!meshtasticScanCommand
    <2>3. Mesh!TypeOK'
      BY <2>1, <2>2 DEF Mesh!TypeOK
    <2>4. OneAtATime => OneAtATime'
      BY <2>1 DEF OneAtATime, Busy, Mesh!Quiet, Doing, SwitchesOff, SwitchesOn, Scans, Probes, Polls, Sends,
                  Prepared, Settled, Working, Mesh!meshtasticIsPowered
    <2> QED BY <2>1, <2>3, <2>4
  <1>4. ASSUME NEW c \in Commanders, Mesh!Step(c) PROVE MeshInv'
    <2>1. overlap' = overlap
      BY <1>4, StepIs
    <2> QED BY <1>4, <2>1, StepOne, StepTyped
  <1>5. CASE Mesh!finishMeshtasticScanCommand
    BY <1>5, FinishScanOne, FinishScanTyped
  <1>6. CASE Mesh!meshtasticPoll
    BY <1>6, PollOne, PollTyped
  <1>7. CASE Mesh!TxDone
    BY <1>7, TxDoneOne, AirTyped DEF Mesh!TxDone
  <1>8. CASE Mesh!Packet
    BY <1>8, PacketOne, AirTyped DEF Mesh!Packet
  <1>9. CASE UNCHANGED Mesh!vars
    <2>1. UNCHANGED <<msh_state, msh_radio_ready, chip, meshtastic_scan_pending, todo, op, seen, told,
                      aired, deaf, overlap, mesh_bounds>>
      BY <1>9 DEF Mesh!vars, Mesh!radio
    <2>2. Mesh!TypeOK'
      BY <2>1 DEF Mesh!TypeOK
    <2>3. OneAtATime => OneAtATime'
      BY <2>1 DEF OneAtATime, Busy, Mesh!Quiet, Doing, SwitchesOff, SwitchesOn, Scans, Probes, Polls, Sends,
                  Prepared, Settled, Working, Mesh!meshtasticIsPowered
    <2> QED BY <2>1, <2>2, <2>3
  <1> QED BY <1>1, <1>2, <1>3, <1>4, <1>5, <1>6, <1>7, <1>8, <1>9 DEF Mesh!Next

(* It says what the checked properties say. *)
LEMMA MeshKept == MeshInv => Mesh!TypeOK /\ Mesh!ListensAgain /\ Mesh!OkMeansSent
  BY DEF MeshInv, OneAtATime, Settled, Mesh!ListensAgain, Mesh!OkMeansSent

-----------------------------------------------------------------------------
(* The radio by itself, for every set of tasks and all bounds: the         *)
(* inductive invariant.                                                    *)
THEOREM MeshInvariance == Mesh!Spec => []MeshInv
  <1>1. Mesh!Init => MeshInv
    BY InitMeshInv, PartsAssumption
  <1>2. MeshInv /\ [Mesh!Next]_(Mesh!vars) => MeshInv'
    BY NextMeshInv, PartsAssumption
  <1> QED BY <1>1, <1>2, PTL DEF Mesh!Spec

-----------------------------------------------------------------------------
(* The parts together: what is proved of each holds where a behaviour      *)
(* follows one of them.                                                    *)

(* A step of the composition is a step or a stutter of every part. *)
LEMMA OneOfTheParts ==
  ASSUME [PartsNext]_parts
  PROVE  /\ part' = part
         /\ [Next]_vars /\ [History!Next]_(History!vars) /\ [Cache!Next]_(Cache!vars)
         /\ [Gnss!Next]_(Gnss!vars) /\ [Mesh!Next]_(Mesh!vars) /\ [Picker!Next]_(Picker!vars)
  <1>1. UNCHANGED line => UNCHANGED History!vars
    BY DEF line, History!vars
  <1>2. UNCHANGED cache => UNCHANGED Cache!vars
    BY DEF cache, Cache!vars
  <1>3. UNCHANGED gnss => UNCHANGED Gnss!vars
    BY DEF gnss, Gnss!vars, Gnss!session, Gnss!sync, Gnss!line, Gnss!ghosts
  <1>4. UNCHANGED mesh => UNCHANGED Mesh!vars
    BY DEF mesh, Mesh!vars, Mesh!radio
  <1>5. UNCHANGED picker => UNCHANGED Picker!vars
    BY DEF picker, Picker!vars, Picker!lists, Picker!picker
  <1> QED BY <1>1, <1>2, <1>3, <1>4, <1>5 DEF PartsNext, parts, notepad

PartsInv ==
  /\ part \in {"notepad", "picker", "history", "mesh", "cache", "gnss"}
  /\ IInv /\ PickerInv /\ HistoryInv /\ CacheInv /\ GnssInv /\ MeshInv

(* The invariants of the parts hold together. *)
LEMMA InitPartsInv == ASSUME PartsInit PROVE PartsInv
  BY InitIInv, InitPickerInv, InitHistoryInv, InitCacheInv, InitGnssInv, InitMeshInv, PartsAssumption
  DEF PartsInit, PartsInv

(* Every step keeps them. *)
LEMMA NextPartsInv == ASSUME PartsInv, [PartsNext]_parts PROVE PartsInv'
  BY OneOfTheParts, NextIInv, NextPickerInv, NextHistoryInv, NextCacheInv, NextGnssInv, NextMeshInv,
     PartsAssumption
  DEF PartsInv

(* The invariants of the parts, of whichever is followed. *)
THEOREM PartsInvariance == PartsSpec => []PartsInv
  <1>1. PartsInit => PartsInv
    BY InitPartsInv
  <1>2. PartsInv /\ [PartsNext]_parts => PartsInv'
    BY NextPartsInv
  <1> QED BY <1>1, <1>2, PTL DEF PartsSpec

(* Every variable of every part has its type. *)
THEOREM PartsTyping == PartsSpec => []PartsTypeOK
  <1>1. PartsInv => PartsTypeOK
    <2>1. PartsInv => /\ TypeOK /\ Picker!TypeOK /\ History!TypeOK /\ Mesh!TypeOK /\ Cache!TypeOK
                      /\ Gnss!TypeOK
      BY DEF PartsInv, IInv, PickerInv, HistoryInv, MeshInv, CacheInv, GnssInv
    <2> QED BY <2>1 DEF PartsInv, PartsTypeOK
  <1> QED BY <1>1, PartsInvariance, PTL

(* Text that was typed or found, and neither deleted nor lost in a way the *)
(* code leaves open, is in the buffer or in a file (saveToFile,            *)
(* loadFromFile).                                                          *)
THEOREM PartsTextKept == PartsSpec => []NoTextLost
  <1>1. PartsInv => NoTextLost
    BY DEF PartsInv, IInv
  <1> QED BY <1>1, PartsInvariance, PTL

(* A buffer that is not called modified is what its file holds. *)
THEOREM PartsUnmodifiedStored == PartsSpec => []UnmodifiedIsStored
  <1>1. PartsInv => UnmodifiedIsStored
    BY DEF PartsInv, IInv, WrittenAgrees, Agrees, UnmodifiedIsStored
  <1> QED BY <1>1, PartsInvariance, PTL

(* Enter acts on the entry of the marked row, through directories left out of the *)
(* rows, scrolling, and a scan's picker that takes over, unless a task wrote over  *)
(* a list or the rows since the picker was drawn.                                  *)
THEOREM PartsPicker == PartsSpec => []OpensWhatIsShown
  <1>1. PartsInv => OpensWhatIsShown
    BY PickerKept DEF PartsInv, OpensWhatIsShown
  <1> QED BY <1>1, PartsInvariance, PTL

(* The ring of the command history holds the most recent lines that were   *)
(* kept, in their order (cmdHistoryPush), for a ring of any size.          *)
THEOREM PartsHistory == PartsSpec => []HistoryIsRecent
  <1>1. PartsInv => HistoryIsRecent
    BY HistoryKept DEF PartsInv, HistoryIsRecent
  <1> QED BY <1>1, PartsInvariance, PTL

(* The memory of packets knows every recent packet but those that newer    *)
(* ones pushed out (mshIsDuplicatePacket), for a memory of any size.       *)
THEOREM PartsCache == PartsSpec => []CacheIsRecent
  <1>1. PartsInv => CacheIsRecent
    BY DEF PartsInv, CacheInv, CacheIsRecent
  <1> QED BY <1>1, PartsInvariance, PTL

(* The clock is never ahead, and a second behind at most while whole       *)
(* bursts are heard, but for one at the start of a day; the receiver's     *)
(* speed is found in a probe per candidate (timeSyncMaybeFromGnss,         *)
(* gnssMaybeProbeNextBaud).                                                *)
THEOREM PartsClock == PartsSpec => []ClockFollows
  <1>1. PartsInv => ClockFollows
    BY ClockKept, SpeedKept, PartsAssumption DEF PartsInv, ClockFollows
  <1> QED BY <1>1, PartsInvariance, PTL

(* While one task at a time uses the mesh radio, it listens again after what the task *)
(* did unless a command to the chip failed or a send timed out, its power and state   *)
(* agree, and "tx_ok" is shown only of a frame that went out whole.                   *)
THEOREM PartsMesh == PartsSpec => []MeshHonest
  <1>1. PartsInv => MeshHonest
    BY MeshKept DEF PartsInv, MeshHonest
  <1> QED BY <1>1, PartsInvariance, PTL
=============================================================================
