---------------------------- MODULE UploadProofs ----------------------------
(***************************************************************************)
(* The host never has a part of a file, whenever an upload is cut, and     *)
(* "Upload done" is shown only when it mirrors the card: for any number of *)
(* files and blocks, any window of the channel and all the faults at once. *)
(* Both leave out a file that is read shorter than its size, and the       *)
(* mirror a listing that fails: what is said of the stream is said of an   *)
(* upload that is not astray.                                              *)
(***************************************************************************)
EXTENDS Transfers, FiniteSetTheorems, SequenceTheorems, TLAPS

(* What the script has of the stream after a message: nothing open, a file *)
(* with some of its blocks, of one version unless it was saved meanwhile,  *)
(* or all of it.                                                           *)
Phases == [at : {"header", "body", "done"}, file : Files, got : 0 .. Blocks, version : Version]

Takes(p, message, q) ==
  \/ /\ message.type = "FILE" /\ message.file \in Safe
     /\ p.at = "header" /\ q.at = "body" /\ q.file = message.file /\ q.got = 0
  \/ /\ message.type = "data"
     /\ p.at = "body" /\ p.got < Blocks /\ q = [p EXCEPT !.got = p.got + 1]
     /\ message.version = p.version \/ p.file \in mixed
  \/ /\ message.type = "sep"
     /\ p.at = "body" /\ p.got = Blocks /\ q.at = "header"
  \/ message.type = "DONE" /\ p.at = "header" /\ q.at = "done"

(* A version no older than the listing.                                    *)
NotOlder(f, v) == listed[f] # Absent => v >= listed[f]

ScriptAt(p) ==
  /\ script = "header" => p.at = "header"
  /\ script \in {"body", "sep"} =>
       /\ p.at = "body" /\ p.file = cur /\ p.got = Len(tmp)
       /\ cur \in mixed \/ \A b \in 1 .. Len(tmp) : tmp[b] = p.version

DeviceAt(p) ==
  /\ pc = "file" => p.at = "header"
  /\ pc = "body" => /\ p.at = "body" /\ p.file = File /\ p.got = sent
                    /\ p.version = sd[File] \/ File \in mixed
  /\ pc = "reply" => p.at = "done"

(* The messages in flight take the script to where the device is, as long  *)
(* as no file was shorter than its size.                                   *)
Reading == ~astray /\ script \in {"header", "body", "sep"}
Live == ~astray /\ link /\ pc # "idle"
Chain(ph) ==
  /\ ScriptAt(ph[0])
  /\ \A k \in 1 .. Len(wire) : Takes(ph[k - 1], wire[k], ph[k])
  /\ \A k \in 0 .. Len(wire) : ph[k].at = "body" => NotOlder(ph[k].file, ph[k].version)
  /\ Live => DeviceAt(ph[Len(wire)])
Stream == Reading => \E ph \in [0 .. Len(wire) -> Phases] : Chain(ph)

(* The device sends only while the script reads and no end was sent.       *)
Sending ==
  /\ Live /\ pc \in {"file", "body"} => ~eof /\ script \in {"header", "body", "sep", "failed"}
  /\ Live /\ script \in {"prune", "ok"} => pc = "reply" /\ wire = << >>

(* The walk: it is at an entry of the list, and of the list at the end;    *)
(* what is listed is on the list, and the card is not older than it.       *)
Walk ==
  /\ pc = "body" => i <= Len(file_list) /\ File \in Safe
  /\ pc = "file" => i <= Len(file_list) + 1
  /\ pc = "reply" => i = Len(file_list) + 1
  /\ \A f \in Files : sd[f] # Absent => NotOlder(f, sd[f])
  /\ pc = "body" => sd[File] # Absent
Listed ==
  pc # "idle" /\ ~blind => {file_list[k] : k \in 1 .. Len(file_list)} = {f \in Files : listed[f] # Absent}

(* The names the script was told, or will be, are those the walk passed.   *)
Announced == {wire[k].file : k \in {n \in 1 .. Len(wire) : wire[n].type = "FILE"}}
Walked == {file_list[k] : k \in 1 .. (IF pc = "body" THEN i ELSE i - 1)} \cap Safe
Manifest == Live /\ script # "failed" => manifest \cup Announced = Walked

(* Every name it was told is there, but for the one it is reading.         *)
Good(f) ==
  /\ host[f] # Absent
  /\ f \notin mixed => \E v \in Version : host[f] = Whole(v) /\ NotOlder(f, v)
Delivered ==
  ~astray /\ script \in {"header", "body", "sep", "prune", "ok"} =>
    \A f \in manifest \ (IF script \in {"body", "sep"} THEN {cur} ELSE {}) : Good(f)

(* What holds when the device reads OK, and ever since.                    *)
Mirrored ==
  \A f \in Files :
    IF listed[f] = Absent \/ f \notin Safe THEN host[f] = Absent ELSE Good(f)
Heard ==
  /\ script = "ok" /\ pc = "reply" /\ ~blind /\ ~astray => Mirrored
  /\ result = "done" => pc = "idle" /\ script = "ok" /\ (~blind /\ ~astray => Mirrored)

(* What never depends on how many files the card has, and what does: the   *)
(* files beyond MAX_FILE_LIST are not on the list.                         *)
AllMixed == astray => mixed = Files
IInv == TypeOK /\ NoTornFile /\ Stream /\ Sending /\ Walk /\ Delivered /\ AllMixed
Fits == Cardinality(Files) <= MAX_FILE_LIST
MInv == IInv /\ Listed /\ Manifest /\ Heard

-----------------------------------------------------------------------------
(* Steps that leave the stream as it is. *)
LEMMA StreamKept ==
  ASSUME Stream, UNCHANGED <<wire, listed, script, cur, tmp, astray>>, mixed \subseteq mixed',
         \A p \in Phases : Live' => Live /\ (DeviceAt(p) => DeviceAt(p)'),
         TypeOK
  PROVE  Stream'
  <1> SUFFICES ASSUME Reading PROVE \E ph \in [0 .. Len(wire) -> Phases] : Chain(ph)'
    BY DEF Stream, Reading
  <1>1. PICK ph \in [0 .. Len(wire) -> Phases] : Chain(ph)
    BY DEF Stream
  <1>2. Len(wire) \in Nat
    BY DEF TypeOK
  <1>3. Chain(ph)'
    <2>1. ScriptAt(ph[0])'
      BY <1>1 DEF Chain, ScriptAt
    <2>2. \A k \in 1 .. Len(wire) : Takes(ph[k - 1], wire[k], ph[k])'
      BY <1>1 DEF Chain, Takes
    <2>3. \A k \in 0 .. Len(wire) : ph[k].at = "body" => NotOlder(ph[k].file, ph[k].version)'
      BY <1>1 DEF Chain, NotOlder
    <2>4. Live' => DeviceAt(ph[Len(wire)])'
      BY <1>1, <1>2 DEF Chain
    <2> QED BY <2>1, <2>2, <2>3, <2>4 DEF Chain
  <1> QED BY <1>3

(* A message is sent: the phase after it is the last one. *)
LEMMA StreamSent ==
  ASSUME TypeOK, Stream, Live, NEW message \in Messages, wire' = Append(wire, message),
         UNCHANGED <<listed, script, cur, tmp, mixed, astray>>,
         \A p \in Phases : DeviceAt(p) =>
           \E q \in Phases : /\ Takes(p, message, q) /\ DeviceAt(q)'
                             /\ (p.at = "body" => NotOlder(p.file, p.version))
                                  => (q.at = "body" => NotOlder(q.file, q.version))
  PROVE  Stream'
  <1> SUFFICES ASSUME Reading
               PROVE  \E ph \in [0 .. Len(wire') -> Phases] : Chain(ph)'
    BY DEF Stream, Reading
  <1>1. PICK old \in [0 .. Len(wire) -> Phases] : Chain(old)
    BY DEF Stream
  <1>2. Len(wire) \in Nat /\ Len(wire') = Len(wire) + 1 /\ wire'[Len(wire) + 1] = message
        /\ \A k \in 1 .. Len(wire) : wire'[k] = wire[k]
    BY DEF TypeOK
  <1>3. DeviceAt(old[Len(wire)]) /\ old[Len(wire)] \in Phases
    BY <1>1, <1>2 DEF Chain
  <1>4. PICK q \in Phases :
          /\ Takes(old[Len(wire)], message, q) /\ DeviceAt(q)'
          /\ q.at = "body" => NotOlder(q.file, q.version)
    BY <1>1, <1>2, <1>3 DEF Chain
  <1>5. PICK ph \in [0 .. Len(wire') -> Phases] :
          ph[Len(wire')] = q /\ \A k \in 0 .. Len(wire) : ph[k] = old[k]
    <2> DEFINE new == [k \in 0 .. Len(wire') |-> IF k = Len(wire') THEN q ELSE old[k]]
    <2>1. /\ new \in [0 .. Len(wire') -> Phases]
          /\ new[Len(wire')] = q /\ \A k \in 0 .. Len(wire) : new[k] = old[k]
      BY <1>2
    <2> QED BY <2>1
  <1>6. ScriptAt(ph[0])'
    BY <1>1, <1>2, <1>5 DEF Chain, ScriptAt
  <1>7. \A k \in 1 .. Len(wire') : Takes(ph[k - 1], wire[k], ph[k])'
    <2> SUFFICES ASSUME NEW k \in 1 .. Len(wire') PROVE Takes(ph[k - 1], wire[k], ph[k])'
      OBVIOUS
    <2>1. CASE k = Len(wire')
      <3>1. k - 1 = Len(wire) /\ wire'[k] = message /\ ph[k] = q /\ ph[k - 1] = old[Len(wire)]
        BY <1>2, <1>5, <2>1
      <3> QED BY <1>4, <3>1 DEF Takes
    <2>2. CASE k # Len(wire')
      <3>1. k \in 1 .. Len(wire) /\ wire'[k] = wire[k] /\ ph[k] = old[k] /\ ph[k - 1] = old[k - 1]
        BY <1>2, <1>5, <2>2
      <3> QED BY <1>1, <3>1 DEF Takes, Chain
    <2> QED BY <2>1, <2>2
  <1>8. \A k \in 0 .. Len(wire') : ph[k].at = "body" => NotOlder(ph[k].file, ph[k].version)'
    BY <1>1, <1>2, <1>4, <1>5 DEF Chain, NotOlder
  <1> QED BY <1>4, <1>5, <1>6, <1>7, <1>8 DEF Chain

(* A message is read: the phase after it is the first one. *)
LEMMA StreamRead ==
  ASSUME TypeOK, Stream, Reading, wire # << >>, wire' = Tail(wire),
         UNCHANGED <<pc, link, file_list, i, sent, sd, listed, mixed, astray>>,
         \A p, q \in Phases : ScriptAt(p) /\ Takes(p, Head(wire), q) => ScriptAt(q)'
  PROVE  Stream'
  <1> SUFFICES \E ph \in [0 .. Len(wire') -> Phases] : Chain(ph)'
    BY DEF Stream
  <1>1. PICK old \in [0 .. Len(wire) -> Phases] : Chain(old)
    BY DEF Stream
  <1>2. /\ Len(wire) \in Nat \ {0} /\ Len(wire') = Len(wire) - 1 /\ Head(wire) = wire[1]
        /\ \A k \in 1 .. Len(wire') : wire'[k] = wire[k + 1]
    BY DEF TypeOK
  <1>3. PICK ph \in [0 .. Len(wire') -> Phases] : \A k \in 0 .. Len(wire') : ph[k] = old[k + 1]
    <2> DEFINE new == [k \in 0 .. Len(wire') |-> old[k + 1]]
    <2>1. new \in [0 .. Len(wire') -> Phases] /\ \A k \in 0 .. Len(wire') : new[k] = old[k + 1]
      BY <1>2
    <2> QED BY <2>1
  <1>4. ScriptAt(ph[0])'
    <2>1. /\ old[0] \in Phases /\ old[1] \in Phases /\ ph[0] = old[1]
          /\ ScriptAt(old[0]) /\ Takes(old[0], Head(wire), old[1])
      BY <1>1, <1>2, <1>3 DEF Chain
    <2> QED BY <2>1
  <1>5. \A k \in 1 .. Len(wire') : Takes(ph[k - 1], wire[k], ph[k])'
    <2> SUFFICES ASSUME NEW k \in 1 .. Len(wire') PROVE Takes(ph[k - 1], wire[k], ph[k])'
      OBVIOUS
    <2>1. /\ k + 1 \in 1 .. Len(wire) /\ (k + 1) - 1 = k
          /\ ph[k - 1] = old[k] /\ ph[k] = old[k + 1] /\ wire'[k] = wire[k + 1]
      BY <1>2, <1>3
    <2> QED BY <1>1, <2>1, ZenonT(40) DEF Takes, Chain
  <1>6. \A k \in 0 .. Len(wire') : ph[k].at = "body" => NotOlder(ph[k].file, ph[k].version)'
    BY <1>1, <1>2, <1>3 DEF Chain, NotOlder
  <1>7. Live' => DeviceAt(ph[Len(wire)])'
    <2>1. Len(wire') \in 0 .. Len(wire') /\ ph[Len(wire')] = old[Len(wire)]
      BY <1>2, <1>3
    <2>2. Live' => DeviceAt(old[Len(wire)])
      BY <1>1 DEF Chain, Live
    <2> QED BY <2>1, <2>2, SMTT(20) DEF DeviceAt
  <1> QED BY <1>3, <1>4, <1>5, <1>6, <1>7 DEF Chain

(* The connection is gone: what is left of the stream was sent. *)
LEMMA StreamCut ==
  ASSUME TypeOK, Stream, NEW n \in 0 .. Len(wire), wire' = SubSeq(wire, 1, n), ~link',
         UNCHANGED <<script, cur, tmp, listed, mixed, astray>>
  PROVE  Stream'
  <1> SUFFICES ASSUME Reading PROVE \E ph \in [0 .. Len(wire') -> Phases] : Chain(ph)'
    BY DEF Stream, Reading
  <1>1. PICK old \in [0 .. Len(wire) -> Phases] : Chain(old)
    BY DEF Stream
  <1>2. Len(wire) \in Nat /\ Len(wire') = n /\ \A k \in 1 .. n : wire'[k] = wire[k]
    BY DEF TypeOK
  <1>3. PICK ph \in [0 .. Len(wire') -> Phases] : \A k \in 0 .. n : ph[k] = old[k]
    <2> DEFINE new == [k \in 0 .. n |-> old[k]]
    <2>1. new \in [0 .. Len(wire') -> Phases] /\ \A k \in 0 .. n : new[k] = old[k]
      BY <1>2
    <2> QED BY <2>1
  <1>4. ScriptAt(ph[0])'
    BY <1>1, <1>2, <1>3 DEF Chain, ScriptAt
  <1>5. \A k \in 1 .. Len(wire') : Takes(ph[k - 1], wire[k], ph[k])'
    <2> SUFFICES ASSUME NEW k \in 1 .. n PROVE Takes(ph[k - 1], wire[k], ph[k])'
      BY <1>2
    <2>1. k \in 1 .. Len(wire) /\ ph[k - 1] = old[k - 1] /\ ph[k] = old[k] /\ wire'[k] = wire[k]
      BY <1>2, <1>3
    <2> QED BY <1>1, <2>1 DEF Takes, Chain
  <1>6. \A k \in 0 .. Len(wire') : ph[k].at = "body" => NotOlder(ph[k].file, ph[k].version)'
    <2> SUFFICES ASSUME NEW k \in 0 .. n, old[k].at = "body"
                 PROVE  NotOlder(old[k].file, old[k].version)
      BY <1>2, <1>3 DEF NotOlder
    <2> QED BY <1>1, <1>2 DEF Chain
  <1> QED BY <1>2, <1>3, <1>4, <1>5, <1>6 DEF Chain, Live

-----------------------------------------------------------------------------
(* The numbers up to n. *)
LEMMA CountUpTo == \A n \in Nat : Cardinality(1 .. n) = n
  <1> SUFFICES ASSUME NEW n \in Nat PROVE Cardinality(1 .. n) = n
    OBVIOUS
  <1>1. Cardinality(1 .. n) = IF 1 > n THEN 0 ELSE n - 1 + 1
    BY FS_Interval
  <1> QED BY <1>1

(* A listing is a list of names of the card. *)
LEMMA EntriesAreNames ==
  ASSUME NEW n \in Nat, NEW s \in Entries(n)
  PROVE  s \in Seq(OnCard) /\ s \in Seq(Files) /\ Len(s) = n /\ IsInjective(s)
  <1>1. s \in [1 .. n -> OnCard] /\ IsInjective(s)
    BY DEF Entries
  <1>2. s \in Seq(OnCard) /\ Len(s) = n
    <2>1. s \in Seq(OnCard)
      BY <1>1, SeqDef
    <2>2. s \in [1 .. Len(s) -> OnCard] /\ Len(s) \in Nat
      BY <2>1, LenProperties
    <2>3. 1 .. Len(s) = 1 .. n
      BY <1>1, <2>2
    <2> QED BY <1>1, <2>1, <2>2, <2>3
  <1>3. s \in Seq(Files)
    BY <1>2, SeqMonotonic DEF OnCard
  <1> QED BY <1>1, <1>2, <1>3

(* With room for every file, it lists all those on the card. *)
LEMMA ListingIsCard ==
  ASSUME NEW s \in Listings
  PROVE  /\ s \in Seq(Files) /\ Len(s) <= MAX_FILE_LIST
         /\ Fits => {s[k] : k \in 1 .. Len(s)} = OnCard
  <1> DEFINE count == Cardinality(OnCard)
             room == IF count > MAX_FILE_LIST THEN MAX_FILE_LIST ELSE count
  <1>1. IsFiniteSet(OnCard) /\ count \in Nat /\ Cardinality(OnCard) <= Cardinality(Files)
        /\ Cardinality(Files) \in Nat
    BY UploadAssumption, FS_Subset, FS_CardinalityType DEF OnCard
  <1>2. room \in Nat /\ room <= MAX_FILE_LIST /\ room = Room
    BY <1>1, UploadAssumption DEF Room
  <1>3. s \in Entries(room)
    BY <1>2 DEF Listings
  <1>4. s \in Seq(Files) /\ s \in Seq(OnCard) /\ Len(s) = room /\ s \in [1 .. room -> OnCard] /\ IsInjective(s)
    BY <1>2, <1>3, EntriesAreNames DEF Entries
  <1>5. ASSUME Fits PROVE {s[k] : k \in 1 .. Len(s)} = OnCard
    <2>1. room = count
      BY <1>1, <1>5, UploadAssumption DEF Fits
    <2>2. s \in Injection(1 .. room, OnCard)
      BY <1>4 DEF Injection, IsInjective
    <2>3. Cardinality(1 .. count) = count
      BY <1>1, CountUpTo
    <2>4. s \in Surjection(1 .. room, OnCard)
      BY <1>1, <2>1, <2>2, <2>3, FS_Injection
    <2> QED BY <1>4, <2>4 DEF Surjection
  <1> QED BY <1>2, <1>4, <1>5

(* The start of the stream. *)
LEMMA StreamBegun ==
  ASSUME wire' = << >>, script' = "header", pc' = "file"
  PROVE  Stream'
  <1>1. PICK f \in Files : TRUE
    BY UploadAssumption
  <1>2. PICK p \in Phases : p.at = "header"
    <2>1. [at |-> "header", file |-> f, got |-> 0, version |-> 1] \in Phases
      BY UploadAssumption DEF Phases, Version
    <2> QED BY <2>1
  <1>3. Len(wire') = 0
    OBVIOUS
  <1>4. PICK ph \in [0 .. Len(wire') -> Phases] : ph[0] = p
    <2> DEFINE new == [k \in 0 .. Len(wire') |-> p]
    <2>1. new \in [0 .. Len(wire') -> Phases] /\ new[0] = p
      BY <1>3
    <2> QED BY <2>1
  <1>5. Chain(ph)'
    BY <1>2, <1>3, <1>4 DEF Chain, ScriptAt, DeviceAt
  <1> QED BY <1>4, <1>5 DEF Stream

(* Nothing was sent, and the host's files are whole. *)
LEMMA InitIInv == Init => IInv
  <1> SUFFICES ASSUME Init PROVE IInv
    OBVIOUS
  <1>1. 1 \in Version /\ Whole(1) \in Seq(Version)
    <2>1. 1 \in Version
      BY UploadAssumption DEF Version
    <2>2. Whole(1) \in [1 .. Blocks -> Version]
      BY <2>1 DEF Whole
    <2> QED BY <2>1, <2>2, SeqDef, UploadAssumption
  <1>2. << >> \in Seq(Files) /\ << >> \in Seq(Messages) /\ << >> \in Seq(Version \cup {Junk}) /\ Len(<< >>) = 0
    BY EmptySeq
  <1>3. TypeOK
    <2>1. cur \in Files
      BY UploadAssumption DEF Init
    <2>2. sd \in [Files -> Version \cup {Absent}] /\ host \in [Files -> Seq(Version \cup {Junk}) \cup {Absent}]
      BY <1>1, SeqMonotonic DEF Init
    <2>3. /\ i \in 1 .. MAX_FILE_LIST + 1 /\ sent \in 0 .. Blocks
          /\ uploads \in 0 .. MaxUploads /\ Len(wire) <= WireCap /\ Len(file_list) <= MAX_FILE_LIST
      BY <1>2, UploadAssumption DEF Init
    <2>4. listed = sd /\ blind \in BOOLEAN /\ astray \in BOOLEAN /\ mixed \subseteq Files /\ manifest \subseteq Safe
      BY DEF Init
    <2> QED BY <1>2, <2>1, <2>2, <2>3, <2>4 DEF Init, TypeOK
  <1>4. NoTornFile
    BY <1>1 DEF Init, NoTornFile, OneVersion
  <1>5. Stream /\ Delivered /\ Sending
    BY DEF Init, Stream, Reading, Delivered, Sending, Live
  <1>7. AllMixed
    BY DEF Init, AllMixed
  <1>6. Walk
    <2> SUFFICES ASSUME NEW f \in Files, sd[f] # Absent PROVE sd[f] >= sd[f]
      BY DEF Init, Walk, NotOlder
    <2> QED BY <1>3, UploadAssumption DEF TypeOK, Version
  <1> QED BY <1>3, <1>4, <1>5, <1>6, <1>7 DEF IInv

(* The place in the list and its length are numbers. *)
LEMMA ListLength == TypeOK => Len(file_list) \in Nat /\ i \in Nat \ {0}
  BY UploadAssumption DEF TypeOK

(* The listing is taken and the connection opened: nothing is in flight. *)
LEMMA BeginIInv == ASSUME IInv, Begin PROVE IInv'
  <1> USE DEF IInv
  <1>1. /\ file_list' \in Seq(Files) /\ Len(file_list') <= MAX_FILE_LIST
        /\ listed' = sd /\ blind' \in BOOLEAN
    <2>1. CASE file_list' \in Listings /\ blind' = FALSE
      BY <2>1, ListingIsCard DEF Begin
    <2>2. ASSUME NEW n \in 0 .. MAX_FILE_LIST, file_list' \in Entries(n), blind' = TRUE
          PROVE  file_list' \in Seq(Files) /\ Len(file_list') <= MAX_FILE_LIST
      BY <2>2, EntriesAreNames, UploadAssumption
    <2>3. listed' = sd /\ blind' \in BOOLEAN
      BY DEF Begin
    <2> QED BY <2>1, <2>2, <2>3 DEF Begin
  <1>2. /\ pc' = "file" /\ i' = 1 /\ sent' = 0 /\ result' = "none" /\ uploads' \in 0 .. MaxUploads
        /\ link' = TRUE /\ wire' = << >> /\ eof' = FALSE
        /\ script' = "header" /\ tmp' = << >> /\ manifest' = {}
        /\ astray' = FALSE /\ UNCHANGED <<sd, mixed, host, cur>>
    BY UploadAssumption DEF Begin, TypeOK
  <1>3. TypeOK'
    <2>1. /\ i' \in 1 .. MAX_FILE_LIST + 1 /\ sent' \in 0 .. Blocks /\ Len(wire') <= WireCap
          /\ wire' \in Seq(Messages) /\ tmp' \in Seq(Version \cup {Junk})
      BY <1>2, EmptySeq, UploadAssumption
    <2> QED BY <1>1, <1>2, <2>1 DEF TypeOK
  <1>4. Stream'
    BY <1>2, StreamBegun
  <1>5. NoTornFile' /\ Delivered' /\ Sending' /\ AllMixed'
    BY <1>2 DEF NoTornFile, OneVersion, Delivered, Sending, AllMixed
  <1>6. Walk'
    BY <1>1, <1>2, UploadAssumption DEF Walk, NotOlder, TypeOK, Version
  <1> QED BY <1>3, <1>4, <1>5, <1>6

(* The steps of the device that send nothing. *)
LEMMA QuietDeviceIInv ==
  ASSUME IInv, StartFails \/ Skip \/ StreamFails \/ Reply PROVE IInv'
  <1> USE DEF IInv, card, device, remote
  <1>1. /\ UNCHANGED <<card, file_list, sent, link, wire, remote>>
        /\ \/ pc' = "idle" /\ i' = i /\ (eof' = eof \/ eof' = TRUE)
           \/ pc = "file" /\ pc' = pc /\ i <= Len(file_list) /\ i' = i + 1 /\ eof' = eof
        /\ result' \in {"none", "done", "failed"} /\ uploads' \in 0 .. MaxUploads
    BY UploadAssumption DEF StartFails, Skip, StreamFails, Reply, TypeOK
  <1>2. TypeOK'
    <2>1. i' \in 1 .. MAX_FILE_LIST + 1
      BY <1>1, UploadAssumption DEF TypeOK
    <2>2. pc' \in {"idle", "file"} /\ eof' \in BOOLEAN
      BY <1>1 DEF TypeOK
    <2> QED BY <1>1, <2>1, <2>2 DEF TypeOK
  <1>3. Stream'
    BY <1>1, StreamKept DEF DeviceAt, Live
  <1>4. NoTornFile' /\ AllMixed' /\ Delivered'
    BY <1>1 DEF NoTornFile, AllMixed, OneVersion, Delivered, Good, NotOlder
  <1>5. Sending' /\ Walk'
    BY <1>1, ListLength DEF Sending, Live, Walk, NotOlder
  <1> QED BY <1>2, <1>3, <1>4, <1>5

(* Once a file was short nothing is claimed of the stream. *)
LEMMA OutOfStep == ASSUME astray' PROVE Stream' /\ Sending' /\ Delivered'
  BY DEF Stream, Reading, Sending, Live, Delivered

(* A header names the file the walk is at, *)
LEMMA SendHeaderIInv == ASSUME IInv, SendHeader PROVE IInv'
  <1> USE DEF IInv, card, device, remote
  <1>1. /\ pc = "file" /\ i <= Len(file_list) /\ File \in Safe /\ File \in Files
        /\ sd[File] \in Version /\ sd[File] # Absent /\ (astray \/ Live)
        /\ wire' = Append(wire, [type |-> "FILE", file |-> File]) /\ Len(wire) < WireCap
        /\ script \notin {"ok", "failed"}
        /\ pc' = "body" /\ sent' = 0
        /\ UNCHANGED <<card, file_list, i, result, uploads, link, eof, remote>>
    BY UploadAssumption DEF SendHeader, Write, ChannelOpen, TypeOK, Live
  <1>2. [type |-> "FILE", file |-> File] \in Messages
    BY <1>1 DEF Messages
  <1>3. TypeOK'
    BY <1>1, <1>2, UploadAssumption, AppendProperties DEF TypeOK
  <1>4. Stream'
    <2>1. PICK q \in Phases :
            q.at = "body" /\ q.file = File /\ q.got = 0 /\ q.version = sd[File]
      <3>1. [at |-> "body", file |-> File, got |-> 0, version |-> sd[File]] \in Phases
        BY <1>1, UploadAssumption DEF Phases
      <3> QED BY <3>1
    <2>2. NotOlder(q.file, q.version)
      BY <1>1, <2>1, UploadAssumption DEF Walk, Version
    <2>3. \A p \in Phases : DeviceAt(p) => Takes(p, [type |-> "FILE", file |-> File], q) /\ DeviceAt(q)'
      BY <1>1, <2>1 DEF DeviceAt, Takes, File
    <2>4. ASSUME NEW p \in Phases, DeviceAt(p)
          PROVE  \E r \in Phases : /\ Takes(p, [type |-> "FILE", file |-> File], r) /\ DeviceAt(r)'
                                  /\ NotOlder(r.file, r.version)
      BY <2>2, <2>3, <2>4
    <2> HIDE DEF IInv
    <2>5. CASE astray
      BY <1>1, <2>5, OutOfStep
    <2>6. CASE Live
      BY <1>1, <1>2, <2>4, <2>6, StreamSent DEF IInv
    <2> QED BY <1>1, <2>5, <2>6
  <1>5. NoTornFile' /\ AllMixed' /\ Delivered'
    BY <1>1 DEF NoTornFile, AllMixed, OneVersion, Delivered, Good, NotOlder
  <1>6. Sending' /\ Walk'
    BY <1>1 DEF Sending, Live, Walk, NotOlder, File
  <1> QED BY <1>3, <1>4, <1>5, <1>6

(* its blocks are those of the card, *)
LEMMA SendBlockIInv == ASSUME IInv, SendBlock PROVE IInv'
  <1> USE DEF IInv, card, device, remote
  <1>1. /\ pc = "body" /\ File \in Files /\ sd[File] \in Version /\ (astray \/ Live)
        /\ sent < Blocks /\ sent' = sent + 1
        /\ wire' = Append(wire, [type |-> "data", version |-> sd[File]]) /\ Len(wire) < WireCap
        /\ script \notin {"ok", "failed"}
        /\ UNCHANGED <<card, file_list, pc, i, result, uploads, link, eof, remote>>
    BY UploadAssumption DEF SendBlock, Write, ChannelOpen, TypeOK, Live, Walk
  <1>2. [type |-> "data", version |-> sd[File]] \in Messages
    BY <1>1 DEF Messages
  <1>3. TypeOK'
    BY <1>1, <1>2, UploadAssumption, AppendProperties DEF TypeOK
  <1>4. Stream'
    <2>1. ASSUME NEW p \in Phases, DeviceAt(p)
          PROVE  \E q \in Phases :
                   /\ Takes(p, [type |-> "data", version |-> sd[File]], q) /\ DeviceAt(q)'
                   /\ q.file = p.file /\ q.version = p.version /\ p.at = "body"
      <3> DEFINE q == [p EXCEPT !.got = p.got + 1]
      <3>1. /\ p.at = "body" /\ p.file = File /\ p.got = sent
            /\ p.version = sd[File] \/ File \in mixed
        BY <1>1, <2>1 DEF DeviceAt
      <3>2. /\ q \in Phases /\ q.at = "body" /\ q.file = p.file /\ q.version = p.version
            /\ q.got = sent + 1
        <4>1. sent + 1 \in 0 .. Blocks
          BY <1>1, UploadAssumption DEF TypeOK
        <4> QED BY <3>1, <4>1 DEF Phases
      <3>3. Takes(p, [type |-> "data", version |-> sd[File]], q)
        BY <1>1, <3>1 DEF Takes
      <3>4. DeviceAt(q)'
        BY <1>1, <3>1, <3>2 DEF DeviceAt, File
      <3> QED BY <3>1, <3>2, <3>3, <3>4
    <2> HIDE DEF IInv
    <2>5. CASE astray
      BY <1>1, <2>5, OutOfStep
    <2>6. CASE Live
      BY <1>1, <1>2, <2>1, <2>6, StreamSent DEF IInv
    <2> QED BY <1>1, <2>5, <2>6
  <1>5. NoTornFile' /\ AllMixed' /\ Delivered' /\ Sending' /\ Walk'
    BY <1>1 DEF NoTornFile, AllMixed, OneVersion, Delivered, Good, Sending, Live, Walk, NotOlder, File
  <1> QED BY <1>3, <1>4, <1>5

(* the separator comes after all of them, *)
LEMMA SendSeparatorIInv == ASSUME IInv, SendSeparator PROVE IInv'
  <1> USE DEF IInv, card, device, remote
  <1>1. /\ pc = "body" /\ i <= Len(file_list) /\ (astray \/ Live) /\ sent = Blocks
        /\ wire' = Append(wire, [type |-> "sep"]) /\ Len(wire) < WireCap
        /\ script \notin {"ok", "failed"}
        /\ pc' = "file" /\ i' = i + 1
        /\ UNCHANGED <<card, file_list, sent, result, uploads, link, eof, remote>>
    BY DEF SendSeparator, Write, ChannelOpen, Live, Walk
  <1>2. [type |-> "sep"] \in Messages
    BY DEF Messages
  <1>3. TypeOK'
    <2>1. i' \in 1 .. MAX_FILE_LIST + 1
      BY <1>1, UploadAssumption DEF TypeOK
    <2>2. wire' \in Seq(Messages) /\ Len(wire') <= WireCap
      BY <1>1, <1>2, UploadAssumption, AppendProperties DEF TypeOK
    <2> QED BY <1>1, <2>1, <2>2 DEF TypeOK
  <1>4. Stream'
    <2>1. ASSUME NEW p \in Phases, DeviceAt(p)
          PROVE  \E q \in Phases : Takes(p, [type |-> "sep"], q) /\ DeviceAt(q)' /\ q.at = "header"
      <3>1. [p EXCEPT !.at = "header"] \in Phases /\ [p EXCEPT !.at = "header"].at = "header"
        BY DEF Phases
      <3>2. PICK q \in Phases : q.at = "header"
        BY <3>1
      <3>3. Takes(p, [type |-> "sep"], q) /\ DeviceAt(q)'
        BY <1>1, <2>1, <3>2 DEF DeviceAt, Takes
      <3> QED BY <3>2, <3>3
    <2> HIDE DEF IInv
    <2>5. CASE astray
      BY <1>1, <2>5, OutOfStep
    <2>6. CASE Live
      BY <1>1, <1>2, <2>1, <2>6, StreamSent DEF IInv
    <2> QED BY <1>1, <2>5, <2>6
  <1>5. NoTornFile' /\ AllMixed' /\ Delivered'
    BY <1>1 DEF NoTornFile, AllMixed, OneVersion, Delivered, Good, NotOlder
  <1>6. Sending' /\ Walk'
    BY <1>1, ListLength DEF Sending, Live, Walk, NotOlder, File
  <1> QED BY <1>3, <1>4, <1>5, <1>6

(* or too early, *)
LEMMA SendShortIInv == ASSUME IInv, SendShort PROVE IInv'
  <1> USE DEF IInv, card, device, remote
  <1>1. /\ pc = "body" /\ i <= Len(file_list) /\ wire' = Append(wire, [type |-> "sep"]) /\ Len(wire) < WireCap
        /\ pc' = "file" /\ i' = i + 1 /\ astray' = TRUE /\ mixed' = Files
        /\ UNCHANGED <<sd, listed, blind, file_list, sent, result, uploads, link, eof, remote>>
    BY DEF SendShort, Write, Walk
  <1>2. TypeOK'
    <2>1. i' \in 1 .. MAX_FILE_LIST + 1
      BY <1>1, UploadAssumption DEF TypeOK
    <2>2. wire' \in Seq(Messages) /\ Len(wire') <= WireCap
      <3>1. [type |-> "sep"] \in Messages
        BY DEF Messages
      <3> QED BY <1>1, <3>1, UploadAssumption, AppendProperties DEF TypeOK
    <2> QED BY <1>1, <2>1, <2>2 DEF TypeOK
  <1>3. NoTornFile' /\ AllMixed'
    BY <1>1 DEF NoTornFile, AllMixed
  <1>4. Walk'
    BY <1>1, ListLength DEF Walk, NotOlder, File
  <1> QED BY <1>1, <1>2, <1>3, <1>4, OutOfStep

(* and DONE after the last file. *)
LEMMA SendDoneIInv == ASSUME IInv, SendDone PROVE IInv'
  <1> USE DEF IInv, card, device, remote
  <1>1. /\ pc = "file" /\ i > Len(file_list) /\ (astray \/ Live)
        /\ wire' = Append(wire, [type |-> "DONE"]) /\ Len(wire) < WireCap
        /\ script \notin {"ok", "failed"}
        /\ eof' = TRUE /\ pc' = "reply"
        /\ UNCHANGED <<card, file_list, i, sent, result, uploads, link, remote>>
    BY DEF SendDone, Write, ChannelOpen, Live, Walk
  <1>2. [type |-> "DONE"] \in Messages
    BY DEF Messages
  <1>3. TypeOK'
    <2>1. wire' \in Seq(Messages) /\ Len(wire') <= WireCap
      BY <1>1, <1>2, UploadAssumption, AppendProperties DEF TypeOK
    <2> QED BY <1>1, <2>1 DEF TypeOK
  <1>4. Stream'
    <2>1. ASSUME NEW p \in Phases, DeviceAt(p)
          PROVE  \E q \in Phases : Takes(p, [type |-> "DONE"], q) /\ DeviceAt(q)' /\ q.at = "done"
      <3>1. [p EXCEPT !.at = "done"] \in Phases /\ [p EXCEPT !.at = "done"].at = "done"
        BY DEF Phases
      <3>2. PICK q \in Phases : q.at = "done"
        BY <3>1
      <3>3. Takes(p, [type |-> "DONE"], q) /\ DeviceAt(q)'
        BY <1>1, <2>1, <3>2 DEF DeviceAt, Takes
      <3> QED BY <3>2, <3>3
    <2> HIDE DEF IInv
    <2>5. CASE astray
      BY <1>1, <2>5, OutOfStep
    <2>6. CASE Live
      BY <1>1, <1>2, <2>1, <2>6, StreamSent DEF IInv
    <2> QED BY <1>1, <2>5, <2>6
  <1>5. NoTornFile' /\ AllMixed' /\ Delivered'
    BY <1>1 DEF NoTornFile, AllMixed, OneVersion, Delivered, Good, NotOlder
  <1>6. Sending' /\ Walk'
    BY <1>1, ListLength DEF Sending, Live, Walk, NotOlder, File
  <1> QED BY <1>3, <1>4, <1>5, <1>6

(* What the script reads first, as the chain has it. *)
LEMMA FirstRead ==
  ASSUME TypeOK, Stream, Reading, wire # << >>
  PROVE  \E p, q \in Phases :
           /\ ScriptAt(p) /\ Takes(p, Head(wire), q)
           /\ p.at = "body" => NotOlder(p.file, p.version)
  <1>1. PICK ph \in [0 .. Len(wire) -> Phases] : Chain(ph)
    BY DEF Stream
  <1>2. Len(wire) \in Nat \ {0} /\ Head(wire) = wire[1]
    BY DEF TypeOK
  <1>3. ph[0] \in Phases /\ ph[1] \in Phases
    BY <1>2
  <1>4. /\ ScriptAt(ph[0]) /\ Takes(ph[0], Head(wire), ph[1])
        /\ ph[0].at = "body" => NotOlder(ph[0].file, ph[0].version)
    BY <1>1, <1>2 DEF Chain
  <1> QED BY <1>3, <1>4

(* The end of the input, or DONE, is the end of the chain. *)
LEMMA LastRead ==
  ASSUME TypeOK, Stream, Reading, Live,
         \/ wire = << >>
         \/ wire # << >> /\ Head(wire).type = "DONE"
  PROVE  \E p \in Phases :
           /\ DeviceAt(p)
           /\ IF wire = << >> THEN ScriptAt(p) ELSE p.at = "done" /\ Len(wire) = 1
  <1>1. PICK ph \in [0 .. Len(wire) -> Phases] : Chain(ph)
    BY DEF Stream
  <1>2. Len(wire) \in Nat /\ (wire = << >> => Len(wire) = 0)
        /\ (wire # << >> => Len(wire) # 0 /\ Head(wire) = wire[1])
    BY DEF TypeOK
  <1>3. CASE wire = << >>
    BY <1>1, <1>2, <1>3 DEF Chain
  <1>4. CASE wire # << >>
    <2>1. Takes(ph[0], wire[1], ph[1]) /\ wire[1].type = "DONE"
      BY <1>1, <1>2, <1>4 DEF Chain
    <2>2. ph[1].at = "done"
      BY <2>1 DEF Takes
    <2>3. Len(wire) = 1
      <3> SUFFICES ASSUME Len(wire) # 1 PROVE FALSE
        OBVIOUS
      <3>1. Takes(ph[1], wire[2], ph[2])
        <4>1. \A n \in Nat : n # 0 /\ n # 1 => 2 \in 1 .. n
          OBVIOUS
        <4>2. 2 \in 1 .. Len(wire)
          BY ONLY <1>2, <1>4, <4>1, Len(wire) # 1
        <4>3. 2 - 1 = 1
          OBVIOUS
        <4> QED BY <1>1, <4>2, <4>3 DEF Chain
      <3> QED BY <2>2, <3>1 DEF Takes
    <2> QED BY <1>1, <1>3, <2>2, <2>3, <1>4 DEF Chain
  <1> QED BY <1>3, <1>4

(* The script notes the name it is told, *)
LEMMA ReadHeaderIInv == ASSUME IInv, ReadHeader PROVE IInv'
  <1> USE DEF IInv, card, device, remote
  <1>1. /\ script = "header" /\ wire # << >> /\ Head(wire).type = "FILE"
        /\ wire' = Tail(wire) /\ cur' = Head(wire).file
        /\ manifest' = manifest \cup {cur'} /\ tmp' = << >>
        /\ script' \in {"body", "sep"}
        /\ UNCHANGED <<card, device, link, eof, host>>
    BY DEF ReadHeader, Receive
  <1>2. cur' \in Safe /\ cur' \in Files
    <2>1. Head(wire) \in Messages
      BY <1>1, HeadTailProperties DEF TypeOK
    <2> QED BY <1>1, <2>1, UploadAssumption DEF Messages
  <1>3. TypeOK'
    <2>1. wire' \in Seq(Messages) /\ Len(wire') <= WireCap /\ tmp' \in Seq(Version \cup {Junk})
      BY <1>1, EmptySeq, HeadTailProperties, UploadAssumption DEF TypeOK
    <2> QED BY <1>1, <1>2, <2>1 DEF TypeOK
  <1>4. Stream'
    <2>1. \A p, q \in Phases : ScriptAt(p) /\ Takes(p, Head(wire), q) => ScriptAt(q)'
      BY <1>1, EmptySeq DEF ScriptAt, Takes
    <2> HIDE DEF IInv
    <2>5. CASE astray
      BY <1>1, <2>5, OutOfStep
    <2>6. CASE ~astray
      BY <1>1, <2>1, <2>6, StreamRead DEF IInv, Reading
    <2> QED BY <2>5, <2>6
  <1>5. NoTornFile' /\ AllMixed' /\ Delivered'
    BY <1>1 DEF NoTornFile, AllMixed, OneVersion, Delivered, Good, NotOlder
  <1>6. Sending' /\ Walk'
    BY <1>1 DEF Sending, Live, Walk, NotOlder, File
  <1> QED BY <1>3, <1>4, <1>5, <1>6

(* and keeps the block it reads in the temporary file. *)
LEMMA ReadBlockIInv == ASSUME IInv, ReadBlock PROVE IInv'
  <1> USE DEF IInv, card, device, remote
  <1>1. /\ script = "body" /\ wire # << >> /\ Head(wire).type = "data"
        /\ wire' = Tail(wire) /\ tmp' = Append(tmp, Head(wire).version)
        /\ script' \in {"body", "sep"}
        /\ UNCHANGED <<card, device, link, eof, host, cur, manifest>>
    BY DEF ReadBlock, Receive
  <1>2. Head(wire).version \in Version
    <2>1. Head(wire) \in Messages
      BY <1>1, HeadTailProperties DEF TypeOK
    <2> QED BY <1>1, <2>1 DEF Messages
  <1>3. TypeOK'
    <2>1. wire' \in Seq(Messages) /\ Len(wire') <= WireCap /\ tmp' \in Seq(Version \cup {Junk})
      BY <1>1, <1>2, HeadTailProperties, AppendProperties, UploadAssumption DEF TypeOK
    <2> QED BY <1>1, <1>2, <2>1 DEF TypeOK
  <1>4. Stream'
    <2>1. ASSUME NEW p \in Phases, NEW q \in Phases, ScriptAt(p), Takes(p, Head(wire), q)
          PROVE  ScriptAt(q)'
      <3>1. /\ p.at = "body" /\ p.file = cur /\ p.got = Len(tmp)
            /\ cur \in mixed \/ \A b \in 1 .. Len(tmp) : tmp[b] = p.version
            /\ q = [p EXCEPT !.got = p.got + 1]
            /\ Head(wire).version = p.version \/ cur \in mixed
        BY <1>1, <2>1 DEF ScriptAt, Takes
      <3>2. q.at = "body" /\ q.file = cur /\ q.got = Len(tmp) + 1 /\ q.version = p.version
        BY <3>1 DEF Phases
      <3>3. /\ Len(tmp) \in Nat /\ Len(tmp') = Len(tmp) + 1 /\ tmp'[Len(tmp) + 1] = Head(wire).version
            /\ \A b \in 1 .. Len(tmp) : tmp'[b] = tmp[b]
        BY <1>1, <1>2 DEF TypeOK
      <3>4. cur \in mixed \/ \A b \in 1 .. Len(tmp') : tmp'[b] = p.version
        BY <3>1, <3>3
      <3> QED BY <1>1, <3>2, <3>3, <3>4 DEF ScriptAt
    <2> HIDE DEF IInv
    <2>5. CASE astray
      BY <1>1, <2>5, OutOfStep
    <2>6. CASE ~astray
      BY <1>1, <2>1, <2>6, StreamRead DEF IInv, Reading
    <2> QED BY <2>5, <2>6
  <1>5. NoTornFile' /\ AllMixed' /\ Delivered'
    BY <1>1 DEF NoTornFile, AllMixed, OneVersion, Delivered, Good, NotOlder
  <1>6. Sending' /\ Walk'
    BY <1>1 DEF Sending, Live, Walk, NotOlder, File
  <1> QED BY <1>3, <1>4, <1>5, <1>6

(* What is moved to its name is whole. *)
LEMMA MoveIInv == ASSUME IInv, Move PROVE IInv'
  <1> USE DEF IInv, card, device, remote
  <1>1. /\ script = "sep" /\ wire # << >> /\ Head(wire).type = "sep"
        /\ wire' = Tail(wire) /\ host' = [host EXCEPT ![cur] = tmp] /\ script' = "header"
        /\ UNCHANGED <<card, device, link, eof, cur, tmp, manifest>>
    BY DEF Move, Receive
  <1>2. ~astray => \E p \in Phases :
          /\ Len(tmp) = Blocks /\ NotOlder(cur, p.version)
          /\ cur \in mixed \/ \A b \in 1 .. Blocks : tmp[b] = p.version
    BY <1>1, FirstRead DEF ScriptAt, Takes, Reading
  <1>3. cur \notin mixed =>
          ~astray /\ \E v \in Version : tmp = Whole(v) /\ NotOlder(cur, v)
    <2> SUFFICES ASSUME cur \notin mixed PROVE ~astray /\ \E v \in Version : tmp = Whole(v) /\ NotOlder(cur, v)
      OBVIOUS
    <2>1. ~astray
      BY DEF AllMixed, TypeOK
    <2>2. PICK p \in Phases : /\ Len(tmp) = Blocks /\ NotOlder(cur, p.version)
                              /\ \A b \in 1 .. Blocks : tmp[b] = p.version
      BY <1>2, <2>1
    <2>3. tmp \in [1 .. Blocks -> Version \cup {Junk}]
      BY <2>2, LenProperties DEF TypeOK
    <2>4. tmp = Whole(p.version) /\ p.version \in Version
      BY <2>2, <2>3 DEF Whole, Phases
    <2> QED BY <2>1, <2>2, <2>4
  <1>4. tmp # Absent /\ tmp \in Seq(Version \cup {Junk})
    <2>1. tmp \in Seq(Nat)
      <3>1. Version \cup {Junk} \subseteq Nat
        BY UploadAssumption DEF Version, Junk
      <3> QED BY <3>1, SeqMonotonic DEF TypeOK
    <2> QED BY <2>1, UploadAssumption DEF TypeOK
  <1>5. TypeOK'
    <2>1. wire' \in Seq(Messages) /\ Len(wire') <= WireCap
      BY <1>1, HeadTailProperties, UploadAssumption DEF TypeOK
    <2>2. host' \in [Files -> Seq(Version \cup {Junk}) \cup {Absent}]
      BY <1>1, <1>4 DEF TypeOK
    <2> QED BY <1>1, <2>1, <2>2 DEF TypeOK
  <1>6. Stream'
    <2>1. \A p1, q \in Phases : ScriptAt(p1) /\ Takes(p1, Head(wire), q) => ScriptAt(q)'
      BY <1>1 DEF ScriptAt, Takes
    <2> HIDE DEF IInv
    <2>5. CASE astray
      BY <1>1, <2>5, OutOfStep
    <2>6. CASE ~astray
      BY <1>1, <2>1, <2>6, StreamRead DEF IInv, Reading
    <2> QED BY <2>5, <2>6
  <1>7. host'[cur] = tmp /\ \A f \in Files \ {cur} : host'[f] = host[f]
    BY <1>1 DEF TypeOK
  <1>8. NoTornFile' /\ AllMixed'
    BY <1>1, <1>3, <1>4, <1>7 DEF NoTornFile, AllMixed, OneVersion
  <1>9. Delivered'
    <2> SUFFICES ASSUME ~astray, NEW f \in manifest PROVE Good(f)'
      BY <1>1 DEF Delivered
    <2>1. CASE f = cur
      BY <1>1, <1>3, <1>4, <1>7, <2>1 DEF Good, NotOlder
    <2>2. CASE f # cur
      <3>1. Good(f) /\ f \in Files
        BY <1>1, <2>2, UploadAssumption DEF Delivered, TypeOK
      <3> QED BY <1>1, <1>7, <2>2, <3>1 DEF Good, NotOlder
    <2> QED BY <2>1, <2>2
  <1>10. Sending' /\ Walk'
    BY <1>1 DEF Sending, Live, Walk, NotOlder, File
  <1> QED BY <1>5, <1>6, <1>8, <1>9, <1>10

(* The steps of the script that leave the wire and what it has read alone, and end the reading *)
(* or fail it.                                                                                 *)
LEMMA EndHeadersIInv == ASSUME IInv, EndHeaders PROVE IInv'
  <1> USE DEF IInv, card, device, remote
  <1>1. /\ script = "header" /\ script' = "prune"
        /\ \/ wire # << >> /\ Head(wire).type = "DONE" /\ wire' = Tail(wire)
           \/ wire = << >> /\ eof /\ wire' = wire
        /\ UNCHANGED <<card, device, link, eof, host, cur, tmp, manifest>>
    BY DEF EndHeaders, Receive, Ended
  <1>2. TypeOK'
    <2>1. wire # << >> /\ wire' = Tail(wire) => wire' \in Seq(Messages) /\ Len(wire') <= WireCap
      BY HeadTailProperties, UploadAssumption DEF TypeOK
    <2>2. wire' \in Seq(Messages) /\ Len(wire') <= WireCap
      BY <1>1, <2>1 DEF TypeOK
    <2> QED BY <1>1, <2>2 DEF TypeOK
  <1>3. Live => pc = "reply" /\ wire' = << >>
    <2> SUFFICES ASSUME Live PROVE pc = "reply" /\ wire' = << >>
      OBVIOUS
    <2>1. PICK p \in Phases :
            DeviceAt(p) /\ IF wire = << >> THEN ScriptAt(p) ELSE p.at = "done" /\ Len(wire) = 1
      BY <1>1, LastRead DEF Reading, Live
    <2>2. pc \in {"file", "body", "reply"}
      BY ONLY TypeOK, Live DEF Live, TypeOK
    <2>3. CASE wire = << >>
      BY <1>1, <2>1, <2>2, <2>3 DEF DeviceAt, ScriptAt, Sending
    <2>4. CASE wire # << >>
      <3>1. wire' = << >>
        BY <1>1, <2>1, <2>4, EmptySeq DEF TypeOK
      <3> QED BY <2>1, <2>2, <2>4, <3>1 DEF DeviceAt
    <2> QED BY <2>3, <2>4
  <1>4. Stream'
    BY <1>1 DEF Stream, Reading
  <1>5. NoTornFile' /\ AllMixed' /\ Delivered'
    BY <1>1 DEF NoTornFile, AllMixed, OneVersion, Delivered, Good, NotOlder
  <1>6. Sending' /\ Walk'
    BY <1>1, <1>3 DEF Sending, Live, Walk, NotOlder, File
  <1> QED BY <1>2, <1>4, <1>5, <1>6

(* After a short file only the types are claimed. *)
LEMMA AstrayIInv ==
  ASSUME IInv, DataAstray \/ SeparatorAstray \/ HeaderAstray PROVE IInv'
  <1> USE DEF IInv, card, device, remote
  <1>1. /\ astray /\ UNCHANGED <<card, device, link, eof>> /\ wire # << >> /\ wire' \in {wire, Tail(wire)}
        /\ script' \in {"header", "body", "sep", "prune", "failed"}
    BY DEF DataAstray, SeparatorAstray, HeaderAstray
  <1>2. /\ cur' \in Files /\ manifest' \subseteq Safe
        /\ tmp' \in Seq(Version \cup {Junk})
    <2>1. CASE DataAstray
      <3>1. tmp' = <<Junk>> /\ Junk \in Version \cup {Junk}
        BY <2>1 DEF DataAstray
      <3>2. <<Junk>> \in Seq(Version \cup {Junk})
        OBVIOUS
      <3> QED BY <2>1, <3>1, <3>2 DEF DataAstray, TypeOK
    <2>2. CASE SeparatorAstray
      BY <2>2 DEF SeparatorAstray, TypeOK
    <2>3. CASE HeaderAstray
      BY <2>3, EmptySeq, UploadAssumption DEF HeaderAstray, TypeOK
    <2> QED BY <2>1, <2>2, <2>3
  <1>3. host' \in [Files -> Seq(Version \cup {Junk}) \cup {Absent}]
    BY DEF DataAstray, SeparatorAstray, HeaderAstray, TypeOK
  <1>4. TypeOK'
    <2>1. wire' = Tail(wire) => wire' \in Seq(Messages) /\ Len(wire') <= WireCap
      BY <1>1, HeadTailProperties, UploadAssumption DEF TypeOK
    <2>2. wire' \in Seq(Messages) /\ Len(wire') <= WireCap
      BY <1>1, <2>1 DEF TypeOK
    <2> QED BY <1>1, <1>2, <1>3, <2>2 DEF TypeOK
  <1>5. NoTornFile' /\ AllMixed'
    BY <1>1 DEF NoTornFile, AllMixed
  <1>6. Walk'
    BY <1>1 DEF Walk, NotOlder, File
  <1> QED BY <1>1, <1>4, <1>5, <1>6, OutOfStep

(* The script finds the input short, or fails, or is done. *)
LEMMA ScriptEndsIInv ==
  ASSUME IInv, ShortBody \/ NoSeparator \/ PrintOk \/ HostFails PROVE IInv'
  <1> USE DEF IInv, card, device, remote
  <1>1. /\ script' \in {"sep", "failed", "ok"}
        /\ script' = "sep" => script = "body" /\ wire = << >> /\ eof
        /\ script' = "ok" => script = "prune"
        /\ script \in {"header", "body", "sep", "prune"}
        /\ UNCHANGED <<card, device, link, wire, eof, host, cur, tmp, manifest>>
    BY DEF ShortBody, NoSeparator, PrintOk, HostFails, Ended
  <1>2. TypeOK'
    BY <1>1 DEF TypeOK
  <1>3. Stream'
    <2>1. CASE script' = "sep"
      <3> SUFFICES ASSUME ~astray PROVE \E ph \in [0 .. Len(wire) -> Phases] : Chain(ph)'
        BY <1>1 DEF Stream, Reading
      <3>1. PICK ph \in [0 .. Len(wire) -> Phases] : Chain(ph)
        BY <1>1, <2>1 DEF Stream, Reading
      <3>2. Chain(ph)'
        BY <1>1, <2>1, <3>1 DEF Chain, ScriptAt, Takes, NotOlder, DeviceAt, Live, File
      <3> QED BY <3>2
    <2>2. CASE script' # "sep"
      BY <1>1, <2>2 DEF Stream, Reading
    <2> QED BY <2>1, <2>2
  <1>4. NoTornFile' /\ AllMixed' /\ Delivered'
    BY <1>1 DEF NoTornFile, AllMixed, OneVersion, Delivered, Good, NotOlder
  <1>5. Sending' /\ Walk'
    BY <1>1 DEF Sending, Live, Walk, NotOlder, File
  <1> QED BY <1>2, <1>3, <1>4, <1>5

(* Only what the script was not told is pruned. *)
LEMMA PruneIInv == ASSUME IInv, Prune PROVE IInv'
  <1> USE DEF IInv, card, device, remote
  <1>1. PICK f \in Extra : host' = [host EXCEPT ![f] = Absent]
    BY DEF Prune
  <1>2. /\ script = "prune"
        /\ UNCHANGED <<card, device, link, wire, eof, script, cur, tmp, manifest>>
        /\ f \in Files /\ f \notin manifest /\ host'[f] = Absent
        /\ \A g \in Files \ {f} : host'[g] = host[g]
    BY <1>1 DEF Prune, Extra, TypeOK
  <1>3. TypeOK'
    <2>1. host' \in [Files -> Seq(Version \cup {Junk}) \cup {Absent}]
      BY <1>1 DEF TypeOK
    <2> QED BY <1>2, <2>1 DEF TypeOK
  <1>4. Stream'
    BY <1>2 DEF Stream, Reading
  <1>5. NoTornFile' /\ AllMixed'
    BY <1>2 DEF NoTornFile, AllMixed, OneVersion
  <1>6. Delivered'
    BY <1>2, UploadAssumption DEF Delivered, Good, NotOlder, TypeOK
  <1>7. Sending' /\ Walk'
    BY <1>2 DEF Sending, Live, Walk, NotOlder, File
  <1> QED BY <1>3, <1>4, <1>5, <1>6, <1>7

(* The connection breaks, or the device restarts. *)
LEMMA CutIInv == ASSUME IInv, LinkLost \/ Reset PROVE IInv'
  <1> USE DEF IInv, card, device, remote
  <1>1. PICK n \in 0 .. Len(wire) : wire' = SubSeq(wire, 1, n)
    BY DEF LinkLost, Reset
  <1>2. /\ ~link' /\ link' \in BOOLEAN /\ eof' = TRUE /\ pc' \in {pc, "idle"} /\ result' \in {result, "none"}
        /\ UNCHANGED <<card, file_list, i, sent, uploads, remote>>
    BY DEF LinkLost, Reset
  <1>3. TypeOK'
    <2>1. wire' \in Seq(Messages) /\ Len(wire') <= WireCap
      BY <1>1, UploadAssumption, SubSeqProperties DEF TypeOK
    <2> QED BY <1>2, <2>1 DEF TypeOK
  <1>4. Stream'
    <2> HIDE DEF IInv
    <2> QED BY <1>1, <1>2, StreamCut DEF IInv
  <1>5. NoTornFile' /\ AllMixed' /\ Delivered'
    BY <1>2 DEF NoTornFile, AllMixed, OneVersion, Delivered, Good, NotOlder
  <1>6. Sending' /\ Walk'
    BY <1>2 DEF Sending, Live, Walk, NotOlder, File
  <1> QED BY <1>3, <1>4, <1>5, <1>6

(* The card changes, but never the file the task has open, *)
LEMMA SaveIInv == ASSUME IInv, NEW f \in Files, Save(f) PROVE IInv'
  <1> USE DEF IInv, card, device, remote
  <1>1. /\ pc = "body" => f # File
        /\ UNCHANGED <<listed, blind, mixed, astray, device, link, wire, eof, remote>>
        /\ sd' \in [Files -> Version \cup {Absent}]
        /\ \A g \in Files \ {f} : sd'[g] = sd[g]
        /\ sd'[f] = Absent \/ NotOlder(f, sd'[f])
    <2>1. CASE \E v \in Version : Newer(v) /\ sd' = [sd EXCEPT ![f] = v]
      BY <2>1 DEF Save, TypeOK, Newer, NotOlder, Version, UploadAssumption
    <2>2. CASE sd' = [sd EXCEPT ![f] = Absent]
      BY <2>2 DEF Save, TypeOK
    <2> QED BY <2>1, <2>2 DEF Save
  <1>2. TypeOK'
    BY <1>1 DEF TypeOK
  <1>3. pc = "body" => File \in Files /\ File' = File /\ sd'[File] = sd[File]
    BY <1>1 DEF Walk, File, TypeOK
  <1>4. Stream'
    <2>1. \A p \in Phases : DeviceAt(p) => DeviceAt(p)'
      BY <1>1, <1>3 DEF DeviceAt
    <2> HIDE DEF IInv
    <2> QED BY <1>1, <2>1, StreamKept DEF IInv, Live
  <1>5. NoTornFile' /\ AllMixed' /\ Delivered'
    BY <1>1 DEF NoTornFile, AllMixed, OneVersion, Delivered, Good, NotOlder
  <1>6. Sending' /\ Walk'
    BY <1>1, <1>3 DEF Sending, Live, Walk, NotOlder, File
  <1> QED BY <1>2, <1>4, <1>5, <1>6

(* or that one, which is mixed from then on. *)
LEMMA OverwriteIInv == ASSUME IInv, Overwrite PROVE IInv'
  <1> USE DEF IInv, card, device, remote
  <1>1. PICK v \in Version : Newer(v) /\ sd' = [sd EXCEPT ![File] = v]
    BY DEF Overwrite
  <1>2. /\ pc = "body" /\ File \in Files /\ mixed' = mixed \cup {File}
        /\ UNCHANGED <<listed, blind, astray, device, link, wire, eof, remote>>
        /\ sd' \in [Files -> Version \cup {Absent}] /\ sd'[File] = v /\ v # Absent
        /\ \A g \in Files \ {File} : sd'[g] = sd[g]
        /\ NotOlder(File, v) /\ File' = File
    BY <1>1, UploadAssumption DEF Overwrite, TypeOK, Walk, Newer, NotOlder, Version, File
  <1>3. TypeOK'
    BY <1>2 DEF TypeOK
  <1>4. Stream'
    <2>1. \A p \in Phases : DeviceAt(p) => DeviceAt(p)'
      BY <1>2 DEF DeviceAt
    <2> HIDE DEF IInv
    <2> QED BY <1>2, <2>1, StreamKept DEF IInv, Live
  <1>5. NoTornFile' /\ AllMixed' /\ Delivered'
    BY <1>2 DEF NoTornFile, AllMixed, OneVersion, Delivered, Good, NotOlder
  <1>6. Sending' /\ Walk'
    BY <1>2 DEF Sending, Live, Walk, NotOlder, File
  <1> QED BY <1>3, <1>4, <1>5, <1>6

(* Nothing happens. *)
LEMMA StutterIInv == ASSUME IInv, UNCHANGED vars PROVE IInv'
  <1> USE DEF IInv, vars, card, device, remote
  <1>1. TypeOK'
    BY DEF TypeOK
  <1>2. Stream'
    <2>1. \A p \in Phases : DeviceAt(p) => DeviceAt(p)'
      BY DEF DeviceAt, File
    <2> HIDE DEF IInv
    <2> QED BY <2>1, StreamKept DEF IInv, Live
  <1>3. NoTornFile' /\ AllMixed' /\ Delivered'
    BY DEF NoTornFile, AllMixed, OneVersion, Delivered, Good, NotOlder
  <1>4. Sending' /\ Walk'
    BY DEF Sending, Live, Walk, NotOlder, File
  <1> QED BY <1>1, <1>2, <1>3, <1>4

(* Every step keeps the invariant. *)
LEMMA NextIInv == IInv /\ [Next]_vars => IInv'
  <1> SUFFICES ASSUME IInv, [Next]_vars PROVE IInv'
    OBVIOUS
  <1>1. CASE Start
    BY <1>1, BeginIInv, QuietDeviceIInv DEF Start
  <1>2. CASE Task
    BY <1>2, QuietDeviceIInv, SendHeaderIInv, SendBlockIInv, SendSeparatorIInv, SendShortIInv, SendDoneIInv
    DEF Task
  <1>3. CASE Script
    BY <1>3, ReadHeaderIInv, EndHeadersIInv, ReadBlockIInv, MoveIInv, AstrayIInv, ScriptEndsIInv, PruneIInv
    DEF Script
  <1> QED
    BY <1>1, <1>2, <1>3, CutIInv, OverwriteIInv, SaveIInv, StutterIInv DEF Next

(* The invariant. *)
THEOREM Invariance == Spec => []IInv
  BY InitIInv, NextIInv, PTL DEF Spec

(* The types. *)
THEOREM Typing == Spec => []TypeOK
  <1>1. IInv => TypeOK
    BY DEF IInv
  <1> QED BY <1>1, Invariance, PTL

(* ~/tdeck never has a part of a file, whatever breaks and when, as long   *)
(* as no file was read shorter than its size.                              *)
THEOREM NeverTorn == Spec => []NoTornFile
  <1>1. IInv => NoTornFile
    BY DEF IInv
  <1> QED BY <1>1, Invariance, PTL

-----------------------------------------------------------------------------
(* What a message adds to the names announced, and what reading one takes away. *)
LEMMA AnnouncedSent ==
  ASSUME TypeOK, NEW message, wire' = Append(wire, message)
  PROVE  /\ message.type = "FILE" => Announced' = Announced \cup {message.file}
         /\ message.type # "FILE" => Announced' = Announced
  <1>1. Len(wire) \in Nat /\ Len(wire') = Len(wire) + 1 /\ wire'[Len(wire) + 1] = message
        /\ \A k \in 1 .. Len(wire) : wire'[k] = wire[k]
    BY DEF TypeOK
  <1>2. 1 .. Len(wire') = 1 .. Len(wire) \cup {Len(wire) + 1}
    BY <1>1
  <1> QED BY <1>1, <1>2 DEF Announced

(* A name leaves the wire only when its header is read. *)
LEMMA AnnouncedRead ==
  ASSUME TypeOK, wire # << >>, wire' = Tail(wire)
  PROVE  Announced = Announced' \cup (IF Head(wire).type = "FILE" THEN {Head(wire).file} ELSE {})
  <1>1. /\ Len(wire) \in Nat \ {0} /\ Len(wire') = Len(wire) - 1 /\ Head(wire) = wire[1]
        /\ \A k \in 1 .. Len(wire') : wire'[k] = wire[k + 1]
    BY DEF TypeOK
  <1>2. ASSUME NEW f \in Announced
        PROVE  f \in Announced' \cup (IF Head(wire).type = "FILE" THEN {Head(wire).file} ELSE {})
    <2>1. PICK k \in 1 .. Len(wire) : wire[k].type = "FILE" /\ f = wire[k].file
      BY DEF Announced
    <2>2. CASE k = 1
      BY <1>1, <2>1, <2>2
    <2>3. CASE k # 1
      <3>1. k - 1 \in 1 .. Len(wire') /\ wire'[k - 1] = wire[k]
        BY <1>1, <2>3
      <3> QED BY <2>1, <3>1 DEF Announced
    <2> QED BY <2>2, <2>3
  <1>3. ASSUME NEW f \in Announced' PROVE f \in Announced
    <2>1. PICK k \in 1 .. Len(wire') : wire'[k].type = "FILE" /\ f = wire'[k].file
      BY DEF Announced
    <2>2. k + 1 \in 1 .. Len(wire) /\ wire'[k] = wire[k + 1]
      BY <1>1
    <2> QED BY <2>1, <2>2 DEF Announced
  <1>4. Head(wire).type = "FILE" => Head(wire).file \in Announced
    BY <1>1 DEF Announced
  <1> QED BY <1>2, <1>3, <1>4

(* The list is that of the card as it was. *)
LEMMA ListedKept == ASSUME Fits, IInv, Listed, [Next]_vars PROVE Listed'
  <1>1. CASE Begin
    <2>1. CASE file_list' \in Listings
      <3>1. {file_list'[k] : k \in 1 .. Len(file_list')} = OnCard /\ listed' = sd
        BY <1>1, <2>1, ListingIsCard DEF Begin
      <3> QED BY <3>1 DEF Listed, OnCard
    <2>2. CASE blind'
      BY <2>2 DEF Listed
    <2> QED BY <1>1, <2>1, <2>2 DEF Begin
  <1>2. CASE UNCHANGED <<file_list, listed, blind>> /\ (pc = "idle" => pc' = "idle")
    BY <1>2 DEF Listed
  <1>3. CASE Task
    BY <1>2, <1>3 DEF Task, Skip, SendHeader, SendBlock, SendSeparator, SendShort, SendDone, StreamFails, Reply,
                      card
  <1>4. CASE Script
    BY <1>2, <1>4 DEF Script, ReadHeader, EndHeaders, ReadBlock, Move, ShortBody, NoSeparator, Prune,
                      PrintOk, HostFails, DataAstray, SeparatorAstray, HeaderAstray, card, device
  <1>5. CASE StartFails \/ LinkLost \/ Reset \/ Overwrite \/ UNCHANGED vars
    BY <1>2, <1>5 DEF StartFails, LinkLost, Reset, Overwrite, card, device, vars
  <1>6. ASSUME NEW f \in Files, Save(f) PROVE Listed'
    BY <1>2, <1>6 DEF Save, device
  <1> QED BY <1>1, <1>3, <1>4, <1>5, <1>6 DEF Next, Start

(* The names announced are those the walk has passed. *)
LEMMA ManifestKept == ASSUME IInv, Manifest, [Next]_vars PROVE Manifest'
  <1> USE DEF card, device, remote
  <1>1. TypeOK /\ Walk /\ Len(file_list) \in Nat /\ i \in Nat \ {0}
    BY ListLength DEF IInv
  <1>2. CASE Begin
    <2>1. Announced' = {} /\ Walked' = {} /\ manifest' = {}
      BY <1>2, EmptySeq DEF Begin, Announced, Walked
    <2> QED BY <2>1 DEF Manifest
  <1>3. CASE /\ UNCHANGED <<file_list, wire, i>>
             /\ Live' /\ script' # "failed" => pc' = pc /\ Live /\ script # "failed" /\ manifest' = manifest
    BY <1>3, SMTT(20) DEF Manifest, Announced, Walked
  <1>4. CASE Skip
    <2>1. Walked' = Walked /\ Announced' = Announced
      <3>1. 1 .. i' - 1 = 1 .. i - 1 \cup {i}
        BY <1>1, <1>4 DEF Skip
      <3> QED BY <1>4, <3>1 DEF Skip, Walked, Announced, File
    <2> QED BY <1>4, <2>1 DEF Skip, Manifest, Live
  <1>5. CASE SendHeader
    <2>1. Announced' = Announced \cup {File}
      BY <1>1, <1>5, AnnouncedSent DEF SendHeader, Write
    <2>2. Walked' = Walked \cup {File}
      <3>1. 1 .. i = 1 .. i - 1 \cup {i}
        BY <1>1, <1>5 DEF SendHeader
      <3> QED BY <1>5, <3>1 DEF SendHeader, Walked, File
    <2> QED BY <1>5, <2>1, <2>2 DEF SendHeader, Manifest, Live
  <1>6. CASE SendBlock
    <2>1. Announced' = Announced
      BY <1>1, <1>6, AnnouncedSent DEF SendBlock, Write
    <2> QED BY <1>6, <2>1 DEF SendBlock, Manifest, Live, Walked
  <1>7. CASE SendSeparator
    <2>1. Announced' = Announced
      BY <1>1, <1>7, AnnouncedSent DEF SendSeparator, Write
    <2>2. Walked' = Walked
      BY <1>1, <1>7 DEF SendSeparator, Walked
    <2> QED BY <1>7, <2>1, <2>2 DEF SendSeparator, Manifest, Live
  <1>17. CASE SendShort
    BY <1>17 DEF SendShort, Manifest, Live
  <1>18. CASE DataAstray \/ SeparatorAstray \/ HeaderAstray
    <2>1. astray /\ astray' = astray
      BY <1>18 DEF DataAstray, SeparatorAstray, HeaderAstray
    <2> QED BY <2>1 DEF Manifest, Live
  <1>8. CASE SendDone
    <2>1. Announced' = Announced
      BY <1>1, <1>8, AnnouncedSent DEF SendDone, Write
    <2> QED BY <1>8, <2>1 DEF SendDone, Manifest, Live, Walked
  <1>9. CASE ReadHeader
    <2>1. Announced = Announced' \cup {cur'} /\ manifest' = manifest \cup {cur'}
      BY <1>1, <1>9, AnnouncedRead DEF ReadHeader, Receive
    <2> QED BY <1>9, <2>1 DEF ReadHeader, Manifest, Live, Walked
  <1>10. CASE (EndHeaders /\ UNCHANGED wire) \/ ShortBody \/ NoSeparator \/ Prune \/ PrintOk \/ HostFails
    BY <1>3, <1>10 DEF EndHeaders, ShortBody, NoSeparator, Prune, PrintOk, HostFails, Live
  <1>11. CASE (EndHeaders /\ Receive("DONE")) \/ ReadBlock \/ Move
    <2>1. Announced = Announced'
      BY <1>1, <1>11, AnnouncedRead DEF ReadBlock, Move, Receive
    <2>2. UNCHANGED <<pc, link, file_list, i, manifest, astray>> /\ script # "failed"
      BY <1>11 DEF EndHeaders, ReadBlock, Move
    <2> QED BY <2>1, <2>2 DEF Manifest, Live, Walked
  <1>12. CASE StreamFails \/ Reply \/ LinkLost \/ Reset \/ StartFails
    BY <1>12 DEF StreamFails, Reply, LinkLost, Reset, StartFails, Manifest, Live
  <1>13. CASE Overwrite \/ UNCHANGED vars
    BY <1>3, <1>13 DEF Overwrite, vars, Live
  <1>14. ASSUME NEW f \in Files, Save(f) PROVE Manifest'
    BY <1>3, <1>14 DEF Save, Live
  <1>15. CASE Task
    BY <1>4, <1>5, <1>6, <1>7, <1>8, <1>12, <1>15, <1>17 DEF Task
  <1>16. CASE Script
    BY <1>9, <1>10, <1>11, <1>16, <1>18 DEF Script, EndHeaders
  <1> QED BY <1>2, <1>12, <1>13, <1>14, <1>15, <1>16 DEF Next, Start

(* OK is printed when the two sides agree, and heard only then. *)
LEMMA HeardKept == ASSUME Fits, MInv, [Next]_vars PROVE Heard'
  <1> USE DEF card, device, remote
  <1>1. CASE /\ script' = script /\ UNCHANGED <<host, listed, blind>> /\ mixed \subseteq mixed'
             /\ astray => astray'
             /\ script = "ok" /\ pc' = "reply" => pc = "reply"
             /\ result' = "done" => result = "done" /\ pc' = "idle"
    BY <1>1 DEF MInv, Heard, Mirrored, Good, NotOlder
  <1>2. CASE script' # "ok" /\ (result' = "done" => result = "done" /\ script # "ok")
    BY <1>2 DEF MInv, Heard
  <1>3. CASE Reply
    BY <1>3 DEF Reply, MInv, Heard, Mirrored, Good, NotOlder
  <1>4. CASE PrintOk
    <2>1. CASE ~link
      BY <1>2, <1>4, <2>1 DEF PrintOk, MInv, Heard
    <2>2. CASE pc # "reply"
      BY <1>4, <2>2 DEF PrintOk, MInv, Heard
    <2>4. CASE blind \/ astray
      BY <1>4, <2>4 DEF PrintOk, MInv, Heard
    <2>3. CASE link /\ pc = "reply" /\ ~blind /\ ~astray
      <3>1. /\ script = "prune" /\ Live /\ Extra = {} /\ result # "done"
            /\ UNCHANGED <<host, listed, blind, mixed, astray, result, pc>>
        BY <1>4, <2>3 DEF PrintOk, Live, MInv, Heard
      <3>2. Announced = {} /\ i - 1 = Len(file_list)
        <4>1. wire = << >> /\ i = Len(file_list) + 1 /\ Len(file_list) \in Nat
          BY <2>3, <3>1 DEF MInv, IInv, Sending, Walk, TypeOK
        <4> QED BY <4>1, EmptySeq DEF Announced
      <3>3. manifest = {file_list[k] : k \in 1 .. Len(file_list)} \cap Safe
        BY <2>3, <3>1, <3>2 DEF MInv, Manifest, Walked
      <3>4. manifest = {f \in Files : listed[f] # Absent} \cap Safe
        BY <2>3, <3>3 DEF MInv, Listed
      <3>5. \A f \in manifest : Good(f)
        BY <2>3, <3>1 DEF MInv, IInv, Delivered
      <3>6. \A f \in Files : host[f] = Absent \/ f \in manifest
        BY <3>1 DEF Extra
      <3>7. Mirrored
        BY <3>4, <3>5, <3>6, UploadAssumption DEF Mirrored
      <3>8. Mirrored'
        BY <3>1, <3>7 DEF Mirrored, Good, NotOlder
      <3> QED BY <3>1, <3>8 DEF Heard
    <2> QED BY <2>1, <2>2, <2>3, <2>4
  <1>5. CASE Begin \/ StartFails
    BY <1>1, <1>2, <1>5 DEF Begin, StartFails
  <1>6. CASE Skip \/ SendHeader \/ SendBlock \/ SendSeparator \/ SendDone \/ StreamFails
    BY <1>1, <1>6 DEF Skip, SendHeader, SendBlock, SendSeparator, SendDone, StreamFails, Write, ChannelOpen,
                      MInv, Heard
  <1>10. CASE SendShort
    BY <1>10 DEF SendShort, Write, ChannelOpen, MInv, Heard
  <1>11. CASE DataAstray \/ SeparatorAstray \/ HeaderAstray
    BY <1>2, <1>11 DEF DataAstray, SeparatorAstray, HeaderAstray
  <1>7. CASE ReadHeader \/ EndHeaders \/ ReadBlock \/ Move \/ ShortBody \/ NoSeparator \/ Prune \/ HostFails
    BY <1>2, <1>7 DEF ReadHeader, EndHeaders, ReadBlock, Move, ShortBody, NoSeparator, Prune, HostFails
  <1>8. CASE LinkLost \/ Reset \/ Overwrite \/ UNCHANGED vars
    BY <1>1, <1>8 DEF LinkLost, Reset, Overwrite, vars, MInv, Heard
  <1>9. ASSUME NEW f \in Files, Save(f) PROVE Heard'
    BY <1>1, <1>9 DEF Save, MInv, Heard
  <1> QED BY <1>3, <1>4, <1>5, <1>6, <1>7, <1>8, <1>9, <1>10, <1>11 DEF Next, Start, Task, Script

(* The stronger invariant, for a list with room for the card: it holds at first. *)
LEMMA InitMInv == ASSUME Init PROVE MInv
  BY InitIInv DEF Init, Listed, Manifest, Heard, Live, MInv

(* Every step keeps it. *)
LEMMA NextMInv == ASSUME Fits, MInv, [Next]_vars PROVE MInv'
  BY NextIInv, ListedKept, ManifestKept, HeardKept DEF MInv

(* With it, an upload that is done has mirrored the card. *)
LEMMA MirrorsWhenDone == ASSUME MInv PROVE DoneMeansMirrored
  BY DEF MInv, Heard, Mirrored, Good, NotOlder, DoneMeansMirrored

(* "Upload done" is shown only of a mirror, when the list has room for the *)
(* card, the listing succeeded and no file was read short.                 *)
THEOREM DoneMirrors == ASSUME Fits PROVE Spec => []DoneMeansMirrored
  <1>1. Init => MInv
    BY InitMInv
  <1>2. MInv /\ [Next]_vars => MInv'
    BY NextMInv
  <1>3. MInv => DoneMeansMirrored
    BY MirrorsWhenDone
  <1> QED BY <1>1, <1>2, <1>3, PTL DEF Spec

-----------------------------------------------------------------------------
(* The starting of transfers: the flags tell the truth, one transfer runs  *)
(* at a time, and a shortcut that waited goes on when its transfer is      *)
(* over, for any scripts and any number of commands, while no two starts   *)
(* overlap.                                                                *)

(* A shortcut past its load step is at a step of its script.               *)
InScript ==
  starter_pc["shortcut"] \notin {"idle", "load"} => step \in 1 .. Len(steps)

Running == {t \in Transfers : transfer[t] # None}

(* What a starter has tested still holds, since nobody else sets a flag:   *)
(* past "own" no transfer of either kind is alive.                         *)
Tested(s) ==
  /\ starter_pc[s] = "own" => Shortcut!Alive(Shortcut!Other(asked[s])) = {}
  /\ starter_pc[s] \in {"mark", "create"} => Running = {}

FlagsAgree == \A k \in Shortcut!Kinds : running[k] <=> (Shortcut!Alive(k) # {} \/ Shortcut!BeingStarted(k))

OneAtATime ==
  ~raced =>
    /\ ~(Shortcut!Starting("loop") /\ Shortcut!Starting("shortcut"))
    /\ \A s \in Shortcut!Starters : Tested(s)
    /\ \A t, u \in Running : t = u
    /\ FlagsAgree

ShortcutInv == Shortcut!TypeOK /\ InScript /\ OneAtATime

(* Where the two starters are, as far as TypeOK and InScript speak of it.  *)
PlaceOK ==
  /\ starter_pc \in [Shortcut!Starters -> Shortcut!StartPc \cup {"idle", "load", "step"}]
  /\ starter_pc["loop"] \notin {"load", "step"}
  /\ shortcut_running = (starter_pc["shortcut"] # "idle")
  /\ steps \in Shortcut!Scripts /\ (step \in 1 .. Len(steps) \/ step = 1)
  /\ InScript

Rest == <<running, transfer, asked, raced>>

-----------------------------------------------------------------------------
(* There are two kinds. *)
LEMMA OtherKind ==
  ASSUME NEW k \in Shortcut!Kinds
  PROVE  /\ Shortcut!Other(k) \in Shortcut!Kinds /\ Shortcut!Other(k) # k
         /\ \A x \in Shortcut!Kinds : x = k \/ x = Shortcut!Other(k)
  <1>1. \E x \in Shortcut!Kinds : x # k
    BY DEF Shortcut!Kinds
  <1>2. Shortcut!Other(k) \in Shortcut!Kinds /\ Shortcut!Other(k) # k
    BY <1>1 DEF Shortcut!Other
  <1> QED BY <1>2 DEF Shortcut!Kinds

(* A set all of whose members are equal has one at most. *)
LEMMA AtMostOne ==
  ASSUME NEW S, \A x, y \in S : x = y PROVE Cardinality(S) <= 1
  <1>1. CASE S = {}
    BY <1>1, FS_EmptySet
  <1>2. ASSUME NEW x \in S PROVE Cardinality(S) <= 1
    <2>1. S = {x}
      OBVIOUS
    <2> QED BY <2>1, FS_Singleton
  <1> QED BY <1>1, <1>2

(* The steps of a script are steps, and start a kind of transfer. *)
LEMMA ScriptSteps ==
  ASSUME Shortcut!ShortcutAssumption, steps \in Shortcut!Scripts
  PROVE  /\ Len(steps) \in Nat
         /\ \A j \in 1 .. Len(steps) :
              steps[j][1] \in {"start", "cmd"} => steps[j][2] \in Shortcut!Kinds
  <1>1. PICK n \in 0 .. SHORTCUT_MAX_STEPS : steps \in [1 .. n -> Shortcut!Steps]
    BY DEF Shortcut!Scripts
  <1>2. steps \in Seq(Shortcut!Steps)
    BY <1>1, SeqDef DEF Shortcut!ShortcutAssumption
  <1>3. ASSUME NEW j \in 1 .. Len(steps), steps[j][1] \in {"start", "cmd"}
        PROVE  steps[j][2] \in Shortcut!Kinds
    <2>1. steps[j] \in Shortcut!Steps
      BY <1>2, ElementOfSeq
    <2> QED BY <1>3, <2>1 DEF Shortcut!Steps, Shortcut!StepsOf
  <1> QED BY <1>2, <1>3, LenProperties

(* The empty script is one. *)
LEMMA EmptyScript == ASSUME Shortcut!ShortcutAssumption PROVE << >> \in Shortcut!Scripts /\ Len(<< >>) = 0
  <1>1. << >> \in [1 .. 0 -> Shortcut!Steps] /\ Len(<< >>) = 0
    BY EmptySeq, LenProperties
  <1> QED BY <1>1 DEF Shortcut!Scripts, Shortcut!ShortcutAssumption

(* What ends a step leaves the shortcut idle or at a step of its script. *)
LEMMA EndsInPlace ==
  ASSUME Shortcut!ShortcutAssumption, PlaceOK, starter_pc["shortcut"] # "idle",
         Shortcut!Stop \/ (starter_pc["shortcut"] # "load" /\ Shortcut!Proceed)
  PROVE  /\ PlaceOK'
         /\ starter_pc'["shortcut"] \in {"idle", "step"}
         /\ starter_pc' = [starter_pc EXCEPT !["shortcut"] = starter_pc'["shortcut"]]
  <1> USE DEF PlaceOK, InScript, Shortcut!Starters
  <1>1. CASE Shortcut!Stop
    BY <1>1, EmptyScript DEF Shortcut!Stop, Shortcut!Goto
  <1>2. CASE starter_pc["shortcut"] # "load" /\ step # Len(steps) /\ Shortcut!Proceed
    <2>1. starter_pc["shortcut"] \notin {"idle", "load"}
      BY <1>2
    <2>2. /\ step' \in 1 .. Len(steps) /\ UNCHANGED <<shortcut_running, steps>>
          /\ starter_pc' = [starter_pc EXCEPT !["shortcut"] = "step"]
      BY <1>2, <2>1, ScriptSteps DEF Shortcut!Proceed, Shortcut!Goto
    <2> QED BY <2>1, <2>2
  <1>3. CASE step = Len(steps) /\ Shortcut!Proceed
    BY <1>1, <1>3 DEF Shortcut!Proceed
  <1> QED BY <1>1, <1>2, <1>3

(* The return from a start, of either starter. *)
LEMMA ReturnsInPlace ==
  ASSUME Shortcut!ShortcutAssumption, PlaceOK, NEW s \in Shortcut!Starters, Shortcut!Starting(s),
         NEW ok \in BOOLEAN, Shortcut!Returns(s, ok)
  PROVE  /\ PlaceOK'
         /\ starter_pc'[s] \in {"idle", "step"}
         /\ starter_pc' = [starter_pc EXCEPT ![s] = starter_pc'[s]]
  <1>1. CASE s = "loop"
    BY <1>1 DEF Shortcut!Returns, Shortcut!Goto, Shortcut!script, PlaceOK, InScript, Shortcut!Starters
  <1>2. CASE s = "shortcut"
    <2>1. starter_pc["shortcut"] \notin {"idle", "load"} /\ (Shortcut!Stop \/ Shortcut!Proceed)
      BY <1>2 DEF Shortcut!Returns, Shortcut!Starting, Shortcut!StartPc
    <2> QED BY <1>2, <2>1, EndsInPlace
  <1> QED BY <1>1, <1>2 DEF Shortcut!Starters

(* A starter that leaves a start it has not marked, or makes none, disturbs nothing. *)
LEMMA QuietKeeps ==
  ASSUME PlaceOK, OneAtATime, NEW s \in Shortcut!Starters,
         starter_pc' = [starter_pc EXCEPT ![s] = starter_pc'[s]], UNCHANGED Rest,
         starter_pc[s] # "create", ~(starter_pc'[s] \in Shortcut!StartPc)
  PROVE  OneAtATime'
  BY DEF PlaceOK, OneAtATime, Rest, Shortcut!Starting, Shortcut!StartPc, Tested, Running, FlagsAgree,
     Shortcut!Alive,
         Shortcut!BeingStarted, Shortcut!Starters

(* The other parts of TypeOK, for steps that leave the transfers alone. *)
LEMMA PlacesSuffice ==
  ASSUME Shortcut!TypeOK, PlaceOK', UNCHANGED Rest, commands' \in 0 .. MaxCommands
  PROVE  Shortcut!TypeOK' /\ InScript'
  BY DEF Shortcut!TypeOK, PlaceOK, Rest

(* Init. *)
LEMMA InitShortcutInv == ASSUME Shortcut!ShortcutAssumption, Shortcut!Init PROVE ShortcutInv
  <1>1. steps \in Shortcut!Scripts /\ commands \in 0 .. MaxCommands
    BY EmptyScript DEF Shortcut!Init, Shortcut!ShortcutAssumption
  <1>2. Shortcut!TypeOK /\ InScript
    BY <1>1 DEF Shortcut!Init, Shortcut!TypeOK, InScript, Shortcut!Starters, Shortcut!Kinds, Shortcut!StartPc
  <1>3. OneAtATime
    BY DEF Shortcut!Init, OneAtATime, Shortcut!Starting, Shortcut!StartPc, Tested, Running, FlagsAgree,
       Shortcut!Alive,
           Shortcut!BeingStarted, Shortcut!Starters, Shortcut!Kinds
  <1> QED BY <1>2, <1>3 DEF ShortcutInv

(* The two tests of a start. *)
LEMMA TestIInv ==
  ASSUME Shortcut!ShortcutAssumption, ShortcutInv, NEW s \in Shortcut!Starters,
         Shortcut!TestOther(s) \/ Shortcut!TestOwn(s)
  PROVE  ShortcutInv'
  <1> USE DEF ShortcutInv
  <1>1. /\ PlaceOK /\ Shortcut!Starting(s) /\ starter_pc[s] \in {"other", "own"}
        /\ asked[s] \in Shortcut!Kinds
        /\ UNCHANGED <<running, transfer, asked, raced, commands>>
    BY DEF Shortcut!TypeOK, PlaceOK, Shortcut!Starting, Shortcut!StartPc, Shortcut!TestOther, Shortcut!TestOwn
  <1>2. CASE Shortcut!Returns(s, FALSE)
    <2>1. PlaceOK' /\ starter_pc'[s] \in {"idle", "step"} /\ starter_pc' = [starter_pc EXCEPT ![s] = starter_pc'[s]]
      BY <1>1, <1>2, ReturnsInPlace
    <2>2. OneAtATime'
      BY <1>1, <2>1, QuietKeeps DEF Rest, Shortcut!StartPc
    <2> QED BY <1>1, <2>1, <2>2, PlacesSuffice DEF Rest, Shortcut!TypeOK
  <1>3. CASE starter_pc[s] = "other" /\ ~running[Shortcut!Other(asked[s])] /\ Shortcut!Goto(s, "own") /\ UNCHANGED Shortcut!script
    <2>1. PlaceOK'
      BY <1>1, <1>3 DEF PlaceOK, InScript, Shortcut!Goto, Shortcut!script, Shortcut!StartPc, Shortcut!Starters
    <2>2. OneAtATime'
      BY <1>1, <1>3, OtherKind
      DEF OneAtATime, Shortcut!Starting, Shortcut!StartPc, Tested, Running, FlagsAgree, Shortcut!Alive, Shortcut!BeingStarted,
          Shortcut!Starters, Shortcut!Goto
    <2> QED BY <1>1, <2>1, <2>2, PlacesSuffice DEF Rest, Shortcut!TypeOK
  <1>4. CASE starter_pc[s] = "own" /\ ~running[asked[s]] /\ Shortcut!Goto(s, "mark") /\ UNCHANGED Shortcut!script
    <2>1. PlaceOK'
      BY <1>1, <1>4 DEF PlaceOK, InScript, Shortcut!Goto, Shortcut!script, Shortcut!StartPc, Shortcut!Starters
    <2>2. ~raced => Running = {}
      BY <1>1, <1>4, OtherKind DEF OneAtATime, Tested, Running, FlagsAgree, Shortcut!Alive, Shortcut!TypeOK
    <2>3. OneAtATime'
      BY <1>1, <1>4, <2>2
      DEF OneAtATime, Shortcut!Starting, Shortcut!StartPc, Tested, Running, FlagsAgree, Shortcut!Alive, Shortcut!BeingStarted,
          Shortcut!Starters, Shortcut!Goto
    <2> QED BY <1>1, <2>1, <2>3, PlacesSuffice DEF Rest, Shortcut!TypeOK
  <1> QED BY <1>2, <1>3, <1>4 DEF Shortcut!TestOther, Shortcut!TestOwn

(* The flag is set. *)
LEMMA MarkIInv ==
  ASSUME Shortcut!ShortcutAssumption, ShortcutInv, NEW s \in Shortcut!Starters,
         Shortcut!Mark(s) PROVE ShortcutInv'
  <1> USE DEF ShortcutInv
  <1>1. /\ PlaceOK /\ starter_pc[s] = "mark" /\ asked[s] \in Shortcut!Kinds
        /\ running' = [running EXCEPT ![asked[s]] = TRUE] /\ running' \in [Shortcut!Kinds -> BOOLEAN]
        /\ starter_pc' = [starter_pc EXCEPT ![s] = "create"]
        /\ UNCHANGED <<transfer, asked, Shortcut!script, raced, commands>>
    BY DEF Shortcut!TypeOK, PlaceOK, Shortcut!Mark, Shortcut!Goto
  <1>2. PlaceOK'
    BY <1>1 DEF PlaceOK, InScript, Shortcut!script, Shortcut!StartPc, Shortcut!Starters
  <1>3. Shortcut!TypeOK' /\ InScript'
    BY <1>1, <1>2 DEF Shortcut!TypeOK, PlaceOK
  <1>4. OneAtATime'
    BY <1>1 DEF OneAtATime, Shortcut!Starting, Shortcut!StartPc, Tested, Running, FlagsAgree,
       Shortcut!Alive, Shortcut!BeingStarted,
                Shortcut!Starters, Shortcut!TypeOK
  <1> QED BY <1>3, <1>4

(* The task exists, *)
LEMMA CreateIInv ==
  ASSUME Shortcut!ShortcutAssumption, ShortcutInv, NEW s \in Shortcut!Starters,
         Shortcut!Create(s) PROVE ShortcutInv'
  <1> USE DEF ShortcutInv
  <1>1. /\ PlaceOK /\ Shortcut!Starting(s) /\ starter_pc[s] = "create" /\ asked[s] \in Shortcut!Kinds
        /\ Shortcut!Returns(s, TRUE) /\ UNCHANGED <<running, asked, raced, commands>>
    BY DEF Shortcut!TypeOK, PlaceOK, Shortcut!Starting, Shortcut!StartPc, Shortcut!Create
  <1>2. PICK t \in Transfers :
          /\ transfer[t] = None
          /\ transfer' = [transfer EXCEPT ![t] = [kind |-> asked[s], by |-> s, begun |-> FALSE]]
    BY DEF Shortcut!Create
  <1>3. PlaceOK' /\ starter_pc'[s] \in {"idle", "step"} /\ starter_pc' = [starter_pc EXCEPT ![s] = starter_pc'[s]]
    BY <1>1, ReturnsInPlace
  <1>4. transfer' \in [Transfers -> [kind : Shortcut!Kinds, by : Shortcut!Starters, begun : BOOLEAN] \cup {None}]
    BY <1>1, <1>2 DEF Shortcut!TypeOK
  <1>5. Shortcut!TypeOK' /\ InScript'
    BY <1>1, <1>3, <1>4 DEF Shortcut!TypeOK, PlaceOK
  <1>6. /\ transfer'[t] # None /\ transfer'[t].kind = asked[s]
        /\ \A u \in Transfers \ {t} : transfer'[u] = transfer[u]
    <2>1. transfer'[t] = [kind |-> asked[s], by |-> s, begun |-> FALSE]
      BY <1>2 DEF Shortcut!TypeOK
    <2>2. [kind |-> asked[s], by |-> s, begun |-> FALSE]
            \in [kind : Shortcut!Kinds, by : Shortcut!Starters, begun : BOOLEAN]
      BY <1>1
    <2>3. transfer'[t] # None
      BY ONLY <2>1, <2>2, Shortcut!ShortcutAssumption DEF Shortcut!ShortcutAssumption
    <2> QED BY <1>2, <2>1, <2>3 DEF Shortcut!TypeOK
  <1>7. ~raced => Running = {} /\ (\A k \in Shortcut!Kinds : running[k] <=> k = asked[s])
    BY <1>1 DEF OneAtATime, Tested, FlagsAgree, Running, Shortcut!Alive, Shortcut!BeingStarted,
       Shortcut!Starting, Shortcut!StartPc,
                Shortcut!Starters
  <1>8. ~raced => Running' = {t}
    BY <1>2, <1>6, <1>7, <1>1 DEF Running
  <1>9. \A x \in Shortcut!Starters : ~raced => ~Shortcut!Starting(x)'
    BY <1>1, <1>3 DEF PlaceOK, OneAtATime, Shortcut!Starting, Shortcut!StartPc, Shortcut!Starters
  <1>10. OneAtATime'
    BY <1>1, <1>6, <1>7, <1>8, <1>9
    DEF OneAtATime, Shortcut!Starting, Shortcut!StartPc, Tested, Running, FlagsAgree, Shortcut!Alive, Shortcut!BeingStarted, Shortcut!Starters
  <1> QED BY <1>5, <1>10

(* or there is no memory for it. *)
LEMMA CreateFailsIInv ==
  ASSUME Shortcut!ShortcutAssumption, ShortcutInv, NEW s \in Shortcut!Starters,
         Shortcut!CreateFails(s) PROVE ShortcutInv'
  <1> USE DEF ShortcutInv
  <1>1. /\ PlaceOK /\ Shortcut!Starting(s) /\ starter_pc[s] = "create" /\ asked[s] \in Shortcut!Kinds
        /\ running' = [running EXCEPT ![asked[s]] = FALSE] /\ running' \in [Shortcut!Kinds -> BOOLEAN]
        /\ Shortcut!Returns(s, FALSE) /\ UNCHANGED <<transfer, asked, raced, commands>>
    BY DEF Shortcut!TypeOK, PlaceOK, Shortcut!Starting, Shortcut!StartPc, Shortcut!CreateFails
  <1>2. PlaceOK' /\ starter_pc'[s] \in {"idle", "step"} /\ starter_pc' = [starter_pc EXCEPT ![s] = starter_pc'[s]]
    BY <1>1, ReturnsInPlace
  <1>3. Shortcut!TypeOK' /\ InScript'
    BY <1>1, <1>2 DEF Shortcut!TypeOK, PlaceOK
  <1>4. OneAtATime'
    BY <1>1, <1>2
    DEF OneAtATime, Shortcut!Starting, Shortcut!StartPc, Tested, Running, FlagsAgree, Shortcut!Alive, Shortcut!BeingStarted,
        Shortcut!Starters, Shortcut!TypeOK
  <1> QED BY <1>3, <1>4

(* A transfer sets its flag, which is set already, *)
LEMMA BeginShortcutInv ==
  ASSUME Shortcut!ShortcutAssumption, ShortcutInv, NEW t \in Transfers, Shortcut!Begin(t) PROVE ShortcutInv'
  <1> USE DEF ShortcutInv
  <1>1. /\ transfer[t] # None
        /\ transfer' = [transfer EXCEPT ![t].begun = TRUE]
        /\ running' = [running EXCEPT ![transfer[t].kind] = TRUE]
        /\ UNCHANGED <<starter_pc, asked, Shortcut!script, raced, commands>>
    BY DEF Shortcut!Begin
  <1>2. transfer[t] \in [kind : Shortcut!Kinds, by : Shortcut!Starters, begun : BOOLEAN]
    BY <1>1 DEF Shortcut!TypeOK
  <1>3. /\ transfer' \in [Transfers -> [kind : Shortcut!Kinds, by : Shortcut!Starters, begun : BOOLEAN] \cup {None}]
        /\ transfer'[t] \in [kind : Shortcut!Kinds, by : Shortcut!Starters, begun : BOOLEAN]
        /\ transfer'[t].kind = transfer[t].kind
        /\ \A u \in Transfers \ {t} : transfer'[u] = transfer[u]
    BY <1>1, <1>2 DEF Shortcut!TypeOK
  <1>4. Shortcut!TypeOK' /\ InScript'
    BY <1>1, <1>2, <1>3 DEF Shortcut!TypeOK, InScript, Shortcut!script
  <1>5. transfer'[t] # None
    BY <1>3 DEF Shortcut!ShortcutAssumption
  <1>6. OneAtATime'
    BY <1>1, <1>2, <1>3, <1>5
    DEF OneAtATime, Shortcut!Starting, Tested, Running, FlagsAgree, Shortcut!Alive, Shortcut!BeingStarted, Shortcut!TypeOK
  <1> QED BY <1>4, <1>6

(* and clears it when it is gone. *)
LEMMA EndIInv ==
  ASSUME Shortcut!ShortcutAssumption, ShortcutInv, NEW t \in Transfers, Shortcut!End(t) PROVE ShortcutInv'
  <1> USE DEF ShortcutInv
  <1>1. /\ transfer[t] # None
        /\ transfer' = [transfer EXCEPT ![t] = None]
        /\ running' = [running EXCEPT ![transfer[t].kind] = FALSE]
        /\ UNCHANGED <<starter_pc, asked, Shortcut!script, raced, commands>>
    BY DEF Shortcut!End
  <1>2. transfer[t].kind \in Shortcut!Kinds
    BY <1>1 DEF Shortcut!TypeOK
  <1>3. Shortcut!TypeOK' /\ InScript'
    BY <1>1, <1>2 DEF Shortcut!TypeOK, InScript, Shortcut!script
  <1>4. ~raced => Running = {t} /\ Running' = {} /\ ~\E s \in Shortcut!Starters : starter_pc[s] = "create"
    BY <1>1 DEF OneAtATime, Tested, Running, Shortcut!TypeOK
  <1>5. OneAtATime'
    BY <1>1, <1>2, <1>4
    DEF OneAtATime, Shortcut!Starting, Tested, Running, FlagsAgree, Shortcut!Alive, Shortcut!BeingStarted, Shortcut!TypeOK
  <1> QED BY <1>3, <1>5

(* A start is asked for.  When another is in progress, the two may meet.   *)
LEMMA AskKeeps ==
  ASSUME ShortcutInv, NEW s \in Shortcut!Starters, NEW k \in Shortcut!Kinds, Shortcut!Ask(s, k),
         ~Shortcut!Starting(s),
         UNCHANGED <<running, transfer>>
  PROVE  OneAtATime' /\ raced' \in BOOLEAN
  <1> USE DEF ShortcutInv
  <1>1. raced' \in BOOLEAN /\ (raced => raced')
        /\ ((\E x \in Shortcut!Starters \ {s} : Shortcut!Starting(x)) => raced')
    BY Zenon DEF Shortcut!Ask, Shortcut!TypeOK
  <1>2. starter_pc' = [starter_pc EXCEPT ![s] = "other"] /\ asked' = [asked EXCEPT ![s] = k]
    BY DEF Shortcut!Ask, Shortcut!Goto
  <1>3. OneAtATime'
    BY <1>1, <1>2
    DEF OneAtATime, Shortcut!Starting, Shortcut!StartPc, Tested, Running, FlagsAgree, Shortcut!Alive, Shortcut!BeingStarted,
        Shortcut!Starters, Shortcut!TypeOK
  <1> QED BY <1>1, <1>3

(* The user asks for a transfer: the starter of loop() begins to test. *)
LEMMA UserTransferIInv ==
  ASSUME Shortcut!ShortcutAssumption, ShortcutInv, NEW k \in Shortcut!Kinds,
         Shortcut!UserTransfer(k) PROVE ShortcutInv'
  <1> USE DEF ShortcutInv
  <1>1. /\ "loop" \in Shortcut!Starters /\ ~Shortcut!Starting("loop") /\ Shortcut!Ask("loop", k)
        /\ commands' \in 0 .. MaxCommands /\ UNCHANGED <<running, transfer, Shortcut!script>>
    BY DEF Shortcut!UserTransfer, Shortcut!Starting, Shortcut!StartPc, Shortcut!Starters, Shortcut!TypeOK,
       Shortcut!ShortcutAssumption
  <1>2. OneAtATime' /\ raced' \in BOOLEAN
    BY <1>1, AskKeeps
  <1>3. Shortcut!TypeOK' /\ InScript'
    BY <1>1, <1>2 DEF Shortcut!TypeOK, InScript, Shortcut!Ask, Shortcut!Goto, Shortcut!script,
       Shortcut!Starters, Shortcut!StartPc
  <1> QED BY <1>2, <1>3

(* A step of a script asks for one. *)
LEMMA StepStartIInv ==
  ASSUME Shortcut!ShortcutAssumption, ShortcutInv, Shortcut!StepStart PROVE ShortcutInv'
  <1> USE DEF ShortcutInv
  <1>1. /\ "shortcut" \in Shortcut!Starters /\ ~Shortcut!Starting("shortcut") /\ starter_pc["shortcut"] = "step"
        /\ steps[step][2] \in Shortcut!Kinds
        /\ Shortcut!Ask("shortcut", steps[step][2]) /\ UNCHANGED <<running, transfer, Shortcut!script, commands>>
    BY ScriptSteps DEF Shortcut!StepStart, Shortcut!Step, Shortcut!Starting, Shortcut!StartPc,
       Shortcut!Starters, Shortcut!TypeOK, InScript
  <1>2. OneAtATime' /\ raced' \in BOOLEAN
    BY <1>1, AskKeeps
  <1>3. Shortcut!TypeOK' /\ InScript'
    BY <1>1, <1>2 DEF Shortcut!TypeOK, InScript, Shortcut!Ask, Shortcut!Goto, Shortcut!script,
       Shortcut!Starters, Shortcut!StartPc
  <1> QED BY <1>2, <1>3

(* The steps of a shortcut that start nothing. *)
LEMMA QuietIInv ==
  ASSUME Shortcut!ShortcutAssumption, ShortcutInv, UNCHANGED <<running, transfer, asked, raced>>,
         commands' \in 0 .. MaxCommands, PlaceOK',
         starter_pc["shortcut"] \in {"idle", "load", "step"},
         starter_pc'["shortcut"] \in {"idle", "load", "step"},
         starter_pc' = [starter_pc EXCEPT !["shortcut"] = starter_pc'["shortcut"]]
  PROVE  ShortcutInv'
  <1>1. PlaceOK /\ "shortcut" \in Shortcut!Starters
    BY DEF ShortcutInv, Shortcut!TypeOK, PlaceOK, Shortcut!Starters
  <1>2. OneAtATime'
    BY <1>1, QuietKeeps DEF ShortcutInv, Rest, Shortcut!StartPc
  <1>3. Shortcut!TypeOK' /\ InScript'
    BY PlacesSuffice DEF ShortcutInv, Rest
  <1> QED BY <1>2, <1>3 DEF ShortcutInv

(* A shortcut is started: it reads its script next. *)
LEMMA startIInv ==
  ASSUME Shortcut!ShortcutAssumption, ShortcutInv, Shortcut!startShortcutByName PROVE ShortcutInv'
  <1>1. PlaceOK'
    BY DEF Shortcut!startShortcutByName, ShortcutInv, Shortcut!TypeOK, PlaceOK, InScript, Shortcut!Goto,
       Shortcut!Starters
  <1>2. /\ starter_pc["shortcut"] = "idle" /\ starter_pc' = [starter_pc EXCEPT !["shortcut"] = "load"]
        /\ starter_pc'["shortcut"] = "load"
        /\ UNCHANGED <<running, transfer, asked, raced>>
    BY DEF Shortcut!startShortcutByName, ShortcutInv, Shortcut!TypeOK, Shortcut!Goto, Shortcut!Starters
  <1>3. commands' \in 0 .. MaxCommands
    BY DEF Shortcut!startShortcutByName, ShortcutInv, Shortcut!TypeOK, Shortcut!ShortcutAssumption
  <1> QED
    BY <1>1, <1>2, <1>3, QuietIInv

(* The script is read, and the first of its steps is one of them. *)
LEMMA loadIInv ==
  ASSUME Shortcut!ShortcutAssumption, ShortcutInv, Shortcut!loadShortcutSteps PROVE ShortcutInv'
  <1>1. 1 \in 1 .. Len(steps')
    <2>1. PICK n \in 0 .. SHORTCUT_MAX_STEPS : steps' \in [1 .. n -> Shortcut!Steps]
      BY DEF Shortcut!loadShortcutSteps, Shortcut!Scripts
    <2>2. steps' \in Seq(Shortcut!Steps)
      BY <2>1, SeqDef DEF Shortcut!ShortcutAssumption
    <2> QED
      BY <2>2, EmptySeq, LenProperties DEF Shortcut!loadShortcutSteps
  <1>2. PlaceOK'
    BY <1>1 DEF Shortcut!loadShortcutSteps, ShortcutInv, Shortcut!TypeOK, PlaceOK, InScript, Shortcut!Goto,
       Shortcut!Starters
  <1> QED
    BY <1>2, QuietIInv DEF Shortcut!loadShortcutSteps, ShortcutInv, Shortcut!TypeOK, Shortcut!Goto,
       Shortcut!Starters, Shortcut!ShortcutAssumption

(* The shortcut stops, or goes on to its next step. *)
LEMMA EndsIInv ==
  ASSUME Shortcut!ShortcutAssumption, ShortcutInv, UNCHANGED <<running, transfer, asked, raced, commands>>,
         \/ starter_pc["shortcut"] = "load" /\ Shortcut!Stop
         \/ starter_pc["shortcut"] = "step" /\ (Shortcut!Stop \/ Shortcut!Proceed)
  PROVE  ShortcutInv'
  <1>1. PlaceOK
    BY DEF ShortcutInv, Shortcut!TypeOK, PlaceOK
  <1>2. /\ PlaceOK' /\ starter_pc'["shortcut"] \in {"idle", "step"}
        /\ starter_pc' = [starter_pc EXCEPT !["shortcut"] = starter_pc'["shortcut"]]
    BY <1>1, EndsInPlace
  <1> QED BY <1>2, QuietIInv DEF ShortcutInv, Shortcut!TypeOK, Shortcut!ShortcutAssumption

(* Every step keeps the invariant. *)
LEMMA NextShortcutInv ==
  ASSUME Shortcut!ShortcutAssumption, ShortcutInv, [Shortcut!Next]_(Shortcut!vars)
  PROVE  ShortcutInv'
  <1>1. CASE UNCHANGED Shortcut!vars
    BY <1>1 DEF ShortcutInv, Shortcut!TypeOK, InScript, OneAtATime, Shortcut!Starting, Tested, Running,
       FlagsAgree,
                Shortcut!Alive, Shortcut!BeingStarted, Shortcut!vars
  <1>2. ASSUME NEW s \in Shortcut!Starters, Shortcut!Start(s) PROVE ShortcutInv'
    BY <1>2, TestIInv, MarkIInv, CreateIInv, CreateFailsIInv DEF Shortcut!Start
  <1>3. CASE Shortcut!LoadFails \/ Shortcut!StepOther \/ \E k \in Shortcut!Kinds : Shortcut!WaitClear(k) \/ Shortcut!WaitTimesOut(k)
    BY <1>3, EndsIInv DEF Shortcut!LoadFails, Shortcut!StepOther, Shortcut!WaitClear,
       Shortcut!WaitTimesOut, Shortcut!Step
  <1>4. CASE Shortcut!shortcutTask
    BY <1>2, <1>3, <1>4, loadIInv, StepStartIInv DEF Shortcut!shortcutTask, Shortcut!Starters
  <1>5. CASE \E t \in Transfers : Shortcut!Begin(t) \/ Shortcut!End(t)
    BY <1>5, BeginShortcutInv, EndIInv
  <1>6. CASE \E k \in Shortcut!Kinds : Shortcut!UserTransfer(k)
    BY <1>6, UserTransferIInv
  <1> QED
    BY <1>1, <1>2, <1>4, <1>5, <1>6, startIInv DEF Shortcut!Next, Shortcut!Starters

(* The invariant. *)
THEOREM ShortcutInvariance == Shortcut!Spec => []ShortcutInv
  <1>1. Shortcut!Init => ShortcutInv
    BY InitShortcutInv, TransfersAssumption
  <1>2. ShortcutInv /\ [Shortcut!Next]_(Shortcut!vars) => ShortcutInv'
    BY NextShortcutInv, TransfersAssumption
  <1> QED BY <1>1, <1>2, PTL DEF Shortcut!Spec

(* The flags tell the truth and one transfer runs at a time, unless starts overlapped. *)
LEMMA FlagsFollow == ASSUME ShortcutInv PROVE Shortcut!FlagsHonest
  <1> DEFINE All == Shortcut!Alive("upload") \cup Shortcut!Alive("download")
  <1> SUFFICES ASSUME ~raced PROVE FlagsAgree /\ Shortcut!Cardinality(All) <= 1
    BY DEF Shortcut!FlagsHonest, FlagsAgree
  <1>1. \A x, y \in All : x = y
    BY DEF ShortcutInv, OneAtATime, Running, Shortcut!Alive
  <1>2. Shortcut!Cardinality(All) = Cardinality(All)
    BY DEF Shortcut!Cardinality, Cardinality
  <1> QED BY <1>1, <1>2, AtMostOne DEF ShortcutInv, OneAtATime

(* A wait that passes leaves no transfer of its kind behind it. *)
LEMMA PassesWhenOver ==
  ASSUME ShortcutInv, NEW k \in Shortcut!Kinds, Shortcut!WaitClear(k), ~raced
  PROVE  \A t \in Shortcut!Alive(k) : transfer[t].by # "shortcut"
  BY DEF ShortcutInv, OneAtATime, FlagsAgree, Shortcut!WaitClear

-----------------------------------------------------------------------------
(* The download.  It mirrors the host's files and prunes only what the host does not *)
(* have, for any number of messages in flight and whatever fails meanwhile.          *)
Message ==
  [type : {"FILE"}, file : Files] \cup [type : {"data"}, count : {Blocks}]
    \cup [type : {"sep", "DONE"}]

(* Between a header and its note the device is at the file cur.            *)
AtFile == down_pc \in {"open", "body", "sep", "note"}

(* What is in flight: headers of files the host has, and the DONE of a     *)
(* script that has nothing left comes last.                                *)
InFlight ==
  /\ down_wire \in Seq(Message)
  /\ \A k \in 1 .. Len(down_wire) :
       /\ down_wire[k].type = "FILE" => down_wire[k].file \in down_remote
       /\ down_wire[k].type = "DONE" => k = Len(down_wire) /\ down_script = "ended" /\ queue = << >>
  /\ \A k \in 1 .. Len(queue) : queue[k] \in down_remote
  /\ down_script \in {"body", "sep"} => queue # << >>
  /\ AtFile => down_cur \in Safe

DownInv == Down!TypeOK /\ InFlight

(* The names that the card can hold in its 64 bytes are stored whole.      *)
NamesFit == \A f \in Safe : Short[f] = f

(* A file on its way: the device is at it, or its header is in flight.     *)
Coming(f) ==
  \/ AtFile /\ down_cur = f
  \/ \E k \in 1 .. Len(down_wire) : down_wire[k].type = "FILE" /\ down_wire[k].file = f

(* While the DONE may still come, every file of the host is noted, on its  *)
(* way or to be sent; the one that is being sent is on its way at least.   *)
DoneMayCome == down_link \/ \E k \in 1 .. Len(down_wire) : down_wire[k].type = "DONE"
NoneForgotten ==
  good /\ (down_pc = "line" \/ AtFile) /\ DoneMayCome =>
    /\ \A f \in down_remote :
         f \in down_manifest \/ Coming(f) \/ \E k \in 1 .. Len(queue) : queue[k] = f
    /\ down_script \in {"body", "sep"} => queue[1] \in down_manifest \/ Coming(queue[1])

(* What is noted is of the host and complete, but for the one that is      *)
(* written again; after the DONE all of it is noted, and at the end        *)
(* nothing else is on the card.                                            *)
Noted ==
  good /\ down_pc # "idle" =>
    /\ down_manifest \subseteq down_remote /\ (AtFile => down_cur \in down_remote)
    /\ \A f \in down_manifest : down_sd[f] = Down!New(f) \/ (down_pc = "body" /\ f = down_cur)
    /\ down_pc \in {"sep", "note"} => down_sd[down_cur] = Down!New(down_cur)
    /\ down_pc \in {"close", "prune", "clean"} => down_remote \subseteq down_manifest
    /\ down_pc = "clean" => Down!Extra = {}

(* The card is pruned only after a stream that was good to its end.        *)
PrunesAfterGood == down_pc = "prune" => good

DownMInv == DownInv /\ NoneForgotten /\ Noted /\ PrunesAfterGood /\ Down!DoneMeansMirrored

-----------------------------------------------------------------------------
(* A message is sent. *)
LEMMA WireSent ==
  ASSUME InFlight, NEW message \in Message, down_wire' = Append(down_wire, message)
  PROVE  /\ down_wire' \in Seq(Message) /\ Len(down_wire) \in Nat /\ Len(down_wire') = Len(down_wire) + 1
         /\ down_wire'[Len(down_wire) + 1] = message
         /\ \A k \in 1 .. Len(down_wire) : down_wire'[k] = down_wire[k]
  BY AppendProperties, LenProperties DEF InFlight

(* A message is read. *)
LEMMA WireRead ==
  ASSUME InFlight, down_wire # << >>, down_wire' = Tail(down_wire)
  PROVE  /\ down_wire' \in Seq(Message) /\ Len(down_wire) \in Nat \ {0} /\ Len(down_wire') = Len(down_wire) - 1
         /\ Head(down_wire) = down_wire[1] /\ Head(down_wire) \in Message
         /\ \A k \in 1 .. Len(down_wire') : down_wire'[k] = down_wire[k + 1]
  BY HeadTailProperties, LenProperties, ElementOfSeq DEF InFlight

(* What is lost of the messages in flight is their end. *)
LEMMA WireCut ==
  ASSUME InFlight, Down!Cut
  PROVE  /\ down_wire' \in Seq(Message) /\ Len(down_wire) \in Nat /\ Len(down_wire') \in 0 .. Len(down_wire)
         /\ \A k \in 1 .. Len(down_wire') : down_wire'[k] = down_wire[k]
  <1>1. PICK n \in 0 .. Len(down_wire) : down_wire' = SubSeq(down_wire, 1, n)
    BY DEF Down!Cut
  <1>2. down_wire \in Seq(Message) /\ Len(down_wire) \in Nat
    BY LenProperties DEF InFlight
  <1>3. 1 .. n \subseteq 1 .. Len(down_wire)
    BY <1>2
  <1>4. /\ down_wire' \in Seq(Message) /\ Len(down_wire') = (IF 1 <= n THEN n ELSE 0)
        /\ \A k \in 1 .. n - 1 + 1 : down_wire'[k] = down_wire[1 + k - 1]
    BY <1>1, <1>2, <1>3, SubSeqProperties
  <1> QED BY <1>2, <1>4

(* The files to send, one fewer. *)
LEMMA QueueTail ==
  ASSUME Down!TypeOK, queue # << >>, queue' = Tail(queue)
  PROVE  /\ queue' \in Seq(Files) /\ Len(queue) \in Nat \ {0} /\ Len(queue') = Len(queue) - 1
         /\ Head(queue) = queue[1]
         /\ \A k \in 1 .. Len(queue') : queue'[k] = queue[k + 1]
  BY HeadTailProperties, LenProperties DEF Down!TypeOK

(* Listing ~/tdeck forgets no file. *)
LEMMA Listing ==
  ASSUME Down!DownloadAssumption, NEW S \in SUBSET Files, NEW s \in Down!SetToSeqs(S)
  PROVE  s \in Seq(Files) /\ {s[k] : k \in 1 .. Len(s)} = S
  <1>1. IsFiniteSet(S) /\ Cardinality(S) \in Nat
    <2>1. IsFiniteSet(Files)
      BY DEF Down!DownloadAssumption, Down!IsFiniteSet, IsFiniteSet
    <2> QED BY <2>1, FS_Subset, FS_CardinalityType
  <1>2. s \in [1 .. Cardinality(S) -> S] /\ \A j, k \in 1 .. Cardinality(S) : j # k => s[j] # s[k]
    <2>1. Down!Cardinality(S) = Cardinality(S)
      BY DEF Down!Cardinality, Cardinality
    <2> QED BY <2>1 DEF Down!SetToSeqs
  <1>3. s \in Seq(S) /\ Len(s) = Cardinality(S)
    <2>1. s \in Seq(S)
      BY <1>1, <1>2, SeqDef
    <2>2. s \in [1 .. Len(s) -> S] /\ Len(s) \in Nat
      BY <2>1, LenProperties
    <2>3. 1 .. Len(s) = 1 .. Cardinality(S)
      BY <1>2, <2>2
    <2> QED BY <1>1, <2>1, <2>2, <2>3
  <1>4. s \in Seq(Files)
    BY <1>3, SeqMonotonic
  <1>5. s \in Injection(1 .. Cardinality(S), S)
    BY <1>2 DEF Injection, IsInjective
  <1>6. Cardinality(1 .. Cardinality(S)) = Cardinality(S)
    <2>1. Cardinality(1 .. Cardinality(S))
            = IF 1 > Cardinality(S) THEN 0 ELSE Cardinality(S) - 1 + 1
      BY <1>1, FS_Interval
    <2> QED BY <1>1, <2>1
  <1>7. s \in Surjection(1 .. Cardinality(S), S)
    BY <1>1, <1>5, <1>6, FS_Injection
  <1> QED BY <1>3, <1>4, <1>7 DEF Surjection

-----------------------------------------------------------------------------
(* Types and messages. *)

(* Nothing is in flight. *)
LEMMA InitDownInv == ASSUME Down!DownloadAssumption, Down!Init PROVE DownInv
  <1>1. down_cur \in Files
    BY DEF Down!DownloadAssumption, Down!Init
  <1>2. down_wire = << >> /\ queue = << >> /\ << >> \in Seq(Files) /\ << >> \in Seq(Message)
        /\ Len(<< >>) = 0
    BY DEF Down!Init
  <1>3. Down!TypeOK
    <2>1. down_link \in BOOLEAN /\ down_eof \in BOOLEAN /\ good \in BOOLEAN
      BY Zenon DEF Down!Init
    <2> QED BY <1>1, <1>2, <2>1 DEF Down!Init, Down!TypeOK, Down!DownloadAssumption
  <1>4. InFlight
    BY <1>2 DEF Down!Init, InFlight, AtFile
  <1> QED BY <1>3, <1>4 DEF DownInv

(* The host lists its files and the connection opens: nothing is in flight. *)
LEMMA BeginDownInv == ASSUME Down!DownloadAssumption, DownInv, Down!Begin PROVE DownInv'
  <1>1. queue' \in Seq(Files) /\ {queue'[k] : k \in 1 .. Len(queue')} = down_remote'
        /\ down_remote' \subseteq Files
    <2>1. down_remote' \in SUBSET Files /\ queue' \in Down!SetToSeqs(down_remote')
      BY DEF Down!Begin
    <2> QED BY <2>1, Listing
  <1>2. down_wire' = << >> /\ << >> \in Seq(Message) /\ Len(down_wire') = 0
    BY DEF Down!Begin
  <1>3. downloads' \in 0 .. MaxDownloads
    BY DEF DownInv, Down!TypeOK, Down!Begin, Down!DownloadAssumption
  <1>4. Down!TypeOK'
    <2>1. down_link' \in BOOLEAN /\ down_eof' \in BOOLEAN /\ good' \in BOOLEAN
      BY Zenon DEF Down!Begin
    <2> QED BY <1>1, <1>2, <1>3, <2>1 DEF DownInv, Down!TypeOK, Down!Begin, Down!DownloadAssumption
  <1>5. InFlight'
    BY <1>1, <1>2 DEF Down!Begin, InFlight, AtFile
  <1> QED BY <1>4, <1>5 DEF DownInv

(* The script sends. *)
LEMMA SendDownInv ==
  ASSUME Down!DownloadAssumption, DownInv,
         Down!SendHeader \/ Down!SendBlocks \/ Down!SendSeparator \/ Down!SendDone
  PROVE  DownInv'
  <1> USE DEF Down!host, Down!task
  <1>1. CASE Down!SendHeader
    <2>1. PICK m \in Message : down_wire' = Append(down_wire, m) /\ m.type = "FILE" /\ m.file = Head(queue)
      <3>1. Head(queue) \in Files
        BY <1>1, HeadTailProperties DEF Down!SendHeader, DownInv, Down!TypeOK
      <3> QED BY <1>1, <3>1 DEF Down!SendHeader, Down!Send, Message
    <2>2. Len(queue) \in Nat \ {0} /\ Head(queue) = queue[1]
      BY <1>1, HeadTailProperties, LenProperties DEF Down!SendHeader, DownInv, Down!TypeOK
    <2>3. Down!TypeOK'
      BY <1>1, <2>1, WireSent DEF Down!SendHeader, Down!Send, DownInv, Down!TypeOK, Down!DownloadAssumption
    <2>4. InFlight'
      BY <1>1, <2>1, <2>2, WireSent DEF Down!SendHeader, DownInv, InFlight, AtFile
    <2> QED BY <2>3, <2>4 DEF DownInv
  <1>2. CASE Down!SendBlocks
    <2>1. PICK m \in Message : down_wire' = Append(down_wire, m) /\ m.type = "data"
      BY <1>2 DEF Down!SendBlocks, Down!Send, Message
    <2>2. Down!TypeOK'
      BY <1>2, <2>1, WireSent DEF Down!SendBlocks, Down!Send, DownInv, Down!TypeOK, Down!DownloadAssumption
    <2>3. InFlight'
      BY <1>2, <2>1, WireSent DEF Down!SendBlocks, DownInv, InFlight, AtFile
    <2> QED BY <2>2, <2>3 DEF DownInv
  <1>3. CASE Down!SendSeparator
    <2>1. PICK m \in Message : down_wire' = Append(down_wire, m) /\ m.type = "sep"
      BY <1>3 DEF Down!SendSeparator, Down!Send, Message
    <2>2. queue # << >> /\ queue' = Tail(queue)
      BY <1>3 DEF Down!SendSeparator, DownInv, InFlight
    <2>3. Down!TypeOK'
      <3>1. queue' \in Seq(Files) /\ down_wire' \in Seq(Message)
        BY <2>1, <2>2, WireSent, QueueTail DEF DownInv
      <3> QED BY <1>3, <2>1, <3>1
              DEF Down!SendSeparator, Down!Send, DownInv, Down!TypeOK, Down!DownloadAssumption
    <2>4. InFlight'
      <3>1. /\ down_wire' \in Seq(Message) /\ Len(down_wire) \in Nat /\ Len(down_wire') = Len(down_wire) + 1
            /\ down_wire'[Len(down_wire) + 1] = m
            /\ \A k \in 1 .. Len(down_wire) : down_wire'[k] = down_wire[k]
        BY <2>1, WireSent DEF DownInv
      <3>2. /\ queue' \in Seq(Files) /\ Len(queue') = Len(queue) - 1 /\ Len(queue) \in Nat \ {0}
            /\ \A k \in 1 .. Len(queue') : queue'[k] = queue[k + 1]
        BY <2>2, QueueTail DEF DownInv
      <3> QED BY <1>3, <2>1, <3>1, <3>2 DEF Down!SendSeparator, DownInv, InFlight, AtFile
    <2> QED BY <2>3, <2>4 DEF DownInv
  <1>4. CASE Down!SendDone
    <2>1. PICK m \in Message : down_wire' = Append(down_wire, m) /\ m.type = "DONE"
      BY <1>4 DEF Down!SendDone, Down!Send, Message
    <2>2. Down!TypeOK'
      BY <1>4, <2>1, WireSent DEF Down!SendDone, Down!Send, DownInv, Down!TypeOK, Down!DownloadAssumption
    <2>3. InFlight'
      BY <1>4, <2>1, WireSent DEF Down!SendDone, DownInv, InFlight, AtFile
    <2> QED BY <2>2, <2>3 DEF DownInv
  <1> QED BY <1>1, <1>2, <1>3, <1>4

(* The device reads a message. *)
LEMMA ReadDownInv ==
  ASSUME Down!DownloadAssumption, DownInv,
         Down!ReadHeader \/ Down!ReadDone \/ Down!ReadBlocks \/ Down!ReadSeparator
  PROVE  DownInv'
  <1> USE DEF Down!host, Down!task
  <1>1. down_wire # << >> /\ down_wire' = Tail(down_wire) /\ UNCHANGED Down!host
    BY DEF Down!ReadHeader, Down!ReadDone, Down!ReadBlocks, Down!ReadSeparator, Down!Receive
  <1>2. AtFile' => down_cur' \in Safe
    <2>1. CASE Down!ReadHeader
      BY <2>1 DEF Down!ReadHeader, Down!DownloadAssumption, AtFile
    <2>2. CASE Down!ReadDone \/ Down!ReadBlocks \/ Down!ReadSeparator
      BY <2>2 DEF Down!ReadDone, Down!ReadBlocks, Down!ReadSeparator, DownInv, InFlight, AtFile
    <2> QED BY <2>1, <2>2
  <1>3. InFlight'
    BY <1>1, <1>2, WireRead DEF DownInv, InFlight
  <1>4. Len(down_wire') <= DownWireCap
    BY <1>1, WireRead DEF DownInv, Down!TypeOK, Down!DownloadAssumption
  <1>5. Down!TypeOK'
    <2>1. CASE Down!ReadHeader
      BY <1>4, <2>1 DEF Down!ReadHeader, DownInv, Down!TypeOK, Down!DownloadAssumption
    <2>2. CASE Down!ReadDone \/ Down!ReadSeparator
      BY <1>4, <2>2 DEF Down!ReadDone, Down!ReadSeparator, DownInv, Down!TypeOK
    <2>3. CASE Down!ReadBlocks
      <3>1. Head(down_wire).count \in Nat \/ ~good \/ down_sd' = down_sd
        <4>1. Head(down_wire).type = "data" => Head(down_wire).count = Blocks
          BY <1>1, WireRead DEF DownInv, Message
        <4> QED BY <2>3, <4>1 DEF Down!ReadBlocks, Down!Receive, Down!DownloadAssumption
      <3>2. [b \in 1 .. Head(down_wire).count |-> down_cur] \in Seq(Files) \/ ~good \/ down_sd' = down_sd
        BY <3>1, SeqDef DEF DownInv, Down!TypeOK
      <3> QED BY <1>4, <2>3, <3>2 DEF Down!ReadBlocks, DownInv, Down!TypeOK
    <2> QED BY <2>1, <2>2, <2>3
  <1> QED BY <1>3, <1>5 DEF DownInv

(* Nothing is sent or read. *)
LEMMA QuietDownInv ==
  ASSUME Down!DownloadAssumption, DownInv,
         Down!StartFails \/ Down!ReadFails \/ Down!OpenFile \/ Down!Note \/ Down!Close \/ Down!Prune \/ Down!Clean
  PROVE  DownInv'
  <1> USE DEF Down!host
  <1>1. UNCHANGED <<Down!host, down_link, down_eof, down_wire>> /\ (AtFile' => AtFile /\ down_cur' = down_cur)
    BY DEF Down!StartFails, Down!ReadFails, Down!OpenFile, Down!Note, Down!Close, Down!Prune, Down!Clean, AtFile
  <1>2. InFlight'
    BY <1>1 DEF DownInv, InFlight
  <1> DEFINE Kept == good' \in BOOLEAN /\ UNCHANGED <<down_remote, down_script, queue, down_link, down_eof, down_wire>>
  <1>3. Kept
    <2>1. good' \in BOOLEAN
      BY Zenon DEF DownInv, Down!TypeOK, Down!StartFails, Down!ReadFails, Down!OpenFile, Down!Note,
                   Down!Close, Down!Prune, Down!Clean
    <2> QED BY <1>1, <2>1
  <1>4. CASE Down!StartFails
    BY <1>4, <1>2, <1>3 DEF Down!StartFails, DownInv, Down!TypeOK, Down!DownloadAssumption
  <1>5. CASE Down!ReadFails
    BY <1>5, <1>2, <1>3 DEF Down!ReadFails, DownInv, Down!TypeOK
  <1>6. CASE Down!OpenFile
    <2>1. down_sd' \in [Files -> Seq(Files) \cup {Absent, Down!Old}]
      <3>1. << >> \in Seq(Files)
        OBVIOUS
      <3> QED BY <1>6, <3>1 DEF Down!OpenFile, DownInv, Down!TypeOK
    <2> QED BY <1>6, <1>2, <1>3, <2>1 DEF Down!OpenFile, DownInv, Down!TypeOK
  <1>7. CASE Down!Note
    BY <1>7, <1>2, <1>3 DEF Down!Note, DownInv, Down!TypeOK, InFlight, AtFile
  <1>8. CASE Down!Close
    BY <1>8, <1>2, <1>3 DEF Down!Close, DownInv, Down!TypeOK
  <1>9. CASE Down!Prune
    BY <1>9, <1>2, <1>3 DEF Down!Prune, DownInv, Down!TypeOK
  <1>10. CASE Down!Clean
    BY <1>10, <1>2, <1>3 DEF Down!Clean, DownInv, Down!TypeOK
  <1> QED BY <1>2, <1>4, <1>5, <1>6, <1>7, <1>8, <1>9, <1>10 DEF DownInv

(* The script fails, or the device loses the connection or its power. *)
LEMMA FailDownInv ==
  ASSUME Down!DownloadAssumption, DownInv, Down!ScriptFails \/ Down!LinkLost \/ Down!Reset
  PROVE  DownInv'
  <1> USE DEF Down!host, Down!task
  <1>1. CASE Down!ScriptFails
    BY <1>1 DEF Down!ScriptFails, DownInv, Down!TypeOK, InFlight, AtFile
  <1>2. CASE Down!LinkLost
    <2>1. Len(down_wire') <= DownWireCap
      BY <1>2, WireCut DEF Down!LinkLost, DownInv, Down!TypeOK, Down!DownloadAssumption
    <2>2. Down!TypeOK'
      BY <1>2, <2>1 DEF Down!LinkLost, DownInv, Down!TypeOK
    <2>3. InFlight'
      <3>1. \A k \in 1 .. Len(down_wire') : down_wire[k].type # "DONE" \/ k = Len(down_wire')
        BY <1>2, WireCut DEF Down!LinkLost, DownInv, InFlight
      <3> QED BY <1>2, <3>1, WireCut DEF Down!LinkLost, DownInv, InFlight, AtFile
    <2> QED BY <2>2, <2>3 DEF DownInv
  <1>3. CASE Down!Reset
    <2>1. down_wire' = << >> /\ << >> \in Seq(Message) /\ Len(down_wire') = 0
      BY <1>3 DEF Down!Reset
    <2>2. down_link' \in BOOLEAN
      BY <1>3, Zenon DEF Down!Reset
    <2>3. Down!TypeOK'
      BY <1>3, <2>1, <2>2 DEF Down!Reset, DownInv, Down!TypeOK, Down!DownloadAssumption
    <2>4. InFlight'
      BY <1>3, <2>1 DEF Down!Reset, DownInv, InFlight, AtFile
    <2> QED BY <2>3, <2>4 DEF DownInv
  <1> QED BY <1>1, <1>2, <1>3

(* Every step keeps the invariant. *)
LEMMA NextDownInv == ASSUME Down!DownloadAssumption, DownInv, [Down!Next]_(Down!vars) PROVE DownInv'
  <1>1. CASE Down!Next
    BY <1>1, BeginDownInv, SendDownInv, ReadDownInv, QuietDownInv, FailDownInv DEF Down!Next, Down!Script,
                                                                                   Down!Task
  <1>2. CASE UNCHANGED Down!vars
    BY <1>2 DEF Down!vars, Down!host, Down!task, DownInv, Down!TypeOK, InFlight, AtFile
  <1> QED BY <1>1, <1>2

(* The inductive invariant for any names. *)
THEOREM DownloadInvariance == Down!Spec => []DownInv
  <1>1. Down!Init => DownInv
    BY InitDownInv, TransfersAssumption
  <1>2. DownInv /\ [Down!Next]_(Down!vars) => DownInv'
    BY NextDownInv, TransfersAssumption
  <1> QED BY <1>1, <1>2, PTL DEF Down!Spec

-----------------------------------------------------------------------------
(* Mirroring. *)

(* No file is forgotten while the script sends. *)
LEMMA SendForgets ==
  ASSUME Down!DownloadAssumption, DownInv, NoneForgotten,
         Down!SendHeader \/ Down!SendBlocks \/ Down!SendSeparator \/ Down!SendDone \/ Down!ScriptFails
  PROVE  NoneForgotten'
  <1> USE DEF Down!host, Down!task
  <1> SUFFICES ASSUME good', (down_pc = "line" \/ AtFile)', DoneMayCome' PROVE NoneForgotten'
    BY DEF NoneForgotten
  <1>1. CASE Down!SendHeader \/ Down!SendBlocks \/ Down!SendSeparator \/ Down!SendDone
    <2>1. PICK m \in Message : /\ down_wire' = Append(down_wire, m)
                               /\ Down!SendHeader => m.type = "FILE" /\ m.file = Head(queue)
      <3>1. Down!SendHeader => Head(queue) \in Files
        BY HeadTailProperties DEF Down!SendHeader, DownInv, Down!TypeOK
      <3>2. CASE Down!SendHeader
        <4>1. PICK m \in Message :
                down_wire' = Append(down_wire, m) /\ m.type = "FILE" /\ m.file = Head(queue)
          <5>1. Head(queue) \in Files
            BY <3>1, <3>2
          <5> QED BY <3>2, <5>1 DEF Down!SendHeader, Down!Send, Message
        <4> QED BY <4>1
      <3>3. CASE Down!SendBlocks
        BY <3>3 DEF Down!SendBlocks, Down!SendHeader, Down!Send, Message
      <3>4. CASE Down!SendSeparator
        BY <3>4 DEF Down!SendSeparator, Down!SendHeader, Down!Send, Message
      <3>5. CASE Down!SendDone
        <4>1. ~Down!SendHeader
          BY <3>5 DEF Down!SendHeader, Down!SendDone
        <4> QED BY <3>5, <4>1 DEF Down!SendDone, Down!Send, Message
      <3> QED BY <1>1, <3>2, <3>3, <3>4, <3>5
    <2>2. /\ Len(down_wire) \in Nat /\ Len(down_wire') = Len(down_wire) + 1 /\ down_wire'[Len(down_wire) + 1] = m
          /\ \A k \in 1 .. Len(down_wire) : down_wire'[k] = down_wire[k]
      BY <2>1, WireSent DEF DownInv
    <2>3. /\ down_link /\ UNCHANGED <<down_pc, down_cur, down_manifest, down_remote, good>>
      BY <1>1 DEF Down!SendHeader, Down!SendBlocks, Down!SendSeparator, Down!SendDone, Down!Send
    <2>4. \A f : Coming(f) => Coming(f)'
      BY <2>2, <2>3 DEF Coming, AtFile
    <2>5. /\ \A f \in down_remote :
               f \in down_manifest \/ Coming(f) \/ \E k \in 1 .. Len(queue) : queue[k] = f
          /\ down_script \in {"body", "sep"} => queue[1] \in down_manifest \/ Coming(queue[1])
      BY <2>3 DEF NoneForgotten, DoneMayCome, AtFile
    <2>6. CASE Down!SendHeader
      <3>1. Coming(queue[1])'
        <4>1. Head(queue) = queue[1]
          BY <2>6, HeadTailProperties DEF Down!SendHeader, DownInv, Down!TypeOK
        <4>2. Len(down_wire) + 1 \in 1 .. Len(down_wire')
          BY <2>2
        <4>3. \E k \in 1 .. Len(down_wire') : down_wire'[k].type = "FILE" /\ down_wire'[k].file = queue[1]
          BY <2>1, <2>2, <2>6, <4>1, <4>2
        <4>4. queue' = queue
          BY <2>6 DEF Down!SendHeader
        <4> QED BY <4>3, <4>4 DEF Coming
      <3> QED BY <2>3, <2>4, <2>5, <2>6, <3>1 DEF NoneForgotten, Down!SendHeader
    <2>7. CASE Down!SendBlocks \/ Down!SendDone
      <3>1. UNCHANGED queue /\ (down_script' \in {"body", "sep"} => down_script \in {"body", "sep"})
        BY <2>7 DEF Down!SendBlocks, Down!SendDone
      <3> QED BY <2>3, <2>4, <2>5, <3>1 DEF NoneForgotten
    <2>8. CASE Down!SendSeparator
      <3>1. /\ Len(queue) \in Nat \ {0} /\ Len(queue') = Len(queue) - 1
            /\ \A k \in 1 .. Len(queue') : queue'[k] = queue[k + 1]
        BY <2>8, QueueTail DEF Down!SendSeparator, DownInv, InFlight
      <3>2. queue[1] \in down_manifest \/ Coming(queue[1])
        BY <2>5, <2>8 DEF Down!SendSeparator
      <3>3. ASSUME NEW f \in down_remote, f \notin down_manifest, ~Coming(f)
            PROVE  \E k \in 1 .. Len(queue') : queue'[k] = f
        <4>1. PICK k \in 1 .. Len(queue) : queue[k] = f
          BY <2>5, <3>3
        <4>2. k # 1
          BY <3>2, <3>3, <4>1
        <4>3. k - 1 \in 1 .. Len(queue') /\ queue'[k - 1] = f
          BY <3>1, <4>1, <4>2
        <4> QED BY <4>3
      <3>4. down_script' = "file"
        BY <2>8 DEF Down!SendSeparator
      <3> QED BY <2>3, <2>4, <3>3, <3>4 DEF NoneForgotten
    <2> QED BY <1>1, <2>6, <2>7, <2>8
  <1>2. CASE Down!ScriptFails
    BY <1>2 DEF Down!ScriptFails, NoneForgotten, DoneMayCome, Coming, AtFile
  <1> QED BY <1>1, <1>2

(* No file is forgotten while the device reads and writes. *)
LEMMA DeviceForgets ==
  ASSUME Down!DownloadAssumption, NamesFit, DownInv, NoneForgotten, Down!Task
  PROVE  NoneForgotten'
  <1> USE DEF Down!host, Down!task
  <1> SUFFICES ASSUME good', (down_pc = "line" \/ AtFile)', DoneMayCome' PROVE NoneForgotten'
    BY DEF NoneForgotten
  <1>1. ASSUME Down!ReadHeader \/ Down!ReadBlocks \/ Down!ReadSeparator PROVE NoneForgotten'
    <2>1. down_wire # << >> /\ down_wire' = Tail(down_wire) /\ UNCHANGED <<down_remote, down_script, queue, down_link, down_manifest>>
      BY <1>1 DEF Down!ReadHeader, Down!ReadBlocks, Down!ReadSeparator, Down!Receive
    <2>2. /\ Len(down_wire) \in Nat \ {0} /\ Len(down_wire') = Len(down_wire) - 1 /\ Head(down_wire) = down_wire[1]
          /\ \A k \in 1 .. Len(down_wire') : down_wire'[k] = down_wire[k + 1]
      BY <2>1, WireRead DEF DownInv
    <2>3. DoneMayCome
      BY <2>1, <2>2 DEF DoneMayCome
    <2>4. good /\ (down_pc = "line" \/ AtFile)
      BY <1>1 DEF Down!ReadHeader, Down!ReadBlocks, Down!ReadSeparator, AtFile
    <2>5. ASSUME NEW f, Coming(f) PROVE Coming(f)'
      <3>1. CASE AtFile /\ down_cur = f
        BY <1>1, <3>1 DEF Coming, AtFile, Down!ReadHeader, Down!ReadBlocks, Down!ReadSeparator
      <3>2. ASSUME NEW k \in 1 .. Len(down_wire), down_wire[k].type = "FILE", down_wire[k].file = f
            PROVE  Coming(f)'
        <4>1. CASE k = 1
          <5>1. Down!ReadHeader /\ Head(down_wire).file = f /\ f \in Safe
            BY <1>1, <2>2, <3>2, <4>1 DEF Down!ReadHeader, Down!ReadBlocks, Down!ReadSeparator, Down!Receive
          <5>2. down_cur' = f /\ down_pc' = "open"
            BY <5>1 DEF Down!ReadHeader, NamesFit
          <5> QED BY <5>2 DEF Coming, AtFile
        <4>2. CASE k # 1
          <5>1. k - 1 \in 1 .. Len(down_wire') /\ down_wire'[k - 1] = down_wire[k]
            BY <2>2, <4>2
          <5> QED BY <3>2, <5>1 DEF Coming
        <4> QED BY <4>1, <4>2
      <3> QED BY <2>5, <3>1, <3>2 DEF Coming
    <2> QED BY <2>1, <2>3, <2>4, <2>5 DEF NoneForgotten
  <1>2. CASE Down!OpenFile
    BY <1>2 DEF Down!OpenFile, NoneForgotten, DoneMayCome, Coming, AtFile
  <1>3. CASE Down!Note
    <2>1. /\ down_pc = "note" /\ down_manifest' = down_manifest \cup {down_cur} /\ good
          /\ UNCHANGED <<down_remote, down_script, queue, down_link, down_wire>>
      BY <1>3 DEF Down!Note, AtFile
    <2>2. \A f : Coming(f) => f \in down_manifest' \/ Coming(f)'
      BY <2>1 DEF Coming
    <2> QED BY <2>1, <2>2 DEF NoneForgotten, DoneMayCome, AtFile
  <1>4. CASE Down!ReadDone \/ Down!ReadFails \/ Down!Close \/ Down!Prune \/ Down!Clean
    BY <1>4 DEF Down!ReadDone, Down!ReadFails, Down!Close, Down!Prune, Down!Clean, AtFile, NoneForgotten
  <1> QED BY <1>1, <1>2, <1>3, <1>4 DEF Down!Task

(* Every step leaves each file of the host noted, on its way or to be sent. *)
LEMMA NextForgets ==
  ASSUME Down!DownloadAssumption, NamesFit, DownInv, NoneForgotten, [Down!Next]_(Down!vars)
  PROVE  NoneForgotten'
  <1> USE DEF Down!host, Down!task
  <1>1. CASE Down!Begin
    <2>1. queue' \in Down!SetToSeqs(down_remote') /\ down_remote' \in SUBSET Files /\ down_script' = "file"
      BY <1>1 DEF Down!Begin
    <2>2. {queue'[k] : k \in 1 .. Len(queue')} = down_remote'
      BY <2>1, Listing
    <2> QED BY <2>1, <2>2 DEF NoneForgotten
  <1>2. CASE Down!StartFails \/ Down!Reset
    BY <1>2 DEF Down!StartFails, Down!Reset, NoneForgotten, AtFile
  <1>3. CASE Down!LinkLost
    <2> SUFFICES ASSUME good', (down_pc = "line" \/ AtFile)', DoneMayCome' PROVE NoneForgotten'
      BY DEF NoneForgotten
    <2>1. /\ Len(down_wire) \in Nat /\ Len(down_wire') \in 0 .. Len(down_wire) /\ down_link' = FALSE
          /\ \A k \in 1 .. Len(down_wire') : down_wire'[k] = down_wire[k]
      BY <1>3, WireCut DEF Down!LinkLost, DownInv
    <2>2. PICK k \in 1 .. Len(down_wire') : down_wire'[k].type = "DONE"
      BY <2>1 DEF DoneMayCome
    <2>3. k = Len(down_wire) /\ Len(down_wire') = Len(down_wire)
      BY <2>1, <2>2 DEF DownInv, InFlight
    <2>4. DoneMayCome /\ \A f : Coming(f) => Coming(f)'
      BY <1>3, <2>1, <2>2, <2>3 DEF DoneMayCome, Coming, Down!LinkLost, AtFile
    <2> QED BY <1>3, <2>4 DEF Down!LinkLost, NoneForgotten, AtFile
  <1>4. CASE UNCHANGED Down!vars
    BY <1>4 DEF Down!vars, NoneForgotten, DoneMayCome, Coming, AtFile
  <1> QED BY <1>1, <1>2, <1>3, <1>4, SendForgets, DeviceForgets DEF Down!Next, Down!Script

(* What is noted is complete, and all of it is noted in the end. *)
LEMMA NextNoted ==
  ASSUME Down!DownloadAssumption, NamesFit, DownInv, NoneForgotten, Noted, [Down!Next]_(Down!vars)
  PROVE  Noted'
  <1> USE DEF Down!host, Down!task
  <1> SUFFICES ASSUME good', down_pc' # "idle" PROVE Noted'
    BY DEF Noted
  <1>1. CASE Down!Begin
    BY <1>1 DEF Down!Begin, Noted, AtFile
  <1>2. CASE Down!StartFails \/ Down!Reset
    BY <1>2 DEF Down!StartFails, Down!Reset, Noted
  <1>3. CASE Down!Script \/ Down!LinkLost
    <2>1. UNCHANGED <<good, down_pc, down_manifest, down_remote, down_sd, down_cur>>
      BY <1>3 DEF Down!Script, Down!SendHeader, Down!SendBlocks, Down!SendSeparator, Down!SendDone,
                  Down!ScriptFails, Down!LinkLost
    <2> QED BY <2>1 DEF Noted, AtFile, Down!Extra
  <1>4. CASE Down!ReadHeader
    <2>1. /\ Head(down_wire).file \in down_remote /\ Head(down_wire).file \in Safe
          /\ down_cur' = Head(down_wire).file /\ down_pc' = "open" /\ down_pc = "line" /\ good
          /\ UNCHANGED <<down_manifest, down_remote, down_sd>>
      BY <1>4, WireRead DEF Down!ReadHeader, Down!Receive, DownInv, InFlight, NamesFit
    <2> QED BY <2>1 DEF Noted, AtFile
  <1>5. CASE Down!ReadDone
    <2>1. /\ Len(down_wire) \in Nat \ {0} /\ down_wire[1].type = "DONE"
          /\ down_pc = "line" /\ down_pc' = "close" /\ good /\ UNCHANGED <<down_manifest, down_remote, down_sd>>
      BY <1>5, WireRead DEF Down!ReadDone, Down!Receive, DownInv
    <2>2. Len(down_wire) = 1 /\ Len(queue) = 0 /\ DoneMayCome
      <3>1. 1 \in 1 .. Len(down_wire)
        BY <2>1
      <3>2. Len(down_wire) = 1 /\ queue = << >>
        BY <2>1, <3>1 DEF DownInv, InFlight
      <3> QED BY <2>1, <3>1, <3>2 DEF DoneMayCome
    <2>3. \A f : ~Coming(f)
      BY <2>1, <2>2 DEF Coming, AtFile
    <2>4. down_remote \subseteq down_manifest
      BY <2>1, <2>2, <2>3 DEF NoneForgotten
    <2> QED BY <2>1, <2>4 DEF Noted, AtFile
  <1>6. CASE Down!ReadFails
    BY <1>6 DEF Down!ReadFails
  <1>7. CASE Down!OpenFile
    <2>1. /\ down_pc = "open" /\ down_pc' = "body" /\ good /\ down_sd' = [down_sd EXCEPT ![down_cur] = << >>]
          /\ UNCHANGED <<down_manifest, down_remote, down_cur>>
      BY <1>7 DEF Down!OpenFile
    <2>2. \A f \in down_manifest : f # down_cur => down_sd'[f] = down_sd[f]
      BY <2>1 DEF DownInv, Down!TypeOK
    <2> QED BY <2>1, <2>2 DEF Noted, AtFile
  <1>8. CASE Down!ReadBlocks
    <2>1. Head(down_wire).count = Blocks
      BY <1>8, WireRead DEF Down!ReadBlocks, Down!Receive, DownInv, Message
    <2>2. /\ down_pc = "body" /\ down_pc' = "sep" /\ good /\ down_sd' = [down_sd EXCEPT ![down_cur] = Down!New(down_cur)]
          /\ UNCHANGED <<down_manifest, down_remote, down_cur>>
      BY <1>8, <2>1 DEF Down!ReadBlocks, Down!New
    <2>3. down_sd'[down_cur] = Down!New(down_cur) /\ \A f \in down_manifest : f # down_cur => down_sd'[f] = down_sd[f]
      BY <2>2 DEF DownInv, Down!TypeOK
    <2> QED BY <2>2, <2>3 DEF Noted, AtFile
  <1>9. CASE Down!ReadSeparator
    BY <1>9 DEF Down!ReadSeparator, Noted, AtFile
  <1>10. CASE Down!Note
    <2>1. /\ down_pc = "note" /\ down_pc' = "line" /\ good /\ down_manifest' = down_manifest \cup {down_cur}
          /\ UNCHANGED <<down_remote, down_sd, down_cur>>
      BY <1>10 DEF Down!Note
    <2> QED BY <2>1 DEF Noted, AtFile, Down!New
  <1>11. CASE Down!Close
    BY <1>11 DEF Down!Close, Noted, AtFile
  <1>12. CASE Down!Prune
    <2>1. /\ down_pc = "prune" /\ good /\ UNCHANGED <<down_manifest, down_remote, down_cur>>
          /\ \/ \E f \in Down!Extra : down_sd' = [down_sd EXCEPT ![f] = Absent] /\ down_pc' = "prune"
             \/ Down!Extra = {} /\ down_pc' = "clean" /\ down_sd' = down_sd
      BY <1>12 DEF Down!Prune
    <2>2. \A f \in down_manifest : down_sd'[f] = down_sd[f]
      BY <2>1 DEF Down!Extra, DownInv, Down!TypeOK, Down!DownloadAssumption
    <2> QED BY <2>1, <2>2 DEF Noted, AtFile, Down!Extra, Down!New
  <1>13. CASE Down!Clean
    BY <1>13 DEF Down!Clean
  <1>14. CASE UNCHANGED Down!vars
    BY <1>14 DEF Down!vars, Noted, AtFile, Down!Extra
  <1> QED BY <1>1, <1>2, <1>3, <1>4, <1>5, <1>6, <1>7, <1>8, <1>9, <1>10, <1>11, <1>12, <1>13,
             <1>14 DEF Down!Next, Down!Task

(* Pruning comes after a good close only. *)
LEMMA NextPrunes == ASSUME PrunesAfterGood, [Down!Next]_(Down!vars) PROVE PrunesAfterGood'
  <1> USE DEF Down!host, Down!task
  <1>1. down_pc' = "prune" => Down!Close \/ (down_pc = "prune" /\ good' = good)
    BY DEF Down!Next, Down!Script, Down!Task, Down!SendHeader, Down!SendBlocks, Down!SendSeparator,
           Down!SendDone, Down!ScriptFails, Down!Begin,
           Down!StartFails, Down!ReadHeader, Down!ReadDone, Down!ReadFails, Down!OpenFile, Down!ReadBlocks,
           Down!ReadSeparator, Down!Note,
           Down!Prune, Down!Clean, Down!LinkLost, Down!Reset, Down!vars
  <1> QED BY <1>1 DEF Down!Close, PrunesAfterGood

(* "Download done" is shown when all of it is noted and nothing else is left. *)
LEMMA NextMirrored ==
  ASSUME Down!DownloadAssumption, DownInv, Noted, Down!DoneMeansMirrored, [Down!Next]_(Down!vars)
  PROVE  Down!DoneMeansMirrored'
  <1> USE DEF Down!host, Down!task
  <1> SUFFICES ASSUME down_pc' = "idle", down_result' = "done" PROVE Down!DoneMeansMirrored'
    BY DEF Down!DoneMeansMirrored
  <1>1. CASE Down!Clean
    <2>1. down_pc = "clean" /\ good /\ UNCHANGED <<down_remote, down_sd>>
      BY <1>1 DEF Down!Clean
    <2>2. down_manifest = down_remote /\ Down!Extra = {} /\ \A f \in down_manifest : down_sd[f] = Down!New(f)
      BY <2>1 DEF Noted
    <2>3. \A f \in Safe : down_sd[f] = IF f \in down_remote THEN Down!New(f) ELSE Absent
      BY <2>2 DEF Down!Extra
    <2> QED BY <2>1, <2>3 DEF Down!DoneMeansMirrored, Down!New
  <1>2. CASE Down!Script \/ UNCHANGED Down!vars
    <2>1. UNCHANGED <<down_pc, down_result, down_remote, down_sd>>
      BY <1>2 DEF Down!Script, Down!SendHeader, Down!SendBlocks, Down!SendSeparator, Down!SendDone,
                  Down!ScriptFails, Down!vars
    <2> QED BY <2>1 DEF Down!DoneMeansMirrored, Down!New
  <1>3. CASE Down!Begin \/ Down!StartFails \/ Down!LinkLost \/ Down!Reset
    BY <1>3 DEF Down!Begin, Down!StartFails, Down!LinkLost, Down!Reset
  <1>4. CASE \/ Down!ReadHeader \/ Down!ReadDone \/ Down!ReadFails \/ Down!OpenFile \/ Down!ReadBlocks \/ Down!ReadSeparator
             \/ Down!Note \/ Down!Close \/ Down!Prune
    BY <1>4 DEF Down!ReadHeader, Down!ReadDone, Down!ReadFails, Down!OpenFile, Down!ReadBlocks,
                Down!ReadSeparator, Down!Note, Down!Close,
                Down!Prune
  <1> QED BY <1>1, <1>2, <1>3, <1>4 DEF Down!Next, Down!Task

(* The stronger invariant, for names that fit: it holds at first and is    *)
(* kept.                                                                   *)
LEMMA InitDownMInv == ASSUME Down!DownloadAssumption, Down!Init PROVE DownMInv
  BY InitDownInv DEF Down!Init, DownMInv, NoneForgotten, Noted, PrunesAfterGood, Down!DoneMeansMirrored, AtFile

(* Every step keeps it. *)
LEMMA NextDownMInv ==
  ASSUME Down!DownloadAssumption, NamesFit, DownMInv, [Down!Next]_(Down!vars)
  PROVE  DownMInv'
  BY NextDownInv, NextForgets, NextNoted, NextPrunes, NextMirrored DEF DownMInv

(* What a step in the prune removes is no file of the host. *)
LEMMA PrunesExtra ==
  ASSUME DownMInv, [Down!Next]_(Down!vars), down_pc = "prune", NEW f \in Safe, down_sd[f] # Absent,
         down_sd'[f] = Absent
  PROVE  f \notin down_remote
  <1>1. down_sd' # down_sd
    OBVIOUS
  <1>2. Down!Prune
    BY <1>1 DEF Down!Next, Down!Script, Down!Task, Down!SendHeader, Down!SendBlocks, Down!SendSeparator,
                Down!SendDone,
         Down!ScriptFails, Down!Begin, Down!StartFails, Down!ReadHeader, Down!ReadDone, Down!ReadFails,
         Down!OpenFile, Down!ReadBlocks,
         Down!ReadSeparator, Down!Note, Down!Close, Down!Clean, Down!LinkLost, Down!Reset, Down!vars
  <1>3. PICK g \in Down!Extra : down_sd' = [down_sd EXCEPT ![g] = Absent]
    BY <1>1, <1>2 DEF Down!Prune
  <1>4. f = g
    BY <1>3 DEF DownMInv, DownInv, Down!TypeOK
  <1>5. down_remote \subseteq down_manifest
    BY DEF DownMInv, Noted, PrunesAfterGood
  <1> QED BY <1>3, <1>4, <1>5 DEF Down!Extra

-----------------------------------------------------------------------------
(* The two transfers and the starting of them: what is proved of each      *)
(* holds where a behaviour follows one of the three.                       *)

(* A step of one of the three is a step or a stutter of each. *)
LEMMA OneOfThree ==
  ASSUME [TransfersNext]_transfers
  PROVE  /\ part' = part
         /\ [Next]_vars /\ [Down!Next]_(Down!vars) /\ [Shortcut!Next]_(Shortcut!vars)
  <1>1. UNCHANGED down => UNCHANGED Down!vars
    BY DEF down, Down!vars, Down!host, Down!task
  <1>2. UNCHANGED starts => UNCHANGED Shortcut!vars
    BY DEF starts, Shortcut!vars
  <1> QED BY <1>1, <1>2 DEF TransfersNext, InUpload, InDownload, InShortcut, transfers

TransfersInv ==
  /\ part \in {"upload", "download", "shortcut"}
  /\ IInv /\ DownInv /\ ShortcutInv

(* The invariants of the three hold together. *)
LEMMA InitTransfersInv == ASSUME TransfersInit PROVE TransfersInv
  BY InitIInv, InitDownInv, InitShortcutInv, TransfersAssumption DEF TransfersInit, TransfersInv

(* Every step keeps them. *)
LEMMA NextTransfersInv == ASSUME TransfersInv, [TransfersNext]_transfers PROVE TransfersInv'
  BY OneOfThree, NextIInv, NextDownInv, NextShortcutInv, TransfersAssumption DEF TransfersInv

(* The invariants of the three, of whichever is followed. *)
THEOREM TransfersInvariance == TransfersSpec => []TransfersInv
  <1>1. TransfersInit => TransfersInv
    BY InitTransfersInv
  <1>2. TransfersInv /\ [TransfersNext]_transfers => TransfersInv'
    BY NextTransfersInv
  <1> QED BY <1>1, <1>2, PTL DEF TransfersSpec

(* The types of the three. *)
THEOREM TransfersTyping == TransfersSpec => []TransfersTypeOK
  <1>1. TransfersInv => TransfersTypeOK
    BY DEF TransfersInv, TransfersTypeOK, IInv, DownInv, ShortcutInv
  <1> QED BY <1>1, TransfersInvariance, PTL

(* The host never has a part of a file (REMOTE_UPLOAD_STREAM_CMD moves     *)
(* what it has counted), as long as no file was read shorter than its size *)
(* or saved while it was read.                                             *)
THEOREM TransfersNeverTorn == TransfersSpec => []NoTornFile
  <1>1. TransfersInv => NoTornFile
    BY DEF TransfersInv, IInv
  <1> QED BY <1>1, TransfersInvariance, PTL

(* What the upload's mirror rests on, if the list has room for the card. *)
LEMMA UploadMirroring == ASSUME Fits PROVE TransfersSpec => []MInv
  <1>1. TransfersInit => MInv
    BY InitMInv DEF TransfersInit
  <1>2. MInv /\ [TransfersNext]_transfers => MInv'
    BY OneOfThree, NextMInv
  <1> QED BY <1>1, <1>2, PTL DEF TransfersSpec

(* What the download's mirror rests on, if the names fit their field. *)
LEMMA DownloadMirroring == ASSUME NamesFit PROVE TransfersSpec => []DownMInv
  <1>1. TransfersInit => DownMInv
    BY InitDownMInv, TransfersAssumption DEF TransfersInit
  <1>2. DownMInv /\ [TransfersNext]_transfers => DownMInv'
    BY OneOfThree, NextDownMInv, TransfersAssumption
  <1> QED BY <1>1, <1>2, PTL DEF TransfersSpec

(* "Upload done" and "Download done" are shown only when the two sides     *)
(* agree (uploadTask, downloadTask), if the list has room for the card,    *)
(* the names fit their field, the upload's listing succeeded and no file   *)
(* it sent was read shorter than its size.                                 *)
THEOREM TransfersMirror ==
  ASSUME Fits, NamesFit PROVE TransfersSpec => []DoneIsMirrored
  <1>1. MInv /\ DownMInv => DoneIsMirrored
    BY MirrorsWhenDone DEF DoneIsMirrored, DownMInv
  <1> QED BY <1>1, UploadMirroring, DownloadMirroring, PTL

(* The prune step of a download (pruneLocalFilesAgainstManifest) removes   *)
(* no file the host has, if the names fit.  Of its other steps nothing is  *)
(* said: a file opened for writing on a failing card is lost.              *)
THEOREM TransfersPrune ==
  ASSUME NamesFit PROVE TransfersSpec => PrunesExtrasOnly
  <1>1. DownMInv /\ [TransfersNext]_transfers =>
          [down_pc = "prune" =>
             \A f \in Safe : down_sd[f] # Absent /\ down_sd'[f] = Absent => f \notin down_remote]_(Down!vars)
    BY OneOfThree, PrunesExtra
  <1> QED BY <1>1, DownloadMirroring, PTL DEF TransfersSpec, PrunesExtrasOnly, Down!PrunesExtrasOnly

(* The flags of the transfers are what runs, unless starts overlapped. *)
THEOREM TransfersFlags == TransfersSpec => []FlagsHonest
  <1>1. TransfersInv => FlagsHonest
    BY FlagsFollow DEF TransfersInv, FlagsHonest
  <1> QED BY <1>1, TransfersInvariance, PTL

(* A wait step that passes finds the transfer over, unless starts          *)
(* overlapped.                                                             *)
THEOREM TransfersWait == TransfersSpec => WaitedIsOver
  <1>1. TransfersInv /\ [TransfersNext]_transfers =>
          [\A k \in Shortcut!Kinds : Shortcut!WaitClear(k) /\ ~raced =>
             \A t \in Shortcut!Alive(k) : transfer[t].by # "shortcut"]_(Shortcut!vars)
    BY PassesWhenOver DEF TransfersInv
  <1> QED BY <1>1, TransfersInvariance, PTL DEF TransfersSpec, WaitedIsOver, Shortcut!WaitedIsOver
=============================================================================
