----------------------------- MODULE SeenPackets -----------------------------
(***************************************************************************)
(* The radio's memory of the packets it has handled: a packet of the mesh  *)
(* arrives once per neighbour, and only its first copy is shown.  The      *)
(* cache has few slots and forgets with time.                              *)
(***************************************************************************)
EXTENDS Naturals, FiniteSetsExt

CONSTANTS
  Packets,            \* sender and id of a packet, as one value
  None,
  MSH_DUP_CACHE_SIZE,
  MSH_DUP_MAX_AGE,
  MaxTime             \* bound: the clock

CacheAssumption ==
  /\ None \notin Packets /\ MSH_DUP_CACHE_SIZE \in Nat \ {0} /\ MSH_DUP_MAX_AGE \in Nat
  /\ MaxTime \in Nat \ {0}

VARIABLES
  now,
  msh_seen_packets,   \* per slot: the packet, or None, and when it was last heard
  heard               \* ghost: when each packet was last heard, 0 if never

vars == <<now, msh_seen_packets, heard>>

Slots == 0 .. MSH_DUP_CACHE_SIZE - 1
Free == [packet |-> None, seen |-> 0]

TypeOK ==
  /\ now \in 1 .. MaxTime
  /\ msh_seen_packets \in [Slots -> [packet : Packets \cup {None}, seen : 0 .. MaxTime]]
  /\ heard \in [Packets -> 0 .. MaxTime]

Init ==
  /\ now = 1 /\ msh_seen_packets = [i \in Slots |-> Free]
  /\ heard = [p \in Packets |-> 0]

Age(i) == now - msh_seen_packets[i].seen
Expired(i) == msh_seen_packets[i].packet # None /\ Age(i) > MSH_DUP_MAX_AGE
Hits(p) == {i \in Slots : msh_seen_packets[i].packet = p /\ ~Expired(i)}

\* The walk frees the expired slots it passes; a hit ends it.
Swept(last) == [i \in Slots |-> IF i <= last /\ Expired(i) THEN Free ELSE msh_seen_packets[i]]
AllSwept == Swept(MSH_DUP_CACHE_SIZE - 1)

\* Without a hit: the first free slot, or the last one of the oldest.
FreeSlots == {i \in Slots : AllSwept[i].packet = None}
Oldest == {i \in Slots : \A j \in Slots : Age(j) <= Age(i)}
\* Mutant: the newest entry is displaced.
WriteIndexNewest ==
  IF FreeSlots # {} THEN Min(FreeSlots)
  ELSE Max({i \in Slots : \A j \in Slots : Age(j) >= Age(i)})

WriteIndex == IF FreeSlots # {} THEN Min(FreeSlots) ELSE Max(Oldest)

\* Mutant: a copy does not renew its entry.
mshIsDuplicatePacketOnce(p) ==
  msh_seen_packets' =
    IF Hits(p) # {} THEN Swept(Min(Hits(p)))
    ELSE [AllSwept EXCEPT ![WriteIndex] = [packet |-> p, seen |-> now]]

mshIsDuplicatePacket(p) ==
  LET entry == [packet |-> p, seen |-> now]
  IN msh_seen_packets' =
       IF Hits(p) # {}
       THEN [Swept(Min(Hits(p))) EXCEPT ![Min(Hits(p))] = entry]
       ELSE [AllSwept EXCEPT ![WriteIndex] = entry]

Receive(p) == mshIsDuplicatePacket(p) /\ heard' = [heard EXCEPT ![p] = now] /\ UNCHANGED now

Tick == now < MaxTime /\ now' = now + 1 /\ UNCHANGED <<msh_seen_packets, heard>>

Next == Tick \/ \E p \in Packets : Receive(p)

Spec == Init /\ [][Next]_vars

-----------------------------------------------------------------------------
\* The cache remembers the packets that were heard last: a copy of a packet that
\* is young enough and not displaced by newer ones is recognised, and nothing
\* is taken for a copy that was not heard lately.
Recent(p) == heard[p] # 0 /\ now - heard[p] <= MSH_DUP_MAX_AGE
CacheIsRecent ==
  /\ \A i \in Slots : LET e == msh_seen_packets[i] IN
       e.packet # None => e.seen = heard[e.packet] \/ Expired(i)
  /\ \A p \in Packets : Recent(p) =>
       \/ Hits(p) # {}
       \/ \A i \in Slots : msh_seen_packets[i].packet # None
                           /\ msh_seen_packets[i].seen >= heard[p]
=============================================================================
